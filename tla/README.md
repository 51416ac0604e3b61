# buildseo: TLA+ models, model checking and proofs

buildseo is a multi-tenant link-building service: a FastAPI backend on
PostgreSQL (`src/backend/app`, about 21 000 lines of Python) and a Next.js
frontend (`src/frontend`). This directory holds the TLA+ specifications of the
parts of it whose correctness depends on interleaving, ordering, failure or a
long history, the TLC configurations that check them on small instances, and
TLAPS proofs of their main properties for every instance.

Paths below are relative to `src/backend/` unless they say otherwise.

## 1. The system

### Components, their state and operations

| Component | State | Operations | What makes it correct |
|---|---|---|---|
| Task queue and worker (`app/workers/queue.py`, `runner.py`, `app/repositories/jobs.py`) | table `jobs`; in each worker the claimed batch and the running handler | enqueue; sweep, claim, run, record the outcome; stop, crash, restart | no double run but by a sweep; no lost job; final outcomes; at most `max_attempts` before giving up; every job settles |
| Submissions (`app/submissions/`) | table `submissions`, with a CHECK, a partial unique index and a trigger | create, update, transition, prepare for review, approve, execute, verify, delete | nothing sent without approval, and nothing but what was approved; refusals come from the service; moves along the table |
| Opportunities and AI content (`app/opportunities/`) | `opportunities`, `generated_contents` | create, transition, qualify, delete; generate, review | a human decision stands; one draft under review; nothing outlives what it hangs on |
| Authentication (`app/auth/`, `app/api/dependencies/auth.py`) | `refresh_sessions`, `users` | register, login (and rehash), refresh, logout, revoke, change password, select workspace | one valid token per family; ended families stay dead; only one's own sessions; the password is the one chosen last |
| Publishers (`app/publishers/`) | `publishers`, `discovery_runs` | create, update, delete; start and execute a run; qualify | a site is listed once however it is spelled; what shows paid placement is not FREE; a run counts what it brought; more evidence never costs a site anything |
| Tenants, memberships, RBAC (`app/tenants/`, `app/rbac/`) | `tenants`, `tenant_memberships`, `roles` and their links | create a workspace; add, update, remove a member; create, update, assign, delete a role | a workspace keeps an owner; roles held are the workspace's own, and none is lost silently; an id alone gives no access |
| Tenant context and RLS (`app/db/`, migration 0017) | the GUCs `app.current_tenant_id`, `app.current_user_id` of a transaction | set, commit, roll back, lose the connection | a session that may run a statement reaches the rows it was bound to and no others |
| Credentials (`app/credentials/`, `app/core/crypto/`) | `credentials`, `tenant_ai_configs` | store, rotate, disable, verify, delete; configure, set the default | a verdict belongs to the secret it was reached with; one default per purpose; no configuration without its credential |
| Idempotency and rate limits (`app/api/dependencies/idempotency.py`, `app/core/rate_limit.py`) | `idempotency_keys`; token buckets in memory | look up, record, purge; take, evict | a retried request creates once, and every answer is a resource for what was asked; no two quotas within a window |
| Client websites, campaigns (`app/organizations/`, `app/campaigns/`) | `client_websites`, `campaigns` | create, rename, delete | deletions cascade |
| Users | one row each | CRUD | nothing across steps |
| Audit | append-only `audit_logs` | record | an event is recorded iff its transaction commits |
| Integrations (`app/integrations/`, `app/core/http_client.py`) | none but the call under way | AI, crawler, discovery, metrics, submission providers | bounded retries; every hop checked; an outcome of the protocol, whatever happens |
| Frontend (`src/frontend/src`) | tokens in memory and a cookie | calls the API; refreshes once for all waiting calls | one refresh at a time |

### How they interact

* A request runs in one transaction (`get_unscoped_session`, the tenant session):
  commit at the end, roll back on any exception. Services call repositories,
  repositories share the session. PostgreSQL runs at READ COMMITTED and the services
  take no row locks, so two requests interleave between the load of a row and
  its write; SQLAlchemy writes back only the columns that differ from the loaded ones.
* Requests hand work to workers through the `jobs` table; a handler calls the
  same services, in its own transaction, with the tenant of the job.
* A submission hangs on an opportunity, that on a publisher: `execute` reads all three
  and writes two.
* A publisher found by a discovery run is qualified by crawling its site; opportunities pair it with a campaign;
  drafts are written for an opportunity by an AI provider and reviewed by a person. Deleting any of these
  cascades.
* Every route establishes a workspace and a permission first; the permission comes from the roles of the caller's
  membership, which other requests may be changing.
* Every authenticated request looks its session up (`get_principal`), so a
  revocation takes effect at once.

### What is hard about it

Interleaved read-then-write transactions; outcomes that arrive late; time (job
timeout, retry backoff, poll interval, token expiry); crashes of workers; awaiting
providers while others write; writes rolled back by the exception that reports
them. `PROJECT.json` lists these hazards one by one, at their lines, with the property
that covers each or the reason none does.

## 2. Modules

| Module | Models | Composition |
|---|---|---|
| `Leases` | what the queue promises: a table of jobs and who has them | |
| `JobQueue` | the queue, its workers, time and faults | refines `Leases` |
| `Workflows` | the two transition tables | |
| `SubmissionWorkflow` | the abstract workflow of a submission | EXTENDS `Workflows` |
| `Submissions` | the submission service against the database, interleaved requests, the opportunity and its publisher around it | EXTENDS `Workflows`; refines `SubmissionWorkflow` |
| `RefreshSessions` | refresh-token families, interleaved requests | |
| `Requests` | what the modules of the HTTP services share: clients, and no request under way | |
| `Permissions` | the permission catalogue and the default roles | |
| `Workspaces` | workspaces, members, roles | EXTENDS `Requests`, `Permissions` |
| `Scoring` | the scoring model: pure functions | |
| `Publishers` | publishers, discovery runs, qualification and the crawler's decisions | EXTENDS `Requests`, `Scoring` |
| `Opportunities` | client websites, campaigns, opportunities, drafts, around the publishers | EXTENDS `Publishers`, `Workflows`; implements `Publishers` |
| `Credentials` | provider secrets and AI configurations | EXTENDS `Requests` |
| `Idempotency` | the ledger of one endpoint | EXTENDS `Requests` |
| `RateLimiter` | token buckets over time | |
| `HttpClient` | one outbound call | |
| `Accounts` | accounts and passwords | EXTENDS `Requests` |
| `TenantSessions` | database sessions, pooled connections, row-level security | EXTENDS `Requests` |
| `Services` | all of the HTTP services next to one another | EXTENDS the eight components among the above |
| `MC...` | small instances, symmetry | EXTEND the above |
| `JobQueueProofs`, `SubmissionsProofs`, `RefreshSessionsProofs` | theorems about the module of that name | EXTEND it and `TLAPS` |
| `IdentityProofs` | theorems about `Accounts` and `Workspaces` | |
| `KeysProofs` | theorems about `Idempotency` and `Credentials` | |
| `ListingsProofs` | theorems about `Publishers`, `Scoring` and `Opportunities` | |
| `PlatformProofs` | theorems about `TenantSessions`, `HttpClient` and `RateLimiter` | |
| `ServicesProofs` | theorems about `Services`, from those about its parts | EXTENDS the four above |

Names ending in `_Something` (`Stale_AtTimeout`, `Create_Unchecked`, ...), each under a
comment that starts with "Mutant", are versions of the definition that follows them with a
plausible bug. No specification uses them; replacing the definition by its mutant
makes TLC find the property violated that `PROJECT.json` pairs it with.

### JobQueue

A job row is `status`, `attempts`, `wait` (`run_at - now`) and `age` (`now - started_at`,
`Null` for SQL's NULL, counted up to just past the timeout). A worker has a phase `pc`,
the `batch` it has claimed, the job `cur` it runs, for how long (`elapsed`), and what
`_finish` has read (`seen`). One action is one transaction, or one step of a worker
between two:

| Code | Action |
|---|---|
| `PostgresTaskQueue.enqueue` | `Enqueue` |
| `requeue_stale` | `RequeueStale` |
| `claim` | `Claim`, `ClaimNothing` |
| `_run_job`: resolve | `StartJob` (an unknown task goes straight to `_finish`) |
| `_run_job`: handler in `session_scope` and `wait_for` | `HandlerCommits`, `HandlerRaises` (exception, timeout or failed commit) |
| `_finish`: load, then `mark_succeeded`, `mark_failed` and commit | `FinishRead`, `FinishWrite` |
| `run`: idle wait, failed tick, stop | `Tick`, `TickFails`, `Crash` |
| the supervisor | `Restart` |

`_finish` is two actions because other transactions may commit between its SELECT and
its UPDATE. `Assign` is the ORM's rule that an assignment of the loaded value writes
nothing; it is what makes racing `_finish` calls merge into rows nobody wrote.

`Prompt` says that sweeps, claims and the recording of outcomes take no time: time passes while a handler runs, while a worker
sleeps or is down, and while a claimed job waits in its batch. That wait includes the one before the first handler, since `wait_for`
starts counting only after the claim has dated the row, with the same timeout as the sweep. With `Prompt = FALSE` a worker may stall
for any time between any two transactions. Two histories say what time has done: `waited`, the jobs over which it passed outside their
handler, and `lapsed`, those a sweep took from a worker that was still there. `BypassRLS` says whether
row-level security applies to the worker's connection: its transactions carry no tenant, and
the forced policy on `jobs` shows such a session nothing. The tests run the queue as the
superuser (`TRUE`); the documented deployment connects as `buildseo_app` (`FALSE`). The runs
about the queue's protocol take `TRUE`, since otherwise nothing ever happens, which is what the
run `confined` shows.

`Leases` is the promise: jobs that nobody has are leased to a worker, one or several at a time; only a worker with a lease does the
work and says how it ended; SUCCEEDED needs work done. A lease is exclusive until its worker settles it, is gone, or is evicted by
somebody who puts the job back: a job whose worker was evicted may have several holders from then on, and what one of them
says of it may be overwritten by another. For every other job SUCCEEDED and FAILED are final. It has no clock, no sweep and no
transactions. `Queue!LeaseSpec` is checked with `state` mapped to the status column, `holders` to the workers that have a job
running or waiting in their batch, `work` to the commits of its handler and `evicted` to `lapsed`. `Claim` is `Take`, `_finish` is
`Settle`, `Crash` and `TickFails` are `Abandon`, `RequeueStale` is `Recover`, and the rest stutters.

Abstracted: the order of a claim (`run_at`, then `id`) is any order; what a handler does is
one commit or nothing; the payload's `_worker_id`. Left out: the idempotency key, which no
caller passes; `CANCELLED`, which nothing writes; `_finish` on a deleted row, since nothing deletes
jobs.

### Submissions

`row` is the table, reduced to the columns the gate depends on: `status`, `by`
(`approved_by_user_id`), `at` (`approved_at`, represented by the content that was approved)
and `text` (the content). `req[c]` is what client `c`'s request has loaded and what it is about to
write. A request is two actions, load-and-compute (one for each service method) and `Commit`, with
`Send` between the two for `execute`'s call of the provider. `Commit` merges the changed
columns into the row as it is by then, and may happen only if the CHECK, the partial unique index
and the trigger allow it; `Abort` covers refusals, timeouts and lost processes, and is possible at
any time.

`MoveOpportunity`, `Qualify` and `Reprice` are what the other services do meanwhile; each is one
step here, and in full in `Opportunities` and `Publishers`. A provider returns any outcome its protocol allows, though the shipped
ones only record or decline.

Abstracted: content is an opaque value, with or without a title. An
edit that sets an empty title is an edit to an untitled content. Left out: URLs, notes, evidence,
audit rows; deletion of the opportunity (which cascades) and of users.

`SubmissionWorkflow` is the promise: a row starts READY, moves one or two edges of the
table at a time, and otherwise is only deleted. `Workflow!WorkflowSpec`
is checked with `stage` mapped to the status column.

### RefreshSessions

A token is a row: its `family`, `revoked`, `expired`. A family is a login. Each request first reads
its row and decides (`Refresh`, `RefreshReplayed`, `RefreshInactive`, `Logout`, `ChangePassword`),
then commits (`Rotate`, `RevokeFamilies`, `KeepCurrent`) or not (`Abort`). A bulk revocation is two steps: the UPDATE of
`revoke_family` or `revoke_all_for_user` takes the rows that are valid when it executes (`BulkUpdate`), and its transaction
commits them later (`RevokeFamilies`, `KeepCurrent`). A token inserted in between, or by a rotation whose row the UPDATE waits
for, is not among them. The ORM's own writes go by primary key whatever the row has become. In particular `change_password` clears `revoked` on its own
row even when somebody else had set it, because the bulk UPDATE is also applied to the object it had
loaded. `get_principal` looks at the session's `revoked`, not at its `expires_at`.

History variables: `killed`, the families ended by a logout, a replay or a new password; `raced`,
those with a write over a row that was revoked, or taken by a bulk revocation, since it was read.

Abstracted: deactivating a user is an operator's step; no endpoint does it. Left out: the
workspace a session remembers and `select_tenant`; the access token's contents. Registration and hashes are in
`Accounts`. `delete_expired` has no caller.

### The HTTP services: what the modules have in common

`Requests`: each client is a database session with at most one request under way, and sessions share only
committed rows. A request is a step per route, up to its first write (the context, the permission, the loads and the
refusals), then a commit step, or a rollback, which is possible at any time and covers refusals, violated constraints and
lost connections. A commit holds what PostgreSQL does by itself: unique and foreign keys, cascades, and the ORM's rule
that only columns that differ from the loaded row are written. Where a provider is awaited there is a third
step in between. A row flushed before an await is locked until the commit, which the guards `Locked` and `UnderWay` express, or one step for flush,
probe and commit (the rotation of a secret). Rows come from a bounded sequence of ids and are never reused, as UUIDs are not.

Most properties hold up to overlaps that the code does not exclude. Each such property names the exact overlap with a
history variable, so that what is left is still a promise, and a mutant of a guard breaks it:

| History variable | What it records |
|---|---|
| `wsRaced` | workspaces that lost an ownership to a request whose guard had not looked, or that overlapped with another that did |
| `wsStripped` | roles assigned while a request that found them unassigned was deleting them |
| `rerun` | discovery runs executed again after they had ended |
| `overlapped` | drafts decided, and opportunities given a draft, while another request was about to write the same rows |
| `proven`, `byHand`, `credRaced` | secrets a provider has accepted; rows set to VERIFIED by PATCH; rows verified or rotated while another request was about to do either |
| `answers` | the answers given for a key, with their bodies, until the retention of the key ends |
| `repriced` | publishers whose pricing a person, or an overlapping qualification, changed after the evidence that is stored |
| `shed`, `admitted` | buckets dropped before they could refill; admissions per tick |
| `sends`, `visited`, `turned` | what one outbound call has sent, where to, and whether it has been made a GET |
| `chosen`, `rehashed` | the password chosen last; addresses with a rehash under way as the password changed |

### Workspaces and Permissions

State: the status of each workspace; `members`, the rows of `tenant_memberships` with their roles; `roles`, the rows of each
workspace with their grants. `CreateTenant` seeds the five system roles and the owner; `AddMember`, `UpdateMember`, `RemoveMember`,
`CreateRole`, `UpdateRole`, `DeleteRole`, `UpdateTenant` are the routes, under `Permitted` (an ACTIVE membership of an ACTIVE
workspace, with a role that grants the permission), each with its `Commit...`. The grants are restricted to the permissions
that guard these routes. `LosingOwnership` and `LastOwnerKept` are `update_membership`'s guard on the loaded row;
`Replacements` is what replacing a set of link rows does when another request has just replaced them.

Abstracted: profile columns, slugs and names. A system role is a name, a custom role can be created once.

### Scoring and Publishers

`Scoring` has every component score, the penalties and hard rejections, and `OpportunityScore` in hundredths of a point,
with Python's half-even rounding to two places taken as rounding half up (the difference is a tie that
no threshold sees). `QualifyingIsMonotone` (of `Publishers`) compares the evidence
recorded for each publisher, and each site of a sample, with what one more finding in its favour makes of it; the run's
sample has every combination of the signals' interesting values, the proof holds for any.

`Publishers`: a publisher is its domain, pricing, status, the run that found it and the signals recorded for it.
`CreatePublisher`, `UpdatePublisher`, `DeletePublisher`; `QualifyPublisher`, `MarkQualifying` (flushes QUALIFYING and locks the row while the
site is crawled), `CommitQualify`; `StartRun`, `ExecuteRun` (looks up the known domains), `CommitDiscover`, `FailRun`. `Crawl`
and `Evidence` are the decisions of the crawler and of `_gather_evidence` about a page; a page is a record of what
those decisions look at. `IsFree` and `PricingAfter` settle the pricing from the loaded row and the evidence. The locks of
qualification and discovery do not cover an update by hand that was loaded before, and the models allow that.

`NormalizeDomain` is `normalize_domain` of `normalize_url`: a spelling is a scheme, a port and the labels of a host as they were
written; `Host` drops the dots around the host, lowers it and folds it to ASCII, `ValidHost` refuses what has a bad label, a single
one or a numeric last one, `DropWww` drops every leading `www` that leaves two labels. `Ascii`, `ValidLabels`, `NumericLabels` and
`IpLiterals` stand for the label regex, IDNA and `ipaddress`. Left out: white space, userinfo, paths, the length limits and the other
dots that IDNA knows. A port that is no number is not refused but raises (`PortRaises`): `_materialise` skips a candidate that
is refused, but an error of that kind is not caught there, so the run's transaction fails as a whole, which `CommitDiscover` has.
`OneSite` says what the unique constraint is there for: no host name spells the domains of two publishers. It needs the constraint and
that canonical forms have no spelling in common, and a `www` dropped only once breaks it.

Two statements of the code are wider than what it does. The comment in `_apply` (`qualification.py:240`) and the description of the
endpoint (`api/v1/publishers.py:265`) say that pricing is only ever tightened automatically; a crawl that detects a free path turns
PAID, MIXED and UNKNOWN into FREE. And the verdict of a qualification is written over BLOCKED and ARCHIVED, which a person
has set. The models have both; `FreeIsNotPaid` is the half that holds: a publisher whose stored evidence shows paid placement is FREE
only if it was priced by hand, or by another qualification, after that evidence. A page with both phrases counts as free, as in the crawler.

### Opportunities

Websites, campaigns, opportunities and drafts, on top of all of `Publishers`: `PublisherStep` is a step of the
publishers, with the opportunities and drafts that a deletion takes along, `ListingStep` one of the rest. `CreateOpportunity` is
idempotent; `TransitionOpportunity` follows the table of `Workflows`; `QualifyOpportunity` writes over any status, as the code
does; `GenerateContent` (checks the regenerate flag), `ReceiveContent` (the AI has answered, the drafts to supersede are
listed) and `CommitGenerate`; `ReviewContent` and `CommitReview`.

Abstracted: texts, scores and priorities. Left out: updates of descriptive columns, the status of a campaign, the
submission that hangs on an opportunity (it is `Submissions`), the accounting of AI calls.

### Credentials

A credential is a label, a secret (a number, new with each store or rotation) and a status; a configuration is a purpose, a
vendor, the credential it points at and the default flag. The routes create, update (which may rotate, set the status, and probe),
verify, delete; upsert and delete a configuration. `AssignedStatus` and `WrittenStatus` follow the order in which `update` and the
verification after it assign the column. A provider accepts or refuses a secret at will; `proven` remembers it.

### Idempotency, RateLimiter, HttpClient

`Idempotency` is the ledger of one endpoint around its service. `Replay` answers from the ledger. `BeginCreate` found no entry,
and lets the service look for a row for the same campaign, publisher and URL (`Aim`, `Duplicates`). `CommitCreated` inserts a row and
`CommitFound` answers with the one that was there, which an earlier request may have made from another body, as `POST /opportunities`
does; both store the key with it in the same transaction under the unique constraint (`Remember`). With `Finds = FALSE`, and an aim for
each body, it is the ledger of credentials, whose service never answers with an existing row; the proof covers both. `DeleteResource`
takes away what the ledger refers to; `RetentionPasses` and `PurgeKeys` forget the keys past the retention and no others. So the promise is not that
an answer was made for the body that was sent: until its retention ends, all answers for a key are for one body and name one
resource, and every answer is a resource for what that body asks.

`RateLimiter`: `Acquire` refills, takes and evicts as `InMemoryRateLimiter` does. Tokens are counted in fractions of
`1/window`, so that no real number is needed. `admitted[k][t]` is a history: the requests of key `k` let through in the window that
begins at tick `t`. Middleware exemptions are outside the keys.

`HttpClient`: the two loops of `request` (hops, and attempts within one), the check of each URL, redirections with and without the
change to GET, the limit on size, and what the AI adapters make of each outcome. A send that fails may have reached the server.

### Accounts and TenantSessions

`Accounts`: `RegisterUser`, `Authenticate`, `ChangePassword` and their commits. A hash is the password with the cost it was made
with; `ConfigureCost` is a restart with other settings (one deployment, hence no request under way). `SetUserActive` is an operator.

`TenantSessions`: a session is its phase, its connection and the context it was bound to; a connection has the two settings.
`EndTransaction` and `Reapply` are the two halves of `commit` and `rollback`: another session may take the connection in between. Loss of
a connection is possible at any time. `Readable` and `Writable` are the policies of migration 0017, the self-read
policy of `tenant_memberships` included.

### Services

The components above share no row, so what one does is no step of any other, and every interleaving of all of them is, for each,
one of its own runs. `part` chooses the one that moves; a property of one component is checked in the states where that
one has moved, and the others are at their initial states. The one pair that does share rows, publishers and opportunities, is a
single part.

## 3. Runs

| Run | Instance | Checks |
|---|---|---|
| `claims` | 2 jobs, one with no handler; 2 prompt workers; batch 2; 2 attempts; timeout 1; 1 fault; fairness | `ClaimIsKept`, `RunningIsDated`, `EveryJobSettles` |
| `stalls` | 2 jobs, one with no handler; 2 stalling workers; batch 2; 2 attempts; 1 fault | `TypeOK`, `NoDoubleRunUnlessLapsed`, `OnceWithoutFaults`, `SuccessIsCommitted`, `FailedIsExhausted`, `RunsAreCounted`, `FinishedIsFinal`, `ImplementsLeases` |
| `double` | 2 jobs; 2 prompt workers; batch 2; no faults | violates `NoDoubleRun` |
| `lost` | 1 job; 4 stalling workers; 5 attempts | violates `RunningIsDated` |
| `confined` | 2 jobs; 1 worker under row-level security; no faults; fairness | violates `EveryJobIsPicked` |
| `serial` | 1 client; 2 submissions; 3 steps of other services; 2 contents, one untitled | `TypeOK`, `RefusedByService`, `ImplementsWorkflow` |
| `races` | 2 clients; 2 submissions of one opportunity; 2 contents | `ApprovalGate`, `SentHadApproval` |
| `stale` | 1 client; 1 submission; 2 contents | violates `SentWasApproved` |
| `terminal` | 2 clients; 1 submission | violates `TerminalIsFinal` |
| `sessions` | 2 clients; 3 tokens; 2 families of one user, 1 of another | `TypeOK`, `OneTokenUnlessRaced`, `DeadUnlessRaced`, `OwnSessionsOnly` |
| `rotation` | 2 clients; 3 tokens | violates `OneValidToken` |
| `services` | 2 clients in each part; bounds below | `TypeOK`; workspaces: `OwnerRemains`, `HeldRolesAreOwn`, `OwnWorkspaceOnly`, `NoSilentStripping`; publishers: `OneSite`, `RunCountsItsPublishers`, `FreeIsNotPaid`, `QualifyingIsMonotone`; opportunities: `NoOrphans`, `DecisionStands`, `OnePendingDraft`; credentials: `VerifiedIsProven`, `ConfigsSound`; `OneEffectPerKey`; `NoTwoQuotas`; `CallIsGuarded`; `PasswordStands`; `OnlyOwnRows` |

Distinct states: `claims` 477 582, `stalls` 359 394,
`races` 3 891 666, `sessions` 1 369 484, `services` 139 741.

### What the violations show

* `double`: `claim` dates the whole batch at once, and the batch is run one job after the other. A job
  that waits longer than the timeout behind a slow one is requeued under its worker, and runs twice. The default batch is 5.
  A batch of one narrows this down to the time between the claim and the start of the handler, and does not close it. That sweep is the only way to
  a double run (`NoDoubleRunUnlessLapsed`), and it takes a job that had to wait (`ClaimIsKept`).
* `lost`: enough late `_finish` transactions can merge into a row that is RUNNING without
  `started_at`, which the sweep skips. It takes stalled workers.
* `confined`: as `buildseo_app`, a worker never sees a job.
* `stale`: approve, transition to IN_PROGRESS, edit, back to review, execute: the approval has survived
  the edit.
* `terminal`: VERIFIED and REJECTED are overwritten by a request that loaded the row before.
* `rotation`: two refreshes of one token, each past the check, each issue a successor.

### Bounds, and why they are enough

* Queue: two workers and one fault suffice for every race of an owner with a usurper;
  `lost` needs four workers on one job, since several outcomes must be late at once. Timeout 1 and
  delays of 1 and 2 keep "before", "at" and "after" the timeout apart; `age` stops just
  past the timeout, where nothing distinguishes larger values. `MaxFaults` is the only cap on an
  unbounded counter: crashes without end would make `attempts` grow without end.
* Submissions: two requests make every read-write conflict; two rows of one opportunity, every
  conflict over liveness. `MaxMeddling` caps the steps of the other services; `races` sets it
  to 0, since the properties there do not look at the opportunity or the pricing, and `serial` to 3,
  enough for the pricing to change after the load, with the opportunity moved as well.
* Sessions: three tokens let a family be rotated twice, or rotated and raced, or be revoked while another is in use. Tokens and
  families never come back, as in the table.

* Services. Two clients make every conflict between two requests; each part may begin only as many requests as its
  hardest case needs:
  * workspaces: 2 workspaces, 2 users, 1 custom role, 3 membership rows, 4 requests: two owners can leave at once, a role can be
    created, assigned and deleted, and a membership of the other workspace be addressed;
  * publishers and opportunities: 9 spellings (2 sites, one of them with and without `www`, twice, with capitals and dots; an address, another scheme, a bad
    label, a single one, a bad port), 3 publishers, 1 run, 3 requests on publishers, 5 on the rest. Because a long history
    (a run, a qualification, a campaign, an opportunity, a draft) would use all of them up, `MCInit` begins in an empty database or
    in a state a workspace gets to: a qualified publisher whose pricing was set back by hand; a publisher that is FREE with a
    campaign; the same with its opportunity. In each the remaining requests go to one half;
  * credentials: 2 rows, 2 configurations, 3 requests: create, then a rotation against a verification, a default against a
    default, or a deletion against a reference;
  * idempotency: 2 keys, 3 bodies, two of them for one campaign, publisher and URL; 3 resources, 3 requests;
  * limiter: 2 per window of 2 ticks, 2 addresses, a ceiling of 1 bucket, 4 ticks: two whole windows, and evictions;
  * http: 2 hosts, one not public; 2 retries and 2 redirections;
  * accounts: 1 address, 3 passwords, one of them weak, 2 costs, 4 requests; sessions: 2 connections, 2 workspaces, 2 users.

  Clients, users and workspaces are symmetric; the run has no liveness property.

`Services` runs with `CHECK_DEADLOCK FALSE`: when the requests are used up, or the outbound call has ended, nothing more
happens. `Submissions` does too: when all ids are used up and the rows deleted nobody
need do anything. The queue and the sessions never stop.

### Fairness

Only `claims` and `confined` use it. `WF(Step(w))`: a worker that is up goes on (the loop of `run`
survives every exception), a handler ends (`wait_for`), and a worker that is down is started again, as
`restart: unless-stopped` of the worker in `docker-compose.yml` has it (that service is commented
out there as a template; whoever enables it gets the restart). `WF(Tick)`: the clock advances.
Nothing is assumed of requests or faults.

## 4. Proofs

All theorems are proved by TLAPS for every value of the constants under the modules'
`ASSUME`s, and some under a further hypothesis in their statement.

Where a property excepts what a history variable has recorded (`rehashed`, `wsRaced`, `credRaced`, `overlapped`), or a run finds
it violated by requests that overlap (`terminal`, `rotation`), a theorem named `Serial...` or `...WhenSerial` assumes one client
(`\A c, d \in Clients : c = d`) and proves the property without the exception: what goes wrong goes wrong by concurrency alone.

`JobQueueProofs`
* `TypeCorrect` strengthens `TypeOK` with `WorkerShape`: a worker runs a job exactly in the busy
  phases, and what it holds has been claimed at least once, so the delay of a retry is looked up in range.
* `SuccessCommitted`, `FailedExhausted` rest on `OutcomeInv`: a worker about to report "ok" has had a
  commit, and attempts that `_finish` has read as used up still are, since attempts only grow. They
  need neither promptness nor small batches.
* `ClaimKept`, `NoDoubleRuns`, `FinishedFinal`, `OnceUnlessFaults` hold for any batch size, any stall and any number of faults. `LeaseInv` says of each
  worker that its jobs are RUNNING and nobody else's, but for the `lapsed` ones (`Exclusive`), that what `_finish` has read of them still is
  so (`Snapshot`), and that a job over which no time passed outside its handler is exactly as old as that handler (`Punctual`). Every lapsed job
  had waited. `OnceInv` adds that work done is work about to be reported, or reported.
* `RunningDated` assumes `Prompt` and retry delays of at least 1 (`worker_retry_backoff_seconds` is at least
  1), for any batch size. `DatedInv` bounds how stale a `_finish` can be: a row it read as finished and undated
  cannot be claimed before it is written, since that would take the backoff to pass.
* `RunsCounted` holds for any batch size and any speed. `PaidInv` charges every commit of a handler to a claim of its own: a worker
  that may still commit holds a claim that nobody else counts, so commits never exceed `attempts`.
* `QueueImplementsLeases` has no hypothesis either. `LeaseMeans` reads off `LeaseInv` what a lease is in the queue; then each action has a lemma that shows
  which move it is (`EnqueueSubmits`, `SweepRecovers`, `ClaimTakes`, `CommitWorks`, `FinishSettles`, `ForgettingAbandons`) or that it is a stutter.
* `ConfinedPickNothing` assumes `~BypassRLS` and proves what the run `confined` shows in one behaviour for all: no job ever leaves
  PENDING. Its invariant says that no worker gets past an empty poll.

`SubmissionsProofs`
* `Computes` lists what a request may make of the row it loaded, and `StepShape` reduces every
  step to beginning, sending, ending a request, or a step of the other services.
* `GateHolds` and `NothingSentUnapproved` rest on `GateInv`: whoever is named by a row, or by what a
  request has loaded of it, has approved that submission, and a row past the gate names somebody. A
  merged `by` comes from the row, from the approval being committed, or is nobody's (`WrittenApprover`);
  the CHECK does the rest.
* `SerialImplementsWorkflow` and `SerialRefusedByService` assume one client (`c = d` for all clients).
  `SerialInv` says that a row under work is still the row that was loaded, so what is written is what
  was computed, and `ComputesMoves` maps it to a move of the table or a stutter. `SerialTerminalIsFinal` follows from the refinement:
  in the abstract workflow no move leaves a status without edges.

`RefreshSessionsProofs`
* `OneTokenPerFamily`, `DeadFamilyStaysDead` rest on `FamilyInv`: both properties, and that an ended
  family had been started, are inductive together. In a family that is not raced, the token a rotation
  replaces was its only valid one, and an ended family has none to replace. `Covered` says of a bulk revocation between its UPDATE and
  its commit that it has taken every valid token of its families, unless they are raced.
* `OnlyOwnSessions` is an action property, from the shape of a request's scope.
* `OneTokenWhenSerial` assumes one client, and proves that then nothing ever races, so the docstring's claim holds.

`PlatformProofs`
* `SessionsConfined`: `SessionInv` says that no two sessions have one connection, that a free connection has no context, and that
  the connection of a session has the session's context unless it is about to be reapplied. A session that may run a statement
  either has its own connection or has no context and takes a clean one.
* `CallsGuarded`: `GuardInv` bounds `sends` by the attempts of the hops before and of this one (`Spent`), and says that a URL about
  to be sent to has been checked and that a call made a GET has no body.
* `NoTwoQuotasEver`: `QuotaInv`. What a window has admitted, and what is left in the bucket, were paid for by a full bucket when the
  window began and by the refill up to the bucket's last use (`QuotaOf`); over a whole window that is less than two quotas
  (`AllowanceIsShort`). A bucket evicted within a window of its last use is `shed` and promises nothing; one that is evicted later
  has admitted nothing in a window that is still open.

`KeysProofs`
* `KeysHaveOneEffect`: `LedgerInv` says that every answer still kept for a key is the one its ledger entry holds, and that what an entry, an
  answer, or a request that has found a row refers to is a resource for what that body asks (`Serves`); rows never change their aim.
* `VerifiedSecretsAreProven`, `ConfigsAreSound`: `SecretsInv`. While a write that rotates or verifies is pending, the row still has the
  secret the request loaded, and has become VERIFIED meanwhile only by hand, or else the row is raced (`WriteLoaded`); there
  is one default at most, and references are kept by the restricting foreign key.
* `CredentialsTyped` needs `StoredSecrets` besides: what is stored is a secret that a request has brought.
* `SerialVerifiedIsProven`: with one client no write finds another on its row.

`IdentityProofs`
* `PasswordsStand`: `LoginInv`: a login under way that will rehash carries the password chosen last, or its address is marked.
* `RolesHeldAreOwn`, `OwnersRemain`, `AddressedInOwnWorkspace`, `NothingStrippedSilently` rest on
  `MemberInv`. For the owners it says that while a request whose guard counted several owners is under way there still are several, unless
  the workspace is raced; for the roles, that whoever deletes one finds holders only if they came after its check.
* `SerialPasswordStands`, `SerialOwnerRemains`: for the owners by `Looked`: a request that takes an ownership away has counted the
  owners, since the row it loaded is still what it was.

`ListingsProofs`
* `SitesAreListedOnce`, `RunsCountTheirPublishers`, `PaidSitesAreNotFree` rest on `PubInv`: the domains of live publishers are canonical and differ,
  a pending run has no publishers and a finished one as many as it says, and evidence of paid placement goes with a pricing other than FREE
  unless `repriced`. The first needs besides that no host name spells two canonical domains: dropping every `www` yields a canonical domain
  (`WwwDropped`), where the name ends shows in the spelling (`SpelledRange`), so of two domains with one
  spelling the longer would begin with a `www` that had to go (`SpelledLonger`, `SpelledOnce`).
* `PublishersUndisturbed`: the composition with the campaigns implements `PublishersSpec`, so the three above carry over.
* `NothingIsOrphaned`, `DecisionsStand`, `OneDraftIsPending` rest on `ListingInv`: references of live rows are live (`RefsInv`), who
  is about to write a decided draft is recorded (`WritersInv`), and a generation that lists the drafts lists all those under
  review (`PendingInv`). `SerialDrafts`: with one client nobody is about to write what another has decided.
* `QualifyingMonotone`: by component, each improvement raises no penalty and lowers no score; the combination is monotone with the
  default weights.

`ServicesProofs`
* `EachServiceRuns`: `ServicesSpec` implements the specification of each of its eight parts, since a step of one leaves the
  variables of the others alone (`EachMovesAlone`).
* `ServicesTyped` (the run's `TypeOK`) and `PromisesHoldTogether` (the fifteen invariants and three action properties of the parts)
  follow from it and from the theorems about the parts; so does `OneAtATime`, which collects the `Serial...` theorems.

Every invariant, action property and refinement that a passing run checks is stated by a theorem. Only model-checked is
`EveryJobSettles`, which is liveness under fairness and beyond the prover; so are the violations, whose counterexamples are
TLC's.

## 5. Plan

Done: the queue, the submission gate, the sessions; workspaces and roles; publishers, qualification, discovery and
scoring; opportunities and drafts; credentials; the ledger and the limiter; the HTTP client; accounts; tenant sessions.
What is worth adding, in this order:

1. `Submissions` on top of `Opportunities` in place of `MoveOpportunity`, `Qualify` and `Reprice`, with the cascade that
   deletes a submission together with its opportunity.
2. `UnitOfWork`: one request's transaction with its audit and usage rows, and the exception that rolls them back.
3. `LinkMonitor`: the handlers that verify in a loop, on top of `Submissions` and `JobQueue`.
4. `select_tenant` and the workspace a session remembers, composed with `Workspaces`.
5. The frontend's single-flight refresh on top of `RefreshSessions`.
6. Scoring with a tenant's own weights.

Theorems still to prove: that a job which was evicted is settled consistently once only one worker has it again.

## 6. Not modelled, and why

* Cryptography: envelope encryption, the password hash, JWT. No state machine to check; secrets and hashes are opaque.
* AI, search and metrics clients, form submission: the requests they build are I/O. What they may answer is in the models.
* The accounting of AI calls and audit: append-only rows that no operation reads.
* Users, organizations and descriptive columns: single-row updates with nothing across steps.
* Validation, serialisation, pagination, configuration, logging, health checks and the service factory: wiring.
* The frontend's views.

`PROJECT.json` lists each component with its status.
