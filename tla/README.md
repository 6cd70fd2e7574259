# Specifications of the scheduler and its publishing pipeline

TLA+ models of this repository, a Go service that schedules social-media posts:
an HTTP API keeps users, services, accounts and posts in Postgres; a scheduler
process turns posts that are due into jobs on a Redis list; worker processes pop
the jobs, publish to the providers and record what became of each account. Any
number of schedulers and workers may run against the same two stores, and nobody
coordinates them but row locks and the Redis list.

What the project establishes, in brief:

* With nobody editing posts, a finished post always has the status its rows
  call for and every row's job is in one place at most, whatever fails (dropped
  connections, crashes, lost pushes, a Redis restart). With a single worker the
  status is also right, and in time, when jobs are duplicated or commits in
  doubt. Model-checked and proved for every number of posts, accounts and
  processes.
* With clients editing at the same time, even if they re-arm running posts and
  delete their accounts, only publications that happened are recorded, a
  withdrawn post is never started, and, as long as no process or store fails, no
  row of a running post is left without its job. Clients that leave claimed posts
  and the accounts of posts alone lose none of the guarantees above.
  Model-checked and proved.
* However requests to the API overlap, an authorization at Facebook is redeemed
  once, an import of pages is all or nothing, a session or token that is dead
  stays out, and no configuration that breaks its rules is ever active.
  Model-checked and proved.
* Five places where the code does not do what the repository says of it, each
  with a counterexample (see *Findings*), and a list of behaviours that surprise
  but break no promise (see *Known behaviour*).

## 1. Inventory

| component | source | state it keeps | operations | talks to |
|---|---|---|---|---|
| scheduler | `cmd/scheduler/main.go` | the rows of the current scan and the account ids still to push (local variables) | tick, scan, claim transaction, LPUSH per account | Postgres, Redis |
| worker | `cmd/worker/main.go`, `providers/*` | the popped job, its error, one open transaction | BRPOP, publish transaction, retry, mark, finalize | Postgres, Redis, providers |
| store and queue | `migrations/*.sql`, `jobs/publish/job.go`, `platform/queue`, `platform/db` | the tables; the list `queue:publish-post` | LPUSH, BRPOP, transactions | everyone |
| provider connectors | `internal/providers/manager.go`, `facebook_page.go`, `stub_connectors.go` | none | Publish | Graph API |
| posts API | `httpserver/posts_handlers.go` | none of its own; posts, post_accounts, post_versions | create, update, delete, list, get | Postgres |
| accounts API | `httpserver/accounts_handlers.go` | accounts | create, update, delete, list | Postgres |
| services API and rules | `httpserver/services_handlers.go`, `providers/service_rules.go` | services | create, update, delete, list; validate a configuration; bind a provider to a service | Postgres |
| account import | `httpserver/facebook_handlers.go`, `providers/facebook_graph.go` | oauth_states, accounts | start, callback, import pages | Postgres, Graph API |
| sessions and tokens | `httpserver/auth_handlers.go`, `server.go` | users, user_sessions, api_tokens | register, login, logout, me, tokens, the two middlewares | Postgres |
| start-up, configuration, logging | `cmd/api`, `platform/config`, `platform/logging`, `runtime` | none | straight-line code | environment |

What is hard about each, and what makes it correct:

* **Scheduler.** The scan is a snapshot; the claim comes later and may meet
  another scheduler or an edit. The claim is committed before the jobs are
  pushed, so a push that fails, or a crash, leaves a post running that the scan
  never looks at again. Correct: one scheduler wins, only posts that are still
  due start, each row of a running post has exactly one job.
* **Worker.** The provider is called inside a database transaction, and the two
  cannot be atomic. BRPOP takes the job off the list for good. Two workers count
  the rows of the same post under READ COMMITTED. Correct: a row's outcome is
  what happened, the final status follows from the rows, attempts are bounded,
  a post whose rows are settled is finalized.
* **Store and queue.** Postgres promises READ COMMITTED and row locks; the
  Redis of `docker-compose.yml` keeps nothing across a restart, and the client
  may send an LPUSH twice.
* **Posts and accounts API.** They delete and insert the rows workers are
  writing, with the opposite lock order. Correct: no outcome nobody was sent, no
  running post with a row that has no job, no post started that was withdrawn, no
  post published with nothing sent.
* **Account import.** The callback is open to anybody and trusts its state alone;
  Facebook is asked several times between the consumption of the state and the
  import, each time with a chance to fail; imports of the same pages lock each
  other's rows in any order. Correct: a state leads to one import at most, an
  import is all or nothing, every request is answered.
* **Sessions and tokens.** Looked up once, while other requests log out, delete
  and issue credentials; a time to live that is a product and may wrap around.
  Correct: what was dead when a request arrived does not admit it, an admitted
  request acts for the owner, no token outlives the days it was asked for.
* **Services.** Validated by one statement's request, renamed by another, loaded
  and validated again by the import. Correct: one active configuration a name,
  and a valid one.

`PROJECT.json` has the full lists: each component with its status, and under
`hazards` each of these dangers with the line where it bites.

## 2. The modules

```
Store                            tables, queue, failures of the environment
  Scheduler   extends Store      one action per step of a scheduler process
  Worker      extends Store      one action per step of a worker process
    PublishPipeline              composes Scheduler and Worker,
                                 refines PublishContract
    ManagementApi                extends Worker: the handlers that write
      PublishSystem              composes PublishPipeline and ManagementApi
        AccountTokens            adds the tokens workers publish with

ApiAccess                        users, sessions, API tokens, the look-up
  ServiceRegistry                rows of services and their rules
    AccountImport                the OAuth flow and the import of pages,
                                 refines ImportContract
```

The two towers meet at the accounts an import writes. `AccountImport` follows a
request from the look-up of its credential to the COMMIT of the import;
`ManagementApi` has that COMMIT as one action (`ImportPages`), which is what the
pipeline sees of it, and `ImplementsImportContract` is the licence for it: seen
from outside, the pages of an import change in one step or not at all.

| module | what it is |
|---|---|
| `Store` | the committed rows (`posts`, `attached`, `posted`, `errored`, `versions`, `authorized`, `services`), the `queue`, the history `sent`, the verdict of `finalizePostIfDoneTx`, Redis restart and the passing of time |
| `Scheduler` | `scanAndEnqueueDuePosts` and `enqueuePost`: `Scan`, `SkipClaim`, `Claim`, `Push` and how each fails |
| `Worker` | `workerLoop`, `processPublishJob`, `markAccountJobError`: a program counter per worker, one action per statement that matters, and how each fails |
| `PublishPipeline` | schedulers and workers together; the safety and liveness properties, the inductive invariant `Inv`, the refinement mapping |
| `PublishContract` | the abstract specification: a post waits, runs, settles each account once, ends by what became of all of them |
| `ManagementApi` | the handlers that write the same tables: posts, accounts and services, and the last transaction of an import |
| `PublishSystem` | the pipeline under concurrent requests; `SystemInv` and the properties about edits |
| `AccountTokens` | the token a worker has read for its job against the one the account has by now |
| `ApiAccess` | registration, login, logout, API tokens; a request as a process that is looked up first and served later |
| `ServiceRegistry` | creating, renaming, switching and deleting services under the rules of `service_rules.go` |
| `AccountImport` | `facebook_handlers.go` and `facebook_graph.go` step by step: state, consumption, exchanges, paged list, transaction |
| `ImportContract` | the abstract specification: a list of pages becomes accounts at once, or comes to nothing |
| `MCPublishPipeline`, `MCPublishSystem`, `MCAccountTokens`, `MCAccountImport` | small instances for TLC |
| `PublishPipelineProofs` | type correctness |
| `PublishPipelineSafety` | `Inv` is inductive; final statuses, one job per row, the refinement |
| `PublishPipelineDelivery` | how often a row is published; rests on `PublishPipelineSafety` |
| `PublishPipelineJobs` | where the jobs of running posts are; what a single worker guarantees under every failure |
| `PublishSystemProofs` | type correctness, `SystemInv` is inductive; honesty, withdrawn posts |
| `PublishSystemClients` | which guarantees of the pipeline survive which clients; extends the four modules above |
| `AccountTokensProofs` | `TokenInv` is inductive; accounts lose their flag for cause |
| `AccountImportProofs` | `ImportInv` is inductive; redemption, credentials, tokens, services, the refinement |

### State and code

| variable | in the code |
|---|---|
| `posts[p]` | `row`: absent, live, or deleted (`deleted_at`); `status`, `sched` = `schedule_status`; `at` = `scheduled_at` compared with `NOW()`: null, future, due |
| `attached[p]` | the accounts with a row in `post_accounts` |
| `posted[p]`, `errored[p]` | those with `provider_post_id IS NOT NULL`, with `errors IS NOT NULL` |
| `versions[p]` | the rows of `post_versions`: the first of each account (`own`) and the first with `is_original`; `none`, `blank` (no body in its content) or `body` |
| `authorized` | `accounts.authorized` |
| `services[s]` | no row, `active = FALSE`, `active = TRUE` |
| `queue` | the Redis list, in the order BRPOP takes it |
| `sent[p][a]` | history: how often the provider accepted the post (no code reads it) |
| `todo[s]`, `left[s]` | the scheduler's rows not yet handled; the pairs it has claimed and not pushed |
| `pc`, `job`, `err`, `tx` | where a worker is, what it popped, the class of its error, what its open transaction has written |
| `accounts[a]`, `token[a]` | whether the row of `accounts` exists (ids are never reused); which `access_token` it has |
| `checked` | accounts with a request between `ensureProviderServiceReady` and its write |
| `held[w]`, `refused` | the token a worker has read for its job; history: the tokens workers found bad |
| `users`, `credential[c]`, `owner[c]` | rows of `users`; a row of `user_sessions` or `api_tokens` (not there yet, live, past `expires_at`, deleted) and its `user_id` |
| `granted[t]` | history: the days asked for an API token and the time to live computed from them |
| `request[r]` | a goroutine of the server: the step its handler is at, the credential it brought, the user it acts for |
| `arrivals` | how many requests have come; their numbers tell imports apart |
| `row[i]` | a row of `services`: name, configuration, active |
| `state[s]`, `redeemed[s]` | a row of `oauth_states` (open, past `expires_at`, `consumed_at` set); history: how many callbacks went on with it |
| `account[g]` | whether page `g` is linked, and by which import's token |
| `work[r]` | what an import has in hand: its state, the pages listed and not written, answers of Facebook so far, pages written but not committed |

A variable holds committed data. A transaction that only one process can see
inside is one step when nobody could tell the difference (the claim holds the
lock of its row; a request replaces rows under the post's lock) and several
when somebody can: a worker's uncommitted writes sit in `tx[w]`, so the count
of `finalizePostIfDoneTx` sees its own row and the committed rows of others, and
never another worker's uncommitted one.

Row locks appear as guards: `RowLocked` for the row of `post_accounts` a worker
has written, `AccountLocked` for an account it is deauthorizing. The lock a
worker takes on `posts` when it finalizes needs none: its UPDATE and its COMMIT
are one step, and a worker with the first done and not the second looks, to
everyone else, like one with neither done. The deadlock between an update of
the post (posts, then post_accounts) and a worker (post_accounts, then posts) is
an action of its own for each of its two outcomes, `UpdatePostDeadlock` for an
aborted worker, a request that fails and changes nothing for the other.

### Failures

`Faults` chooses what the environment may do, so that each run, and each
assumption of a theorem, says exactly which failures it is about.

| kind | in the code |
|---|---|
| `db` | a statement or COMMIT fails and everything is rolled back: every `return err` of the scan, the claim, the publish transaction and the mark |
| `unknown` | COMMIT is applied, the answer is lost, the process acts as if it had failed |
| `push` | LPUSH reports an error; the job may be on the list or not |
| `dup` | the Redis client re-sends an LPUSH whose reply timed out |
| `crash` | a scheduler or worker stops, also by SIGTERM, whose cancelled context fails what is under way |
| `redis` | Redis restarts with an empty list |

Refusals and failures of providers need no fault kind: every `Publish` may be
accepted, refused for the token, fail for good or for now, and a failing call
may have been accepted by the provider nevertheless.

### What is abstracted

* `scheduled_at` keeps only its relation to `NOW()`; the scan's ORDER BY becomes
  any choice of `ScanLimit` due posts in any order, which includes the code's.
* The content of posts, tokens and errors: a version is missing, blank or has a
  body, a token is the number of the request that stored it, an error is of one
  of the three classes the worker tells apart.
* A service's configuration keeps what rules and handlers ask of it: both keys
  there, the version absent, well formed or not, a redirect address or not.
* Facebook's answers are nondeterministic: any page in any answer, with or
  without a next one, an error or none at all.
* A random state, session or token is a value never drawn before. Passwords and
  the hashing of credentials are not modelled: a login that succeeds is an action.
* The provider of an account, hence the service it is bound to, does not change
  (`ServiceOf`), though `PUT /accounts` could change it.
* Clients send status draft or scheduled with `schedule_status` pending. The
  handlers accept any number; with others a client can simply write any status,
  and nothing can be said of it.
* The UPDATE of a row and the count after it are one step (`RecordResult`,
  `Mark`): from the UPDATE on the row is locked, so what others can do between
  the two they could have done before.
* In `ManagementApi` requests that are refused or fail change nothing and have no
  action; in `ApiAccess`, where a request is a process, `Refuse` and `Fail` end it.
* `last_seen_at`, `last_used_at` and the bookkeeping columns nobody decides by
  are left out.

## 3. What is checked

All runs explore their state space to the end. `Inv`, `SystemInv`, `ImportInv`:
the inductive invariants of the proofs, checked here as invariants too.

Properties:

| property | says |
|---|---|
| `FinalStatusCorrect` | a post is published only if it has rows, all posted, none with errors; failed only if all are settled and one has errors (or there is none); it has a final status exactly when `schedule_status` is complete |
| `OneJobPerAccount` | a row's job is in one place at most (queue, worker, scheduler) and nowhere once the row is settled |
| `DeliveryBounded` | a row that says posted was accepted; a row is published at most once per attempt |
| `ImplementsContract` | the pipeline refines `PublishContract`: outcomes are set once, phases follow |
| `SettledIsFinal` | no running post has all its rows settled |
| `RunningHasJobs` | every unsettled row of a running post has a job somewhere |
| `EventuallySettled` | every account of a due post gets an outcome |
| `EventuallyFinalOrWithdrawn` | a due post ends published or failed unless a client deletes, drafts or postpones it |
| `PostedWasSent` | a row says posted only if the provider accepted that post for that account |
| `WithdrawnNeverStarts` | a post deleted or drafted since the scan is not started |
| `PublishedMeansPosted` | a post becomes published only with at least one row, all posted: refuted for clients that unlink accounts (`system_published_empty`), proved for the others |
| `RefusedOnlyWithoutText` | a publication is refused for want of a text only if the committed versions have none for the account |
| `DeauthorizedForCause` | an account loses its authorization only through a worker that found the token of its job bad |
| `EventuallyDeauthorized` | a refused token does not stay in use: the account gets another or loses its authorization |
| `OneRedemption` | of all callbacks with the same state at most one imports, and it has consumed the state |
| `DeadStaysOut` | a credential that was dead when a request arrived never admits it; an admitted request acts for the owner |
| `NeverOutlives` | a token lives no longer than the days asked for, even when the product wraps around |
| `LoadedIsValid` | the active configuration of a name is unique and valid, through any renaming |
| `ImplementsImportContract` | imports refine `ImportContract`: all pages of a list or none |
| `EveryRequestEnds` | every request is answered, also when Facebook names next answers for ever and imports wait for each other |
| `OnlyDueStart`, `NeverDoublePost` | what the documentation says and the code does not do |

Runs that pass:

| run | instance | shows |
|---|---|---|
| `pipeline_losses` | 1 post, 2 accounts, 2 schedulers, 2 workers; faults db, push, crash, redis | final statuses, one job per row, at most three publications, refinement |
| `pipeline_in_doubt` | 1 post, 2 accounts, 1 scheduler, 1 worker; faults db, unknown, dup | statuses follow the rows even when a row is recorded and then marked; with one worker no settled post stays running |
| `pipeline_two_workers_live` | 1 post, 2 accounts, 2 schedulers, 2 workers, no faults, fair | every account gets its outcome; no row is ever without its job |
| `system_records` | 1 post, 1 account, 1 scheduler, 2 workers; updates, re-arming, deletion, account changes, aborted workers; no faults but those of providers; 2 edits | no row of a running post without its job however rounds of a post overlap; what is recorded as posted was sent |
| `system_polite` | 1 post, 2 accounts, 2 schedulers, 1 worker; clients that do not re-arm or unlink, imports, switched services, original, own and blank versions; faults db, crash; 2 edits | the pipeline's guarantees survive edits between scan and claim, re-authorization and imports during a publication; the worker ends the post with its last row |
| `system_live` | 2 posts, 1 account, 1 scheduler, scan limit 1, 1 worker; the same clients, tokens in sight, fair; 1 edit | both posts end final unless withdrawn; a refused token costs the account its authorization, and nothing else does |
| `import_system` | 1 user, 1 session, 1 token, 3 requests, 2 at a time, 2 services, 2 configurations, 1 state, 2 pages, 2 answers; fault db; fair | one redemption, dead credentials stay out, all or nothing, every request answered |

Runs that end in a counterexample: `pipeline_settle_race`, `pipeline_double_post`,
`pipeline_stranded`, `system_early_start`, `system_published_empty`; see *Findings*.

For each property of a passing run `PROJECT.json` names a mutant: a definition
of the model and a form of it with a plausible bug (a dropped guard, an error
not looked at, a row not cleared), with which TLC finds the property violated.
The mutated forms stand beside the originals, commented `Mutant of`.

### Bounds, and why they are enough

* One post: posts share no row; they interact only through the scan limit and
  the order of the queue, which `system_live` covers with two posts and
  `ScanLimit = 1`.
* Two accounts: enough for a post to be partly settled, for one success and one
  error, and for two workers to finish a post together.
* Two schedulers and two workers: enough for every race on a claim, a count and
  a row; the third of a kind can only do what one of the two does. The proofs
  have no such bound.
* Attempts: `MaxAttempts = 3` is the code's own limit.
* `MaxEdits` bounds the requests that change something: two are enough to edit
  between scan and claim and again while a job is under way.
* `MaxQueue` and `MaxSent` (only the constraint of `pipeline_in_doubt`, where
  duplicated pushes would grow the queue for ever) stop at three queued jobs and
  three publications per row: the original job, its duplicate, and a retry.
* `Lossless` starts with accounts, services and texts in order, where a run
  asks about something else than refusals; otherwise these vary initially.
* `MaxRequests` bounds the requests of `import_system` to three, two at a time:
  enough for two callbacks or two imports to overlap after one that started,
  configured, logged out or unlinked. So that three reach far, some behaviours
  begin with a session, or with a token, a configured service and perhaps an
  open state (`SetUp`); the proofs start from the empty database.
* Two rows of services under three names, and two configurations, one that every
  rule lets in and one without keys and with a bad version that only a service
  other than Facebook, switched off, may have: enough to collide on a name and to
  rename or switch on what the rules would refuse.
* `PageCap` is 2, for the code's 20 answers, and `HalfRange` and `Day` make a
  signed duration so narrow that 4 days wrap around, as 106752 do in the code.
* One user and one credential of a kind: users share nothing but the random
  values, and a second credential can do what the first does. Two pages can be
  locked in opposite order.
* Symmetry of schedulers and of workers, which are interchangeable; never in a
  run with a liveness property.

### Fairness

`Fairness` (`PublishPipeline`) and `TokenFairness` (`AccountTokens`) are weak
fairness of each process's own steps, failures excepted: the scheduler's ticker
fires every minute for ever, and a worker's loop waits for nothing but the queue
and row locks that are released by steps of other workers. No request ever has to
happen, no `ComesDue` has to, and no outcome of a provider is favoured: a failing
provider is bounded by the three attempts.

`Fairness` of `AccountImport` is weak fairness of the steps of each request:
a goroutine runs on, and every statement and every call of Facebook returns, if
only because the deadline of the request has passed (`Fail`, `Refuse`). No step
is favoured over failing, and no request ever has to arrive or be admitted.

Deadlock is checked in every run but `import_system`: a scheduler can always
scan, while a server that has answered its last request (`MaxRequests`) rests.

## 4. What is proved

TLAPS checks the following for every value of the constants that meets the
assumptions in the modules.

| module | theorem | says | assumes |
|---|---|---|---|
| `PublishPipelineProofs` | `TypeCorrect` | `Spec => []TypeOK` | nothing about failures |
| `PublishPipelineSafety` | `InvInvariant` | `Spec => []Inv` | `NoDuplicates`: faults without `dup` and `unknown` |
| | `FinalStatus`, `OneJob` | `FinalStatusCorrect`, `OneJobPerAccount` | the same |
| | `Refinement` | `Spec => ImplementsContract` | the same |
| `PublishPipelineDelivery` | `Delivery` | `DeliveryBounded` | the same |
| `PublishPipelineJobs` | `SoleWorkerFinal`, `SoleWorkerSettles` | `FinalStatusCorrect`, `SettledIsFinal` | `OneWorker`: `Workers` has at most one element; nothing about failures |
| | `NeverStranded` | `RunningHasJobs` | `NoLosses`: no fault but `dup` |
| `PublishSystemProofs` | `SystemTypes` | `SystemSpec => []SystemTypeOK` | nothing about failures or requests |
| | `SystemInvariant` | `SystemSpec => []SystemInv` | the same |
| | `Honest` | `PostedWasSent` | the same |
| | `Withdrawn` | `SystemSpec => WithdrawnNeverStarts` | the same |
| `PublishSystemClients` | `ClientInvariant` | `SystemSpec => []ClientInv` | `NoRearm`: no update of a claimed post |
| | `SystemInvInvariant` | `SystemSpec => [](Inv /\ SentRight)` | `NoDuplicates`, `NoRearm`, `NoUnlink`: no account is deleted |
| | `SystemOneJob`, `SystemDelivery` | `OneJobPerAccount`, `DeliveryBounded` | the same |
| | `SettleInvInvariant`, `SystemSoleWorker` | `[]SettleInv`, `SettledIsFinal` | `OneWorker`, `NoRearm`, `NoUnlink` |
| | `SystemFinalStatus`, `SystemPublished` | `FinalStatusCorrect`, `PublishedMeansPosted` | `NoDuplicates` or `OneWorker`, `NoRearm`, `NoUnlink` |
| | `SystemNeverStranded` | `RunningHasJobs` | `NoLosses`; nothing about requests |
| | `SystemRefusals` | `SystemSpec => RefusedOnlyWithoutText` | `NoRearm` |
| `AccountTokensProofs` | `TokenInvariant` | `TokenSpec => []TokenInv` | nothing about failures or requests |
| | `Deauthorized` | `TokenSpec => DeauthorizedForCause` | the same |
| `AccountImportProofs` | `ImportInvariant` | `Spec => []ImportInv` | nothing about failures or requests |
| | `Redemption`, `DeadCredentials` | `OneRedemption`, `DeadStaysOut` | the same |
| | `ShortLives`, `LoadedService` | `NeverOutlives`, `LoadedIsValid` | the same |
| | `ImportRefinement` | `Spec => ImplementsImportContract` | the same |

**The argument for the pipeline.** `FinalStatusCorrect` is not inductive: that a
worker's commit gives the post the right status depends on what it counted a
step earlier. `Inv` adds what the count relies on. `WorkerShape`: a worker holds
a job from BRPOP to the end of the loop and has written something exactly when
it is about to commit. `JobsApart`: two holders never have the same pair.
`JobsOpen`: the holder of a job owns an unsettled row of a running post.
`RowsRight`: outcomes belong to rows, one per row, none before the claim.
`VerdictsRight`: if a worker has a verdict, the other rows are settled, and
agree with it. The last holds although another worker may commit between count
and commit, because that worker's row is unsettled until it commits, so a worker
that saw it unsettled has no verdict, and one that saw it settled saw the last
of it. It is also why two concurrent finishers yield no wrong status, but may
yield none (first finding). `dup` and `unknown` break `JobsApart` and `JobsOpen`,
hence the assumption.

**The argument for deliveries.** That a row is published at most three times
follows from nothing in the row: the counter travels in the job. `SentRight` says
where the count is at any moment: wherever the row's only job is (queue, worker,
scheduler), its attempt number bounds what was sent, and a row without a job was
sent at most `MaxAttempts` times. That there is only one job is `OneJob`.

**The argument for a single worker.** Under `dup` and `unknown` several jobs of a
row may exist, and a job may come to a row, even to a post, that is finished. What
is left is `SettleInv`. `VerdictsExact`: the verdict a worker is about to commit is
the one the rows call for after its commit; with one worker nobody changes them
between count and commit. `JobsAttached`, `OutcomesAttached`: jobs and outcomes
belong to rows that exist. A second run of a job then counts the same rows again,
and overwrites the status with what they call for by now. With two workers
`VerdictsExact` fails, as the first finding shows. The proof follows `Carried`,
the set of pairs somebody has the job of, through every step: a claim adds the
rows of the post it starts, BRPOP moves a pair from queue to worker, a retry moves
it back, and nothing else adds one.

**The argument for stranded posts.** `NeverStranded` is the converse: no step may
lose the job of a row while the row is open. `OpenKept` follows `Kept`, the pairs
of `Carried` without those whose only holder is a worker about to commit a mark
that found no row (`SettlingPairs`): its commit settles nothing, whatever a client
has attached meanwhile. A worker parts with any other job only with a retry
pushed, with an outcome committed, or where there is no row (`WorkerKeeps`). Each
fault but `dup` can remove a pair otherwise; run `pipeline_stranded` shows one
that does.

`SystemNeverStranded` needs nothing of the clients. An update turns its post back
to pending, so none of its rows is open until a claim gives each a new job, and
the workers it aborts or makes miss their row held jobs of that post
(`WrittenCarries`). Every other request at most takes rows away.

**The argument for clients.** Every request is one of two things to a post, and
`RequestStep` shows it handler by handler. A post that was not claimed has no jobs
and no outcomes (`LifeInv`), so it may be rewritten at will. A claimed post is not
touched but for the rows of a deleted account (`Request(gone)`), as long as nobody
updates it: the create handler meets an absent post, which was never claimed
(`AbsentWaits`), the delete handler only sets `deleted_at`. With `NoUnlink`, `gone`
is empty and each invariant of the pipeline is kept as it stands. `SystemRefusals`
rests on the same split: the two SELECTs of `fetchPublishTextTx` are of a claimed
post, whose versions do not change. That `NoRearm` and `NoUnlink` are needed is no
artefact: see *Known behaviour* and run `system_published_empty`.

**The argument for the system.** With clients, jobs of an earlier round may be
under way while a post runs again, so nothing about unique jobs is inductive.
What remains is carried by row locks and foreign keys. `RecordsExist`: outcomes,
rows and authorizations are about rows that exist, which the schema guarantees and
the other parts use. `WritesExist`: a worker about to commit a
row still has that row, because requests that delete rows wait for its lock or
abort it. `WritesSent`: from a successful call to its commit, `sent` counts it.
`AbsentIsBare`: a post not yet created has no rows.

**The argument for tokens.** `RefusalsKnown`: a worker that has an unauthorized
error to report holds the token it found bad, from the answer to the commit of the
mark. `TokensStored`: tokens are numbered as they are stored, so a request that
clears the flag also changes the token, and only a mark clears it otherwise.

**The argument for imports.** `OneRedemption` needs to know who may still redeem
a state: `TicketsHold` says that a callback past its SELECT FOR UPDATE is the only
one that holds the row and that the state is not consumed before it is done, and
that no state is redeemed but a consumed one. `DeadStaysOut` needs `CredentialsHold`: a
credential dead on arrival is still dead at the look-up, since no credential is
issued twice. `RowsValid` carries the rules from every INSERT and UPDATE of
`services` to the loading; `Numbered` gives the refinement a number for each
import. In the refinement an import becomes an offer when its list is complete, its
COMMIT takes the offer, and every failure drops it: the writes between are
invisible, which is the all or nothing. `NeverOutlives` is arithmetic: wrapping
around never makes a positive product longer.

**Only model-checked.** Liveness, which needs fairness and `ENABLED` and is out of
the prover's reach: `EventuallySettled`, `EventuallyFinalOrWithdrawn`,
`EventuallyDeauthorized`, `EveryRequestEnds`. Every invariant and every action
property that a passing run checks is proved, under the assumptions above, which
the runs meet. One run goes beyond the theorems: `import_system` also starts from
the states of `SetUp`, where the theorems start from the empty database. These
states satisfy `ImportInv` and `NeverOutlives` (the run checks both), and that is
all the proofs of its safety properties use of a start; the refinement is proved
from `Init` alone.

## 5. Findings

1. **Two finishers, no finalizer** (`pipeline_settle_race`, `worker/main.go:231`).
   Two workers record the last two accounts of a post at the same time. Neither
   count sees the other's uncommitted row, both commit, and the post keeps
   `schedule_status = 1` with every row settled. A lock on the post before the
   count would order them.
2. **Published twice** (`pipeline_double_post`, `worker/main.go:96`). A call that
   the provider accepted but that failed for the worker is retried.
   The plan promises "never double-post from retries".
3. **Stranded posts** (`pipeline_stranded`, `scheduler/main.go:223`). The claim is
   committed, an LPUSH fails, and the rest of the jobs are never pushed; a crash
   or a Redis restart has the same effect.
4. **Too early** (`system_early_start`, `scheduler/main.go:154`). A post postponed
   between scan and claim starts before its new time.
5. **Published with nothing sent** (`system_published_empty`, `worker/main.go:211`).
   If the only account is deleted while its publication fails, the mark changes
   no row, the count finds nothing pending and nothing failed, and the post
   becomes published.

### Known behaviour

What follows is in the models and may surprise, but no document, comment or test
promises otherwise, so no run claims it.

* If the account of a post's last pending row is deleted, the worker drops the
  job (`worker/main.go:131`) and the post stays running: `SettledIsFinal` holds
  only for clients that do not unlink accounts of running posts.
* An update of a running post between the two SELECTs of `fetchPublishTextTx`
  (`worker/main.go:399`) can make a worker refuse a post that has a text before
  and after: `RefusedOnlyWithoutText` holds for clients that edit posts only
  before they run.
* A worker takes the authorization on the word of the token it read, though the
  account may have a new one by then (`worker/main.go:201`). The property
  `DeauthorizedForCause` is about the token read, not the present one.
* A deleted post that is already running is published (`worker/main.go:298`), and
  the finalizer overwrites the status a client has set since (`:256`).
* An account is written after a check of its service that may no longer be true
  (`accounts_handlers.go:102`).
* The list of pages is cut off without a word after 20 answers
  (`facebook_graph.go:182`). Accounts of pages not listed stay as they are.
* A state is consumed before the code is exchanged: a failing exchange, or a
  COMMIT in doubt, costs the user a new authorization (`facebook_handlers.go:462`).
* Logout ignores a failing DELETE and answers 204 (`auth_handlers.go:154`).
* Registration that fails at the session leaves a user who must log in (`:88`).
* A large `expires_in_days` wraps around to a token that dies early or is born
  expired (`:198`). `NeverOutlives` says it never lives too long.
* A request once admitted goes on though its credential dies meanwhile
  (`server.go:178`).

## 6. Not modelled, and why

* Handlers that only read: list and get of posts, accounts, services and tokens,
  `me`, health. They change nothing and promise no more than a SELECT does.
* The provider and provider id of an account, which `PUT /accounts` could change;
  columns nobody decides by.
* The requests to and answers from the Graph API and the stub connectors' texts:
  pure formatting and parsing. What follows from them, accepted, refused, failed,
  a page or a next answer, is modelled.
* That `oauth_states` keeps a `user_id`: the callback reads it and does nothing with it, so it
  decides nothing; accounts belong to the installation, not to a user.
* Start-up, configuration parsing, logging and HTTP plumbing
  keep no protocol state.
* Tags, media, the import log and the other tables of `0001_init.up.sql` have no
  code.

## 7. Running it

Model-check with TLC, for instance `MCPublishPipeline.tla` with
`MCPipelineLosses.cfg`; each run takes a minute or two at most. The proofs:
`tlapm` on `PublishPipelineProofs.tla`, `PublishPipelineSafety.tla`,
`PublishPipelineDelivery.tla`, `PublishPipelineJobs.tla`,
`PublishSystemProofs.tla`, `PublishSystemClients.tla`,
`AccountTokensProofs.tla` and `AccountImportProofs.tla`.

## 8. Plan

1. *(done)* `Store`, `Scheduler`, `Worker`, `PublishPipeline`, `PublishContract`
   and their proofs: the publishing pipeline is the reason the system exists.
2. *(done)* `ManagementApi`, `PublishSystem` and their proofs: requests on the rows
   the pipeline is working on.
3. *(done)* `AccountImport` and `ImportContract` with their proofs.
4. *(done)* `ApiAccess`: sessions, API tokens and the look-up.
5. *(done)* `ServiceRegistry`: services under their rules.
6. *(done)* The two reads of `fetchPublishTextTx` as two steps; `AccountTokens`.
7. *(done)* Proofs of `DeliveryBounded`, `SystemTypeOK`, one-time redemption.
8. *(done)* Proofs for a single worker, for running posts and their jobs, for
   polite clients and for the tokens workers publish with.
9. Left: the system with polite clients as a refinement of a contract in which a
   waiting post may change its accounts; `extractBody` as an operator against a
   reference definition.
