------------------------------- MODULE Store -------------------------------
(***************************************************************************)
(* The state the processes share: the Postgres tables posts,               *)
(* post_accounts, post_versions, accounts and services, and the Redis list *)
(* of publish jobs.  A variable holds committed rows only; what an open    *)
(* transaction has written is kept by its owner until it commits (READ     *)
(* COMMITTED, the default of pgx.TxOptions{}).                             *)
(***************************************************************************)
EXTENDS Integers, Sequences, FiniteSets

CONSTANTS
  Posts,       \* ids of rows of posts
  Accounts,    \* ids of rows of accounts
  Services,    \* names of rows of services
  ServiceOf,   \* ServiceOf[a]: the service bound to the provider of account a
  NoService,   \* the value of ServiceOf[a] for a provider without a binding
  Required,    \* the services whose binding is Required
  Faults       \* the kinds of failure the environment may inject

(***************************************************************************)
(* "db": a statement or transaction fails and is rolled back (connection   *)
(* lost, context deadline).  "unknown": COMMIT is applied but the client   *)
(* sees an error.  "push": LPUSH is reported as failed.  "dup": the Redis  *)
(* client re-sends an LPUSH whose reply timed out.  "crash": a scheduler   *)
(* or worker process stops.  "redis": the Redis server restarts; it runs   *)
(* without persistence, so its list is gone.                               *)
(***************************************************************************)
FaultKinds == {"db", "unknown", "push", "dup", "crash", "redis"}

ASSUME StoreAssumption ==
  /\ NoService \notin Services
  /\ ServiceOf \in [Accounts -> Services \cup {NoService}]
  /\ Required \subseteq Services
  /\ Faults \subseteq FaultKinds

\* posts.status
StatusDraft     == 0
StatusScheduled == 1
StatusPublished == 2
StatusFailed    == 3

\* posts.schedule_status
SchedulePending  == 0
ScheduleRunning  == 1
ScheduleComplete == 2

MaxAttempts == 3

(***************************************************************************)
(* A row of posts: whether it exists and is not soft-deleted (row), its    *)
(* two status columns, and scheduled_at reduced to what the scheduler      *)
(* compares: NULL, after NOW(), or not after NOW().                        *)
(***************************************************************************)
PostRow == [row: {"absent", "live", "deleted"},
            status: 0..3,
            sched: 0..2,
            at: {"null", "future", "due"}]

(***************************************************************************)
(* The rows of post_versions of a post: for each account its first row     *)
(* (own), and the first is_original row of the post; a row may be missing, *)
(* or its content have no body.                                            *)
(***************************************************************************)
Content == {"none", "blank", "body"}
Versions == [own: [Accounts -> Content], original: Content]

\* A publish job as it travels through Redis.
Jobs == [post: Posts, account: Accounts, attempt: 1..MaxAttempts]

VARIABLES
  posts,       \* posts[p]: the row of posts with id p
  attached,    \* attached[p]: accounts with a row in post_accounts for p
  posted,      \* posted[p]: those whose provider_post_id IS NOT NULL
  errored,     \* errored[p]: those whose errors IS NOT NULL
  versions,    \* versions[p]: what the rows of post_versions of p offer
  authorized,  \* accounts with authorized = TRUE
  services,    \* services[s]: "missing", "inactive" or "active"
  queue,       \* the list queue:publish-post, next job to pop first
  sent         \* sent[p][a]: how often the provider accepted p for a (history)

rowVars   == <<attached, posted, errored>>
storeVars == <<posts, rowVars, versions, authorized, services, queue, sent>>

StoreTypeOK ==
  /\ posts \in [Posts -> PostRow]
  /\ attached \in [Posts -> SUBSET Accounts]
  /\ posted \in [Posts -> SUBSET Accounts]
  /\ errored \in [Posts -> SUBSET Accounts]
  /\ versions \in [Posts -> Versions]
  /\ authorized \in SUBSET Accounts
  /\ services \in [Services -> {"missing", "inactive", "active"}]
  /\ queue \in Seq(Jobs)
  /\ sent \in [Posts -> [Accounts -> Nat]]

\* Mutant of Verdict: one error fails the post before the others are settled.
VerdictEager(rows, ok, bad) ==
  IF rows \cap bad # {} THEN "failed"
  ELSE IF rows \subseteq ok THEN "published"
  ELSE "none"

(***************************************************************************)
(* What the count of finalizePostIfDoneTx decides for a post whose         *)
(* post_accounts rows are the accounts rows, ok of them with a             *)
(* provider_post_id and bad of them with errors: nothing while a row has   *)
(* neither, else failed if any row has errors, else published.             *)
(***************************************************************************)
Verdict(rows, ok, bad) ==
  IF rows \ (ok \cup bad) # {} THEN "none"
  ELSE IF rows \cap bad # {} THEN "failed"
  ELSE "published"

\* The UPDATE posts of finalizePostIfDoneTx: unconditional on the old row.
Finalized(post, v) ==
  CASE v = "none"      -> post
    [] v = "failed"    -> [post EXCEPT !.status = StatusFailed,
                                       !.sched = ScheduleComplete]
    [] v = "published" -> [post EXCEPT !.status = StatusPublished,
                                       !.sched = ScheduleComplete]

\* LPUSH at one end, BRPOP at the other: first in, first out.
LPush(job) == queue' = Append(queue, job)

\* LPUSH whose outcome the caller does not learn: it reports an error.
LPushFails(job) == queue' = queue \/ LPush(job)

\* LPUSH sent twice by the client because the first reply timed out.
LPushDup(job) == queue' = queue \o <<job, job>>

\* NOW() reaches the scheduled_at of post p.
ComesDue(p) ==
  /\ posts[p].at = "future"
  /\ posts' = [posts EXCEPT ![p].at = "due"]
  /\ UNCHANGED <<rowVars, versions, authorized, services, queue, sent>>

\* The Redis container restarts (--save "" --appendonly no).
RedisRestart ==
  /\ "redis" \in Faults
  /\ queue # <<>>
  /\ queue' = <<>>
  /\ UNCHANGED <<posts, rowVars, versions, authorized, services, sent>>
=============================================================================
