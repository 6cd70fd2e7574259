------------------------------- MODULE Worker -------------------------------
(***************************************************************************)
(* cmd/worker: a worker pops a job, publishes the post to the account in   *)
(* one database transaction (read, call the provider, record the outcome,  *)
(* finalize the post, commit) and, when that fails, either pushes the job  *)
(* again with the next attempt number or marks the account's row with the  *)
(* error in a second transaction.  BRPOP removes the job at once: nobody   *)
(* else knows it until it is pushed again.                                 *)
(***************************************************************************)
EXTENDS Store

CONSTANTS
  Workers,  \* the worker processes running
  NoJob     \* the value of job[w] while w waits for a job

ASSUME WorkerAssumption == NoJob \notin Jobs

VARIABLES
  pc,    \* pc[w]: the statement worker w executes next
  job,   \* job[w]: the job w has popped
  err,   \* err[w]: the class of the error of processPublishJob
  tx     \* tx[w]: what the open transaction of w has written

workerVars == <<pc, job, err, tx>>

ErrKinds == {"none", "unauthorized", "permanent", "transient"}

(***************************************************************************)
(* The uncommitted writes of a transaction: to the row of post_accounts    *)
(* (provider_post_id set and errors cleared, errors set, or nothing) and   *)
(* to the row of posts (the verdict of finalizePostIfDoneTx).              *)
(***************************************************************************)
TxWrites == [row: {"none", "posted", "errored"},
             verdict: {"none", "published", "failed"}]
NoWrites == [row |-> "none", verdict |-> "none"]

WorkerTypeOK ==
  /\ pc \in [Workers -> {"idle", "fetch", "service", "text", "original", "publish",
                         "record", "commit", "error", "markcommit"}]
  /\ job \in [Workers -> Jobs \cup {NoJob}]
  /\ err \in [Workers -> ErrKinds]
  /\ tx \in [Workers -> TxWrites]

WorkerInit ==
  /\ pc = [w \in Workers |-> "idle"]
  /\ job = [w \in Workers |-> NoJob]
  /\ err = [w \in Workers |-> "none"]
  /\ tx = [w \in Workers |-> NoWrites]

\* w finds itself back at the top of workerLoop.
Idle(w) ==
  /\ pc' = [pc EXCEPT ![w] = "idle"]
  /\ job' = [job EXCEPT ![w] = NoJob]
  /\ err' = [err EXCEPT ![w] = "none"]
  /\ tx' = [tx EXCEPT ![w] = NoWrites]

\* processPublishJob goes on to its next statement.
Goto(w, next) ==
  /\ pc' = [pc EXCEPT ![w] = next]
  /\ UNCHANGED <<job, err, tx>>

\* Mutant of ReturnError: the transaction is not rolled back.
ReturnErrorKeepsTx(w, kind) ==
  /\ pc' = [pc EXCEPT ![w] = "error"]
  /\ err' = [err EXCEPT ![w] = kind]
  /\ UNCHANGED <<job, tx>>

\* processPublishJob returns an error; the deferred Rollback has run.
ReturnError(w, kind) ==
  /\ pc' = [pc EXCEPT ![w] = "error"]
  /\ err' = [err EXCEPT ![w] = kind]
  /\ tx' = [tx EXCEPT ![w] = NoWrites]
  /\ UNCHANGED job

\* Another transaction holds the lock of row (p, a) of post_accounts.
RowLocked(p, a) ==
  \E v \in Workers :
    /\ pc[v] \in {"commit", "markcommit"}
    /\ tx[v].row # "none"
    /\ job[v].post = p /\ job[v].account = a

\* Another transaction holds the lock of row a of accounts.
AccountLocked(a) ==
  \E v \in Workers :
    pc[v] = "markcommit" /\ err[v] = "unauthorized" /\ job[v].account = a

BRPop(w) ==
  /\ pc[w] = "idle"
  /\ queue # <<>>
  /\ queue' = Tail(queue)
  /\ job' = [job EXCEPT ![w] = Head(queue)]
  /\ pc' = [pc EXCEPT ![w] = "fetch"]
  /\ UNCHANGED <<posts, rowVars, versions, authorized, services, sent, err, tx>>

\* Mutant of FetchAccount: an unauthorized account is skipped silently.
FetchAccountSkips(w) ==
  /\ pc[w] = "fetch"
  /\ \/ job[w].account \notin attached[job[w].post] \cap authorized /\ Idle(w)
     \/ job[w].account \in attached[job[w].post] \cap authorized /\ Goto(w, "service")
  /\ UNCHANGED storeVars

\* fetchAccountForPostTx and the check of account.Authorized.
FetchAccount(w) ==
  /\ pc[w] = "fetch"
  /\ LET p == job[w].post
         a == job[w].account
     IN  \/ a \notin attached[p] /\ Idle(w)
         \/ /\ a \in attached[p]
            /\ a \notin authorized /\ ReturnError(w, "unauthorized")
         \/ /\ a \in attached[p]
            /\ a \in authorized /\ Goto(w, "service")
  /\ UNCHANGED storeVars

\* fetchServiceConfigurationForProviderTx lets account a be published.
ServiceUsable(a) ==
  ServiceOf[a] # NoService =>
    \/ services[ServiceOf[a]] = "active"
    \/ services[ServiceOf[a]] = "missing" /\ ServiceOf[a] \notin Required

FetchService(w) ==
  /\ pc[w] = "service"
  /\ \/ ServiceUsable(job[w].account) /\ Goto(w, "text")
     \/ ~ServiceUsable(job[w].account) /\ ReturnError(w, "permanent")
  /\ UNCHANGED storeVars

\* Mutant of UseContent: the row is written before the provider is called.
UseContentRecordsFirst(w, content) ==
  \/ content = "body" /\ Goto(w, "record")
  \/ content # "body" /\ ReturnError(w, "permanent")

\* The content a worker has read: without a body the error is permanent.
UseContent(w, content) ==
  \/ content = "body" /\ Goto(w, "publish")
  \/ content # "body" /\ ReturnError(w, "permanent")

\* Mutant of FetchText: no fallback to the original version.
FetchTextOwnOnly(w) ==
  /\ pc[w] = "text"
  /\ UseContent(w, versions[job[w].post].own[job[w].account])
  /\ UNCHANGED storeVars

\* fetchPublishTextTx, first SELECT: the version of the account, if it has one.
FetchText(w) ==
  /\ pc[w] = "text"
  /\ LET own == versions[job[w].post].own[job[w].account]
     IN  \/ own = "none" /\ Goto(w, "original")
         \/ own # "none" /\ UseContent(w, own)
  /\ UNCHANGED storeVars

\* Its second SELECT, a statement with a snapshot of its own.
FetchOriginal(w) ==
  /\ pc[w] = "original"
  /\ UseContent(w, versions[job[w].post].original)
  /\ UNCHANGED storeVars

\* The provider takes the post: one more publication for the reader.
Accepted(p, a) == sent' = [sent EXCEPT ![p][a] = @ + 1]

\* Mutant of Publish: an error of the provider is not looked at.
PublishIgnoresError(w) ==
  /\ pc[w] = "publish"
  /\ Accepted(job[w].post, job[w].account) \/ UNCHANGED sent
  /\ Goto(w, "record")
  /\ UNCHANGED <<posts, rowVars, versions, authorized, services, queue>>

(***************************************************************************)
(* Manager.Publish and the connector.  The provider may accept the post,   *)
(* refuse the token, or the call may fail (no answer before the deadline,  *)
(* a status that is not 2xx, an answer that cannot be read); a failed call *)
(* may nevertheless have been accepted.                                    *)
(***************************************************************************)
Publish(w) ==
  /\ pc[w] = "publish"
  /\ \/ Accepted(job[w].post, job[w].account) /\ Goto(w, "record")
     \/ Accepted(job[w].post, job[w].account) /\ ReturnError(w, "transient")
     \/ /\ \E kind \in {"unauthorized", "permanent", "transient"} :
             ReturnError(w, kind)
        /\ UNCHANGED sent
  /\ UNCHANGED <<posts, rowVars, versions, authorized, services, queue>>

(***************************************************************************)
(* The UPDATE of post_accounts after a successful call and the count of    *)
(* finalizePostIfDoneTx.  They are one step: from the UPDATE on the row is *)
(* locked, so nobody else can tell when between its predecessor and the    *)
(* count it ran.  The count sees this transaction's own row and committed  *)
(* rows of others.  No such row any more: return nil, the transaction is   *)
(* rolled back.                                                            *)
(***************************************************************************)
RecordResult(w) ==
  /\ pc[w] = "record"
  /\ LET p == job[w].post
         a == job[w].account
     IN  \/ a \notin attached[p] /\ Idle(w)
         \/ /\ a \in attached[p]
            /\ ~RowLocked(p, a)
            /\ tx' = [tx EXCEPT ![w] =
                 [row |-> "posted",
                  verdict |-> Verdict(attached[p], posted[p] \cup {a},
                                      errored[p] \ {a})]]
            /\ pc' = [pc EXCEPT ![w] = "commit"]
            /\ UNCHANGED <<job, err>>
  /\ UNCHANGED storeVars

\* posted[p] and errored[p] once the row write of w is applied.
PostedAfter(w) ==
  IF tx[w].row = "posted"
    THEN [posted EXCEPT ![job[w].post] = @ \cup {job[w].account}]
    ELSE posted

\* Mutant of ErroredAfter: the UPDATE does not clear errors.
ErroredAfterUncleared(w) ==
  IF tx[w].row = "errored"
    THEN [errored EXCEPT ![job[w].post] = @ \cup {job[w].account}]
    ELSE errored

ErroredAfter(w) ==
  CASE tx[w].row = "posted"  -> [errored EXCEPT ![job[w].post] = @ \ {job[w].account}]
    [] tx[w].row = "errored" -> [errored EXCEPT ![job[w].post] = @ \cup {job[w].account}]
    [] tx[w].row = "none"    -> errored

\* COMMIT makes the writes of w visible.
Apply(w) ==
  /\ posted' = PostedAfter(w)
  /\ errored' = ErroredAfter(w)
  /\ posts' = [posts EXCEPT ![job[w].post] = Finalized(@, tx[w].verdict)]
  /\ UNCHANGED <<attached, versions, services, queue, sent>>

Commit(w) ==
  /\ pc[w] = "commit"
  /\ Apply(w)
  /\ Idle(w)
  /\ UNCHANGED authorized

\* The transaction is committed but the worker is told it failed.
CommitUnknown(w) ==
  /\ "unknown" \in Faults
  /\ pc[w] = "commit"
  /\ Apply(w)
  /\ ReturnError(w, "transient")
  /\ UNCHANGED authorized

\* A statement of processPublishJob, or its COMMIT, fails.
StatementFails(w) ==
  /\ "db" \in Faults
  /\ pc[w] \in {"fetch", "service", "text", "original", "record", "commit"}
  /\ ReturnError(w, "transient")
  /\ UNCHANGED storeVars

\* Mutant of MayRetry: no limit on the attempts.
MayRetryForever(w) == pc[w] = "error" /\ err[w] = "transient"

\* !isPermanentPublishError(err) && job.Attempt < 3
MayRetry(w) ==
  /\ pc[w] = "error"
  /\ err[w] = "transient"
  /\ job[w].attempt < MaxAttempts

\* Mutant of NextAttempt: job.Attempt++ is missing.
SameAttempt(j) == j

NextAttempt(j) == [j EXCEPT !.attempt = @ + 1]

\* Mutant of Retry: the job is not pushed again.
RetryForgets(w) == MayRetry(w) /\ Idle(w) /\ UNCHANGED storeVars

Retry(w) ==
  /\ MayRetry(w)
  /\ LPush(NextAttempt(job[w]))
  /\ Idle(w)
  /\ UNCHANGED <<posts, rowVars, versions, authorized, services, sent>>

\* LPUSH fails: the error is logged and the loop goes on.
RetryFails(w) ==
  /\ "push" \in Faults
  /\ MayRetry(w)
  /\ LPushFails(NextAttempt(job[w]))
  /\ Idle(w)
  /\ UNCHANGED <<posts, rowVars, versions, authorized, services, sent>>

RetryDup(w) ==
  /\ "dup" \in Faults
  /\ MayRetry(w)
  /\ LPushDup(NextAttempt(job[w]))
  /\ Idle(w)
  /\ UNCHANGED <<posts, rowVars, versions, authorized, services, sent>>

\* Mutant of Mark: the post is not finalized after an error.
MarkWithoutFinalize(w) ==
  /\ pc[w] = "error" /\ ~MayRetry(w)
  /\ LET p == job[w].post
         a == job[w].account
     IN  /\ err[w] = "unauthorized" => ~AccountLocked(a)
         /\ a \in attached[p] => ~RowLocked(p, a)
         /\ tx' = [tx EXCEPT ![w] =
              [row |-> IF a \in attached[p] THEN "errored" ELSE "none",
               verdict |-> "none"]]
  /\ pc' = [pc EXCEPT ![w] = "markcommit"]
  /\ UNCHANGED <<storeVars, job, err>>

(***************************************************************************)
(* markAccountJobError up to its COMMIT: the account loses its authorized  *)
(* flag if the error says so, the row, if it still exists, gets errors,    *)
(* and the post is finalized on the rows there are.                        *)
(***************************************************************************)
Mark(w) ==
  /\ pc[w] = "error" /\ ~MayRetry(w)
  /\ LET p == job[w].post
         a == job[w].account
     IN  /\ err[w] = "unauthorized" => ~AccountLocked(a)
         /\ \/ /\ a \in attached[p]
               /\ ~RowLocked(p, a)
               /\ tx' = [tx EXCEPT ![w] =
                    [row |-> "errored",
                     verdict |-> Verdict(attached[p], posted[p],
                                         errored[p] \cup {a})]]
            \/ /\ a \notin attached[p]
               /\ tx' = [tx EXCEPT ![w] =
                    [row |-> "none",
                     verdict |-> Verdict(attached[p], posted[p], errored[p])]]
  /\ pc' = [pc EXCEPT ![w] = "markcommit"]
  /\ UNCHANGED <<storeVars, job, err>>

\* Mutant of CommitMark: the account stays authorized.
CommitMarkKeepsAuthorized(w) ==
  /\ pc[w] = "markcommit"
  /\ Apply(w)
  /\ Idle(w)
  /\ UNCHANGED authorized

\* Mutant of CommitMark: any error takes the authorization.
CommitMarkAnyError(w) ==
  /\ pc[w] = "markcommit"
  /\ Apply(w)
  /\ authorized' = authorized \ {job[w].account}
  /\ Idle(w)

CommitMark(w) ==
  /\ pc[w] = "markcommit"
  /\ Apply(w)
  /\ authorized' = IF err[w] = "unauthorized"
                     THEN authorized \ {job[w].account} ELSE authorized
  /\ Idle(w)

\* markAccountJobError fails: the error is logged and the job is gone.
MarkFails(w) ==
  /\ "db" \in Faults
  /\ (pc[w] = "error" /\ ~MayRetry(w)) \/ pc[w] = "markcommit"
  /\ Idle(w)
  /\ UNCHANGED storeVars

(***************************************************************************)
(* The process stops and is started again: the job it held is lost and its *)
(* transaction rolled back.  SIGTERM has the same effect: the cancelled    *)
(* context fails the transaction, the push and the mark.                   *)
(***************************************************************************)
WorkerCrash(w) ==
  /\ "crash" \in Faults
  /\ pc[w] # "idle"
  /\ Idle(w)
  /\ UNCHANGED storeVars

\* The steps of a worker that meets no failure but those of providers.
WorkerStep(w) ==
  \/ BRPop(w)
  \/ FetchAccount(w) \/ FetchService(w) \/ FetchText(w) \/ FetchOriginal(w)
  \/ Publish(w)
  \/ RecordResult(w) \/ Commit(w)
  \/ Retry(w)
  \/ Mark(w) \/ CommitMark(w)

WorkerFault(w) ==
  \/ CommitUnknown(w) \/ StatementFails(w)
  \/ RetryFails(w) \/ RetryDup(w)
  \/ MarkFails(w)
  \/ WorkerCrash(w)
=============================================================================
