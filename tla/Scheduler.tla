----------------------------- MODULE Scheduler -----------------------------
(***************************************************************************)
(* cmd/scheduler: every minute a scheduler lists the posts that are due,   *)
(* then handles them one by one: a transaction claims the post by setting  *)
(* schedule_status to Running, and after the commit one publish job per    *)
(* post_accounts row is pushed to Redis.  The list is a snapshot: a post   *)
(* may change between the scan and its claim.  Any error abandons the rest *)
(* of the scan; the next tick starts from a new one.                       *)
(***************************************************************************)
EXTENDS Store

CONSTANTS
  Schedulers,  \* the scheduler processes running
  ScanLimit    \* the LIMIT of the scan query

ASSUME SchedulerAssumption == ScanLimit \in Nat \ {0}

VARIABLES
  todo,   \* todo[s]: posts of the scan that s has not handled yet
  left    \* left[s]: the <<post, account>> pairs s has committed to push

schedulerVars == <<todo, left>>

SchedulerTypeOK ==
  /\ todo \in [Schedulers -> SUBSET Posts]
  /\ left \in [Schedulers -> SUBSET (Posts \X Accounts)]

SchedulerInit ==
  /\ todo = [s \in Schedulers |-> {}]
  /\ left = [s \in Schedulers |-> {}]

\* The WHERE clause of the scan.
IsDue(post) ==
  /\ post.row = "live"
  /\ post.status = StatusScheduled
  /\ post.sched = SchedulePending
  /\ post.at = "due"

Due == {p \in Posts : IsDue(posts[p])}

\* Mutant of IsClaimable: the claim does not test schedule_status.
IsClaimableAnyway(post) == post.row = "live" /\ post.status = StatusScheduled

\* Mutant of IsClaimable: only schedule_status is tested.
IsClaimablePending(post) == post.sched = SchedulePending

\* The WHERE clause of the claim: scheduled_at is not looked at again.
IsClaimable(post) ==
  /\ post.row = "live"
  /\ post.status = StatusScheduled
  /\ post.sched = SchedulePending

(***************************************************************************)
(* A tick: the scan returns at most ScanLimit due posts.  The code orders  *)
(* them by scheduled_at; here any choice of that size and any order of     *)
(* handling is allowed, which includes the code's.                         *)
(***************************************************************************)
Scan(s) ==
  /\ todo[s] = {} /\ left[s] = {}
  /\ \E batch \in SUBSET Due :
       /\ Cardinality(batch) <= ScanLimit
       /\ batch = Due \/ Cardinality(batch) = ScanLimit
       /\ todo' = [todo EXCEPT ![s] = batch]
  /\ UNCHANGED <<storeVars, left>>

\* The scanned post no longer qualifies: no row is updated, s goes on.
SkipClaim(s, p) ==
  /\ left[s] = {} /\ p \in todo[s]
  /\ ~IsClaimable(posts[p])
  /\ todo' = [todo EXCEPT ![s] = @ \ {p}]
  /\ UNCHANGED <<storeVars, left>>

\* Mutant of Claimed: a post without accounts is left running.
ClaimedRunning(p) == [posts[p] EXCEPT !.sched = ScheduleRunning]

\* What the claim transaction leaves of post p: Failed at once if it has
\* no account to publish to.
Claimed(p) ==
  IF attached[p] = {}
    THEN [posts[p] EXCEPT !.status = StatusFailed, !.sched = ScheduleComplete]
    ELSE [posts[p] EXCEPT !.sched = ScheduleRunning]

(***************************************************************************)
(* The claim transaction of enqueuePost.  The UPDATE holds the row lock of *)
(* the post until the commit, so the transaction is one step.              *)
(***************************************************************************)
Claim(s, p) ==
  /\ left[s] = {} /\ p \in todo[s]
  /\ IsClaimable(posts[p])
  /\ posts' = [posts EXCEPT ![p] = Claimed(p)]
  /\ todo' = [todo EXCEPT ![s] = @ \ {p}]
  /\ left' = [left EXCEPT ![s] = {p} \X attached[p]]
  /\ UNCHANGED <<rowVars, versions, authorized, services, queue, sent>>

\* The error returns of enqueuePost and of the scan end the tick.
AbandonScan(s) ==
  /\ todo' = [todo EXCEPT ![s] = {}]
  /\ left' = [left EXCEPT ![s] = {}]

\* The claim, or reading the next row of the scan, fails: nothing is written.
ClaimFails(s) ==
  /\ "db" \in Faults
  /\ left[s] = {} /\ todo[s] # {}
  /\ AbandonScan(s)
  /\ UNCHANGED storeVars

\* The claim is committed but the scheduler is told it failed.
ClaimUnknown(s, p) ==
  /\ "unknown" \in Faults
  /\ left[s] = {} /\ p \in todo[s]
  /\ IsClaimable(posts[p])
  /\ posts' = [posts EXCEPT ![p] = Claimed(p)]
  /\ AbandonScan(s)
  /\ UNCHANGED <<rowVars, versions, authorized, services, queue, sent>>

FirstJob(pair) == [post |-> pair[1], account |-> pair[2], attempt |-> 1]

\* Mutant of Push: the loop ends after the first account.
PushOnlyFirst(s) ==
  /\ \E pair \in left[s] : LPush(FirstJob(pair))
  /\ left' = [left EXCEPT ![s] = {}]
  /\ UNCHANGED <<posts, rowVars, versions, authorized, services, sent, todo>>

\* One LPUSH of the loop over the account ids.
Push(s) ==
  /\ \E pair \in left[s] :
       /\ LPush(FirstJob(pair))
       /\ left' = [left EXCEPT ![s] = @ \ {pair}]
  /\ UNCHANGED <<posts, rowVars, versions, authorized, services, sent, todo>>

PushDup(s) ==
  /\ "dup" \in Faults
  /\ \E pair \in left[s] :
       /\ LPushDup(FirstJob(pair))
       /\ left' = [left EXCEPT ![s] = @ \ {pair}]
  /\ UNCHANGED <<posts, rowVars, versions, authorized, services, sent, todo>>

\* LPUSH fails: the remaining jobs of the claimed post are never pushed.
PushFails(s) ==
  /\ "push" \in Faults
  /\ \E pair \in left[s] : LPushFails(FirstJob(pair))
  /\ AbandonScan(s)
  /\ UNCHANGED <<posts, rowVars, versions, authorized, services, sent>>

\* The process stops, by a crash or by SIGTERM cancelling its context.
SchedulerCrash(s) ==
  /\ "crash" \in Faults
  /\ todo[s] # {} \/ left[s] # {}
  /\ AbandonScan(s)
  /\ UNCHANGED storeVars

\* The steps of a scheduler that meets no failure.
SchedulerStep(s) ==
  \/ Scan(s)
  \/ \E p \in Posts : SkipClaim(s, p) \/ Claim(s, p)
  \/ Push(s)

SchedulerFault(s) ==
  \/ ClaimFails(s)
  \/ \E p \in Posts : ClaimUnknown(s, p)
  \/ PushDup(s)
  \/ PushFails(s)
  \/ SchedulerCrash(s)
=============================================================================
