----------------------- MODULE PublishPipelineProofs -----------------------
(***************************************************************************)
(* Theorems about PublishPipeline, for any number of posts, accounts,      *)
(* services, schedulers and workers.                                       *)
(***************************************************************************)
EXTENDS PublishPipeline, TLAPS

USE StoreAssumption, SchedulerAssumption, WorkerAssumption

(***************************************************************************)
(* Types of the shared pieces.                                             *)
(***************************************************************************)
LEMMA StatusRange ==
  /\ StatusPublished \in 0..3 /\ StatusFailed \in 0..3
  /\ ScheduleComplete \in 0..2
  /\ StatusPublished # StatusFailed
BY DEF StatusPublished, StatusFailed, ScheduleComplete

LEMMA FinalRow ==
  ASSUME NEW post \in PostRow, NEW q,
         NEW st \in {StatusPublished, StatusFailed},
         q = [post EXCEPT !.status = st, !.sched = ScheduleComplete]
  PROVE  q \in PostRow /\ q.status = st /\ q.sched = ScheduleComplete
<1>1. st \in 0..3 /\ ScheduleComplete \in 0..2
  BY StatusRange
<1>2. [post EXCEPT !.status = st] \in PostRow
  BY <1>1 DEF PostRow
<1>3. ASSUME NEW r \in PostRow
      PROVE  [r EXCEPT !.sched = ScheduleComplete] \in PostRow
  BY <1>1 DEF PostRow
<1>4. q \in PostRow
  BY <1>2, <1>3
<1>5. q.status = st /\ q.sched = ScheduleComplete
  BY DEF PostRow
<1> QED
  BY <1>4, <1>5

\* What finalizePostIfDoneTx writes, by verdict.
LEMMA FinalizedRow ==
  ASSUME NEW post \in PostRow, NEW v \in {"none", "published", "failed"}
  PROVE  /\ Finalized(post, v) \in PostRow
         /\ v = "none" => Finalized(post, v) = post
         /\ v = "published" =>
              /\ Finalized(post, v).status = StatusPublished
              /\ Finalized(post, v).sched = ScheduleComplete
         /\ v = "failed" =>
              /\ Finalized(post, v).status = StatusFailed
              /\ Finalized(post, v).sched = ScheduleComplete
<1>1. CASE v = "none"
  BY <1>1 DEF Finalized
<1>2. CASE v = "failed"
  <2>1. Finalized(post, v) = [post EXCEPT !.status = StatusFailed,
                                          !.sched = ScheduleComplete]
    BY <1>2 DEF Finalized
  <2> QED
    BY <1>2, <2>1, FinalRow
<1>3. CASE v = "published"
  <2>1. Finalized(post, v) = [post EXCEPT !.status = StatusPublished,
                                          !.sched = ScheduleComplete]
    BY <1>3 DEF Finalized
  <2> QED
    BY <1>3, <2>1, FinalRow
<1> QED
  BY <1>1, <1>2, <1>3

\* What the claim writes, with and without accounts.
LEMMA ClaimedRow ==
  ASSUME NEW p \in Posts, posts[p] \in PostRow
  PROVE  /\ Claimed(p) \in PostRow
         /\ attached[p] = {} =>
              /\ Claimed(p).status = StatusFailed
              /\ Claimed(p).sched = ScheduleComplete
         /\ attached[p] # {} =>
              /\ Claimed(p).status = posts[p].status
              /\ Claimed(p).sched = ScheduleRunning
<1>1. CASE attached[p] = {}
  <2>1. Claimed(p) = [posts[p] EXCEPT !.status = StatusFailed,
                                      !.sched = ScheduleComplete]
    BY <1>1 DEF Claimed
  <2> QED
    BY <1>1, <2>1, FinalRow
<1>2. CASE attached[p] # {}
  BY <1>2 DEF Claimed, PostRow, ScheduleRunning
<1> QED
  BY <1>1, <1>2

LEMMA VerdictType ==
  ASSUME NEW rows, NEW ok, NEW bad
  PROVE  Verdict(rows, ok, bad) \in {"none", "published", "failed"}
BY DEF Verdict

LEMMA RecordedType ==
  ASSUME NEW row \in {"none", "posted", "errored"}, NEW rows, NEW ok, NEW bad
  PROVE  [row |-> row, verdict |-> Verdict(rows, ok, bad)] \in TxWrites
BY VerdictType DEF TxWrites

LEMMA FirstJobType ==
  ASSUME NEW pair \in Posts \X Accounts
  PROVE  FirstJob(pair) \in Jobs
BY DEF FirstJob, Jobs, MaxAttempts

LEMMA NextAttemptType ==
  ASSUME NEW j \in Jobs, j.attempt < MaxAttempts
  PROVE  NextAttempt(j) \in Jobs
BY DEF NextAttempt, Jobs, MaxAttempts

LEMMA PushTypes ==
  ASSUME NEW j \in Jobs, queue \in Seq(Jobs),
         LPush(j) \/ LPushFails(j) \/ LPushDup(j)
  PROVE  queue' \in Seq(Jobs)
<1>1. CASE LPush(j)
  BY <1>1 DEF LPush
<1>2. CASE LPushFails(j)
  BY <1>2 DEF LPush, LPushFails
<1>3. CASE LPushDup(j)
  <2>1. <<j, j>> \in Seq(Jobs)
    OBVIOUS
  <2> QED
    BY <1>3, <2>1 DEF LPushDup
<1> QED
  BY <1>1, <1>2, <1>3

LEMMA InitType == Init => TypeOK
<1> SUFFICES ASSUME Init PROVE TypeOK
  OBVIOUS
<1>1. StoreTypeOK
  BY DEF Init, StoreTypeOK, NewPostRow
<1>2. SchedulerTypeOK
  BY DEF Init, SchedulerTypeOK, SchedulerInit
<1>3. WorkerTypeOK
  BY DEF Init, WorkerTypeOK, WorkerInit, NoWrites, TxWrites, ErrKinds
<1> QED
  BY <1>1, <1>2, <1>3 DEF TypeOK

(***************************************************************************)
(* Steps of a scheduler keep the types.                                    *)
(***************************************************************************)
LEMMA SchedulerType ==
  ASSUME TypeOK, NEW s \in Schedulers, SchedulerStep(s) \/ SchedulerFault(s),
         UNCHANGED workerVars
  PROVE  TypeOK'
<1> USE DEF TypeOK, StoreTypeOK, SchedulerTypeOK
<1>0. WorkerTypeOK'
  BY DEF WorkerTypeOK, workerVars
<1>1. CASE Scan(s)
  BY <1>0, <1>1 DEF Scan, Due, storeVars, rowVars
<1>2. ASSUME NEW p \in Posts, SkipClaim(s, p) PROVE TypeOK'
  BY <1>0, <1>2 DEF SkipClaim, storeVars, rowVars
<1>3. ASSUME NEW p \in Posts, Claim(s, p) PROVE TypeOK'
  <2>1. posts' \in [Posts -> PostRow]
    BY <1>3, ClaimedRow DEF Claim
  <2>2. left' \in [Schedulers -> SUBSET (Posts \X Accounts)]
    BY <1>3 DEF Claim
  <2> QED
    BY <1>0, <1>3, <2>1, <2>2 DEF Claim, rowVars
<1>4. CASE ClaimFails(s)
  BY <1>0, <1>4 DEF ClaimFails, AbandonScan, storeVars, rowVars
<1>5. ASSUME NEW p \in Posts, ClaimUnknown(s, p) PROVE TypeOK'
  <2>1. posts' \in [Posts -> PostRow]
    BY <1>5, ClaimedRow DEF ClaimUnknown
  <2> QED
    BY <1>0, <1>5, <2>1 DEF ClaimUnknown, AbandonScan, rowVars
<1>6. CASE Push(s) \/ PushDup(s)
  <2>1. queue' \in Seq(Jobs)
    BY <1>6, FirstJobType, PushTypes DEF Push, PushDup
  <2>2. left' \in [Schedulers -> SUBSET (Posts \X Accounts)]
    <3>1. PICK pair : left' = [left EXCEPT ![s] = @ \ {pair}]
      BY <1>6 DEF Push, PushDup
    <3>2. left[s] \ {pair} \in SUBSET (Posts \X Accounts)
      OBVIOUS
    <3> QED
      BY <3>1, <3>2
  <2> QED
    BY <1>0, <1>6, <2>1, <2>2 DEF Push, PushDup, rowVars
<1>7. CASE PushFails(s)
  <2>1. queue' \in Seq(Jobs)
    BY <1>7, FirstJobType, PushTypes DEF PushFails
  <2> QED
    BY <1>0, <1>7, <2>1 DEF PushFails, AbandonScan, rowVars
<1>8. CASE SchedulerCrash(s)
  BY <1>0, <1>8 DEF SchedulerCrash, AbandonScan, storeVars, rowVars
<1> QED
  BY <1>1, <1>2, <1>3, <1>4, <1>5, <1>6, <1>7, <1>8
     DEF SchedulerStep, SchedulerFault
(***************************************************************************)
(* Steps of a worker keep the types.                                       *)
(***************************************************************************)
LEMMA ReturnErrorType ==
  ASSUME WorkerTypeOK, NEW w \in Workers, NEW kind \in ErrKinds, ReturnError(w, kind)
  PROVE  WorkerTypeOK'
BY DEF WorkerTypeOK, ReturnError, NoWrites, TxWrites

LEMMA IdleType ==
  ASSUME WorkerTypeOK, NEW w \in Workers, Idle(w)
  PROVE  WorkerTypeOK'
BY DEF WorkerTypeOK, Idle, NoWrites, TxWrites, ErrKinds

LEMMA GotoType ==
  ASSUME WorkerTypeOK, NEW w \in Workers, Goto(w, "service") \/ Goto(w, "text") \/ Goto(w, "original")
         \/ Goto(w, "publish") \/ Goto(w, "record")
  PROVE  WorkerTypeOK'
BY DEF WorkerTypeOK, Goto

LEMMA ApplyType ==
  ASSUME StoreTypeOK, WorkerTypeOK, NEW w \in Workers, job[w] \in Jobs, Apply(w)
  PROVE  /\ posts' \in [Posts -> PostRow]
         /\ posted' \in [Posts -> SUBSET Accounts]
         /\ errored' \in [Posts -> SUBSET Accounts]
<1> USE DEF StoreTypeOK, WorkerTypeOK, TxWrites
<1>1. job[w].post \in Posts /\ job[w].account \in Accounts
  BY DEF Jobs
<1>2. posts' \in [Posts -> PostRow]
  BY <1>1, FinalizedRow DEF Apply
<1>3. posted' \in [Posts -> SUBSET Accounts]
  BY <1>1 DEF Apply, PostedAfter
<1>4. errored' \in [Posts -> SUBSET Accounts]
  <2>1. tx[w].row \in {"none", "posted", "errored"}
    OBVIOUS
  <2>2. CASE tx[w].row = "none"
    BY <2>2 DEF Apply, ErroredAfter
  <2>3. CASE tx[w].row = "posted"
    BY <2>3, <1>1 DEF Apply, ErroredAfter
  <2>4. CASE tx[w].row = "errored"
    BY <2>4, <1>1 DEF Apply, ErroredAfter
  <2> QED
    BY <2>1, <2>2, <2>3, <2>4
<1> QED
  BY <1>2, <1>3, <1>4

LEMMA WorkerType ==
  ASSUME TypeOK, WorkerShape, NEW w \in Workers, WorkerStep(w) \/ WorkerFault(w),
         UNCHANGED schedulerVars
  PROVE  TypeOK'
<1> USE DEF TypeOK, StoreTypeOK
<1>0. /\ SchedulerTypeOK'
      /\ pc[w] # "idle" => job[w] \in Jobs
  BY DEF SchedulerTypeOK, schedulerVars, WorkerTypeOK, WorkerShape
<1>1. CASE BRPop(w)
  <2>1. Head(queue) \in Jobs /\ Tail(queue) \in Seq(Jobs)
    BY <1>1 DEF BRPop
  <2>2. WorkerTypeOK'
    BY <1>1, <2>1 DEF BRPop, WorkerTypeOK
  <2> QED
    BY <1>0, <1>1, <2>1, <2>2 DEF BRPop, rowVars
<1>2. CASE FetchAccount(w)
  <2>1. WorkerTypeOK'
    BY <1>2, IdleType, ReturnErrorType, GotoType DEF FetchAccount, ErrKinds
  <2> QED
    BY <1>0, <1>2, <2>1 DEF FetchAccount, storeVars, rowVars
<1>3. CASE FetchService(w) \/ FetchText(w) \/ FetchOriginal(w)
  <2>1. WorkerTypeOK'
    BY <1>3, ReturnErrorType, GotoType 
       DEF FetchService, FetchText, FetchOriginal, UseContent, ErrKinds
  <2> QED
    BY <1>0, <1>3, <2>1 DEF FetchService, FetchText, FetchOriginal, storeVars, rowVars
<1>4. CASE Publish(w)
  <2>1. WorkerTypeOK'
    BY <1>4, ReturnErrorType, GotoType DEF Publish, ErrKinds
  <2>2. sent' \in [Posts -> [Accounts -> Nat]]
    <3>1. job[w].post \in Posts /\ job[w].account \in Accounts
      BY <1>0, <1>4 DEF Publish, Jobs
    <3>2. CASE Accepted(job[w].post, job[w].account)
      BY <3>1, <3>2 DEF Accepted
    <3>3. CASE UNCHANGED sent
      BY <3>3
    <3> QED
      BY <1>4, <3>2, <3>3 DEF Publish
  <2> QED
    BY <1>0, <1>4, <2>1, <2>2 DEF Publish, rowVars
<1>5. CASE RecordResult(w)
  <2>1. WorkerTypeOK'
    <3>1. CASE Idle(w)
      BY <3>1, IdleType
    <3>2. ASSUME NEW writes \in TxWrites, tx' = [tx EXCEPT ![w] = writes],
                 pc' = [pc EXCEPT ![w] = "commit"], UNCHANGED <<job, err>>
          PROVE  WorkerTypeOK'
      BY <3>2 DEF WorkerTypeOK
    <3> QED
      BY <1>5, <3>1, <3>2, RecordedType DEF RecordResult
  <2> QED
    BY <1>0, <1>5, <2>1 DEF RecordResult, storeVars, rowVars
<1>6. CASE Commit(w) \/ CommitUnknown(w)
  <2>1. WorkerTypeOK'
    BY <1>6, IdleType, ReturnErrorType DEF Commit, CommitUnknown, ErrKinds
  <2> QED
    BY <1>0, <1>6, <2>1, ApplyType DEF Commit, CommitUnknown, Apply
<1>7. CASE StatementFails(w)
  BY <1>0, <1>7, ReturnErrorType DEF StatementFails, ErrKinds, storeVars, rowVars
<1>8. CASE Retry(w) \/ RetryFails(w) \/ RetryDup(w)
  <2>1. WorkerTypeOK'
    BY <1>8, IdleType DEF Retry, RetryFails, RetryDup
  <2>2. NextAttempt(job[w]) \in Jobs
    BY <1>0, <1>8, NextAttemptType DEF Retry, RetryFails, RetryDup, MayRetry
  <2>3. queue' \in Seq(Jobs)
    BY <1>8, <2>2, PushTypes DEF Retry, RetryFails, RetryDup
  <2> QED
    BY <1>0, <1>8, <2>1, <2>3 DEF Retry, RetryFails, RetryDup, rowVars
<1>9. CASE Mark(w)
  <2>1. WorkerTypeOK'
    <3>1. ASSUME NEW writes \in TxWrites, tx' = [tx EXCEPT ![w] = writes],
                 pc' = [pc EXCEPT ![w] = "markcommit"], UNCHANGED <<job, err>>
          PROVE  WorkerTypeOK'
      BY <3>1 DEF WorkerTypeOK
    <3> QED
      BY <1>9, <3>1, RecordedType DEF Mark
  <2> QED
    BY <1>0, <1>9, <2>1 DEF Mark, storeVars, rowVars
<1>10. CASE CommitMark(w)
  <2>1. WorkerTypeOK'
    BY <1>10, IdleType DEF CommitMark
  <2>2. authorized' \in SUBSET Accounts
    BY <1>10 DEF CommitMark
  <2> QED
    BY <1>0, <1>10, <2>1, <2>2, ApplyType DEF CommitMark, Apply
<1>11. CASE MarkFails(w) \/ WorkerCrash(w)
  BY <1>0, <1>11, IdleType DEF MarkFails, WorkerCrash, storeVars, rowVars
<1> QED
  BY <1>1, <1>2, <1>3, <1>4, <1>5, <1>6, <1>7, <1>8, <1>9, <1>10, <1>11
     DEF WorkerStep, WorkerFault

LEMMA InitShape == Init => WorkerShape
BY DEF Init, WorkerInit, WorkerShape

LEMMA WorkerShapeStep ==
  ASSUME TypeOK, WorkerShape, NEW w \in Workers, WorkerStep(w) \/ WorkerFault(w)
  PROVE  WorkerShape'
<1> USE DEF TypeOK, StoreTypeOK, WorkerTypeOK, WorkerShape
<1>1. CASE Idle(w)
  BY <1>1 DEF Idle
<1>2. ASSUME NEW kind \in ErrKinds, pc[w] # "idle", ReturnError(w, kind)
      PROVE  WorkerShape'
  BY <1>2 DEF ReturnError
<1>3. ASSUME NEW next \in {"service", "text", "original", "publish", "record"},
             pc[w] \notin {"idle", "commit", "markcommit"}, Goto(w, next)
      PROVE  WorkerShape'
  BY <1>3 DEF Goto
<1>4. CASE BRPop(w)
  <2>1. Head(queue) \in Jobs
    BY <1>4 DEF BRPop
  <2> QED
    BY <1>4, <2>1 DEF BRPop
<1>5. CASE \/ FetchAccount(w) \/ FetchService(w) \/ FetchText(w) \/ FetchOriginal(w)
           \/ Publish(w)
  BY <1>1, <1>2, <1>3, <1>5
     DEF FetchAccount, FetchService, FetchText, FetchOriginal, UseContent, Publish, ErrKinds
<1>6. CASE RecordResult(w)
  <2>1. CASE Idle(w)
    BY <2>1, <1>1
  <2>2. ASSUME NEW v, tx' = [tx EXCEPT ![w] = [row |-> "posted", verdict |-> v]],
               pc' = [pc EXCEPT ![w] = "commit"], UNCHANGED job, pc[w] = "record"
        PROVE  WorkerShape'
    BY <2>2
  <2> QED
    BY <1>6, <2>1, <2>2 DEF RecordResult
<1>7. CASE Mark(w)
  BY <1>7 DEF Mark
<1>8. CASE CommitUnknown(w) \/ StatementFails(w)
  BY <1>2, <1>8 DEF CommitUnknown, StatementFails, ErrKinds
<1>9. CASE Commit(w) \/ Retry(w) \/ CommitMark(w) \/ RetryFails(w) \/ RetryDup(w)
           \/ MarkFails(w) \/ WorkerCrash(w)
  BY <1>1, <1>9
     DEF Commit, Retry, CommitMark, RetryFails, RetryDup, MarkFails, WorkerCrash
<1> QED
  BY <1>4, <1>5, <1>6, <1>7, <1>8, <1>9 DEF WorkerStep, WorkerFault

LEMMA NextType == TypeOK /\ WorkerShape /\ [Next]_vars => TypeOK' /\ WorkerShape'
<1> SUFFICES ASSUME TypeOK, WorkerShape, [Next]_vars
             PROVE  TypeOK' /\ WorkerShape'
  OBVIOUS
<1>1. CASE SchedulerNext /\ UNCHANGED workerVars
  <2>1. WorkerShape'
    BY <1>1 DEF WorkerShape, workerVars
  <2> QED
    BY <1>1, <2>1, SchedulerType DEF SchedulerNext
<1>2. CASE WorkerNext /\ UNCHANGED schedulerVars
  BY <1>2, WorkerType, WorkerShapeStep DEF WorkerNext
<1>3. CASE StoreNext /\ UNCHANGED <<schedulerVars, workerVars>>
  <2>1. WorkerShape' /\ SchedulerTypeOK' /\ WorkerTypeOK'
    BY <1>3 DEF TypeOK, SchedulerTypeOK, WorkerTypeOK, WorkerShape, schedulerVars, workerVars
  <2>2. StoreTypeOK'
    <3>1. CASE RedisRestart
      BY <3>1 DEF TypeOK, StoreTypeOK, RedisRestart, rowVars
    <3>2. ASSUME NEW p \in Posts, ComesDue(p) PROVE StoreTypeOK'
      <4>1. [posts[p] EXCEPT !.at = "due"] \in PostRow
        <5>1. ASSUME NEW post \in PostRow
              PROVE  [post EXCEPT !.at = "due"] \in PostRow
          BY DEF PostRow
        <5> QED
          BY <5>1 DEF TypeOK, StoreTypeOK
      <4> QED
        BY <3>2, <4>1 DEF TypeOK, StoreTypeOK, ComesDue, rowVars
    <3> QED
      BY <1>3, <3>1, <3>2 DEF StoreNext
  <2> QED
    BY <2>1, <2>2 DEF TypeOK
<1>4. CASE UNCHANGED vars
  BY <1>4 DEF TypeOK, StoreTypeOK, SchedulerTypeOK, WorkerTypeOK, WorkerShape,
              vars, storeVars, rowVars, schedulerVars, workerVars
<1> QED
  BY <1>1, <1>2, <1>3, <1>4 DEF Next

(***************************************************************************)
(* Every variable keeps its type: the columns stay in their ranges, queue  *)
(* and workers hold well-formed jobs, no job exceeds MaxAttempts.          *)
(***************************************************************************)
THEOREM TypeCorrect == Spec => []TypeOK
<1>1. Init => TypeOK /\ WorkerShape
  BY InitType, InitShape
<1> QED
  BY <1>1, NextType, PTL DEF Spec
=============================================================================
