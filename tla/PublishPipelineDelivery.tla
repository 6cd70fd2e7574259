---------------------- MODULE PublishPipelineDelivery ----------------------
(***************************************************************************)
(* How often the provider accepts the same post for the same account: at   *)
(* most once per attempt, because the one job of a row carries the count   *)
(* of attempts with it, from scheduler to queue to worker and back.        *)
(***************************************************************************)
EXTENDS PublishPipelineSafety

Sent(pair) == sent[pair[1]][pair[2]]

\* The attempts of the job of worker w that may have been accepted by now.
Tried(w) ==
  IF pc[w] \in {"record", "commit", "error", "markcommit"}
    THEN job[w].attempt ELSE job[w].attempt - 1

\* Nothing is accepted before the claim, nor recorded before it is accepted.
RowsSent ==
  \A p \in Posts, a \in Accounts :
    /\ sent[p][a] <= MaxAttempts
    /\ posts[p].sched = SchedulePending => sent[p][a] = 0
    /\ a \in posted[p] => sent[p][a] > 0

LeftSent == \A s \in Schedulers : \A pair \in left[s] : Sent(pair) = 0

QueueSent == \A i \in 1..Len(queue) : Sent(JobPair(queue[i])) < queue[i].attempt

\* What worker w knows of the job it holds.
HeldRight(w) ==
  /\ pc[w] # "idle" => Sent(JobPair(job[w])) <= Tried(w)
  /\ pc[w] \in {"record", "commit"} => Sent(JobPair(job[w])) > 0
  /\ pc[w] = "markcommit" => tx[w].row # "posted"

HeldSent == \A w \in Workers : HeldRight(w)

SentRight == RowsSent /\ LeftSent /\ QueueSent /\ HeldSent

LEMMA InitSent == Init => SentRight
<1> SUFFICES ASSUME Init PROVE SentRight
  OBVIOUS
<1>1. RowsSent
  BY DEF Init, RowsSent, MaxAttempts
<1>2. LeftSent /\ QueueSent /\ HeldSent
  BY DEF Init, SchedulerInit, WorkerInit, LeftSent, QueueSent, HeldSent, HeldRight
<1> QED
  BY <1>1, <1>2 DEF SentRight

\* Workers other than w know as much as before, if nothing is accepted.
LEMMA OthersHeld ==
  ASSUME HeldSent, NEW w \in Workers, OthersRest(w), UNCHANGED sent, HeldRight(w)'
  PROVE  HeldSent'
<1> SUFFICES ASSUME NEW v \in Workers, v # w PROVE HeldRight(v)'
  BY DEF HeldSent
<1>1. HeldRight(v)
  BY DEF HeldSent
<1> QED
  BY <1>1 DEF HeldRight, Tried, OthersRest, Sent, JobPair

\* Worker w goes on with its job or gives it up; only its own state changes.
LEMMA LocalSent ==
  ASSUME SentRight, NEW w \in Workers, OthersRest(w), HeldRight(w)',
         UNCHANGED <<posts, rowVars, queue, sent, left>>
  PROVE  SentRight'
<1>1. RowsSent' /\ LeftSent' /\ QueueSent'
  BY DEF SentRight, RowsSent, LeftSent, QueueSent, Sent, JobPair, rowVars
<1> QED
  BY <1>1, OthersHeld DEF SentRight

\* A job is appended whose attempt is not made yet.
LEMMA QueuedSent ==
  ASSUME QueueSent, UNCHANGED sent, queue \in Seq(Jobs),
         NEW j \in Jobs, queue' = Append(queue, j), Sent(JobPair(j)) < j.attempt
  PROVE  QueueSent'
<1> SUFFICES ASSUME NEW i \in 1..Len(queue')
             PROVE  Sent(JobPair(queue'[i])) < queue'[i].attempt
  BY DEF QueueSent, Sent, JobPair
<1>1. /\ Len(queue) \in Nat /\ Len(queue') = Len(queue) + 1
      /\ \A k \in 1..Len(queue) : queue'[k] = queue[k]
      /\ queue'[Len(queue) + 1] = j
  OBVIOUS
<1>2. CASE i = Len(queue) + 1
  BY <1>1, <1>2
<1>3. CASE i # Len(queue) + 1
  <2>1. i \in 1..Len(queue)
    BY <1>1, <1>3
  <2> QED
    BY <1>1, <2>1 DEF QueueSent
<1> QED
  BY <1>2, <1>3

-----------------------------------------------------------------------------
\* The job of a busy worker.
LEMMA HeldJob ==
  ASSUME Inv, NEW w \in Workers, pc[w] # "idle"
  PROVE  /\ job[w] \in Jobs /\ job[w].attempt \in 1..MaxAttempts
         /\ job[w].post \in Posts /\ job[w].account \in Accounts
         /\ JobPair(job[w]) = <<job[w].post, job[w].account>>
         /\ Sent(JobPair(job[w])) = sent[job[w].post][job[w].account]
         /\ Sent(JobPair(job[w])) \in Nat
<1>1. job[w] \in Jobs
  BY DEF Inv, TypeOK, WorkerTypeOK, WorkerShape
<1>2. /\ job[w].attempt \in 1..MaxAttempts
      /\ job[w].post \in Posts /\ job[w].account \in Accounts
  BY <1>1 DEF Jobs
<1> QED
  BY <1>1, <1>2 DEF JobPair, Sent, Inv, TypeOK, StoreTypeOK

\* Steps that accept nothing, write no row and push no job.
LEMMA QuietSent ==
  ASSUME Inv, SentRight, NEW w \in Workers, UNCHANGED schedulerVars, UNCHANGED sent,
         \/ FetchAccount(w) \/ FetchService(w) \/ FetchText(w) \/ FetchOriginal(w)
         \/ Publish(w) \/ RecordResult(w) \/ Mark(w)
         \/ StatementFails(w) \/ MarkFails(w) \/ WorkerCrash(w),
         Goto(w, "record") => pc[w] # "publish"
  PROVE  SentRight'
<1>1. UNCHANGED <<posts, rowVars, queue, left>> /\ pc[w] # "idle"
  BY DEF FetchAccount, FetchService, FetchText, FetchOriginal, Publish, RecordResult, Mark,
         StatementFails, MarkFails, WorkerCrash, storeVars, schedulerVars
<1>2. /\ HeldRight(w)
      /\ job[w].attempt \in 1..MaxAttempts /\ Sent(JobPair(job[w])) \in Nat
  BY <1>1, HeldJob DEF SentRight, HeldSent
<1>3. CASE Idle(w)
  <2>1. OthersRest(w) /\ pc'[w] = "idle"
    BY <1>3, IdleLocal DEF Inv
  <2>2. HeldRight(w)'
    BY <2>1 DEF HeldRight
  <2> QED
    BY <1>1, <2>1, <2>2, LocalSent
<1>4. ASSUME NEW kind, ReturnError(w, kind) PROVE SentRight'
  <2>1. OthersRest(w) /\ job'[w] = job[w] /\ pc'[w] = "error"
    BY <1>4, ReturnErrorLocal DEF Inv, TypeOK, WorkerTypeOK, ReturnError
  <2>2. HeldRight(w)'
    BY <1>1, <1>2, <2>1 DEF HeldRight, Tried, Sent, JobPair, MaxAttempts
  <2> QED
    BY <1>1, <2>1, <2>2, LocalSent
<1>5. ASSUME NEW next \in {"service", "text", "original", "publish"}, Goto(w, next),
             pc[w] \in {"fetch", "service", "text", "original"}
      PROVE  SentRight'
  <2>1. OthersRest(w) /\ job'[w] = job[w] /\ pc'[w] = next
    BY <1>5, GotoLocal DEF Inv, TypeOK, WorkerTypeOK, Goto
  <2>2. HeldRight(w)'
    BY <1>2, <1>5, <2>1 DEF HeldRight, Tried, Sent, JobPair
  <2> QED
    BY <1>1, <2>1, <2>2, LocalSent
<1>6. ASSUME RecordResult(w), ~Idle(w) PROVE SentRight'
  <2>1. OthersRest(w) /\ job'[w] = job[w] /\ pc'[w] = "commit" /\ pc[w] = "record"
    BY <1>6 DEF RecordResult, OthersRest, Inv, TypeOK, WorkerTypeOK
  <2>2. HeldRight(w)'
    BY <1>2, <2>1 DEF HeldRight, Tried, Sent, JobPair
  <2> QED
    BY <1>1, <2>1, <2>2, LocalSent
<1>7. ASSUME Mark(w) PROVE SentRight'
  <2>1. OthersRest(w) /\ job'[w] = job[w] /\ pc'[w] = "markcommit" /\ pc[w] = "error"
    BY <1>7 DEF Mark, OthersRest, Inv, TypeOK, WorkerTypeOK
  <2>2. tx'[w].row # "posted"
    BY <1>7 DEF Mark, Inv, TypeOK, WorkerTypeOK
  <2>3. HeldRight(w)'
    BY <1>2, <2>1, <2>2 DEF HeldRight, Tried, Sent, JobPair
  <2> QED
    BY <1>1, <2>1, <2>3, LocalSent
<1> QED
  <2>1. CASE Publish(w)
    BY <1>4, <2>1 DEF Publish
  <2>2. CASE RecordResult(w) \/ Mark(w)
    BY <1>3, <1>6, <1>7, <2>2
  <2>3. CASE StatementFails(w) \/ MarkFails(w) \/ WorkerCrash(w)
    BY <1>3, <1>4, <2>3 DEF StatementFails, MarkFails, WorkerCrash
  <2>4. CASE FetchAccount(w) \/ FetchService(w) \/ FetchText(w) \/ FetchOriginal(w)
    BY <1>3, <1>4, <1>5, <2>4
       DEF FetchAccount, FetchService, FetchText, FetchOriginal, UseContent
  <2> QED
    BY <2>1, <2>2, <2>3, <2>4

(***************************************************************************)
(* The provider accepts: one attempt more is used, and nobody else has a   *)
(* job of that row.                                                        *)
(***************************************************************************)
LEMMA AcceptedSent ==
  ASSUME Inv, SentRight, NEW w \in Workers, UNCHANGED schedulerVars, Publish(w),
         Accepted(job[w].post, job[w].account)
  PROVE  SentRight'
<1> DEFINE p == job[w].post
           a == job[w].account
<1>1. /\ pc[w] = "publish" /\ w \in Busy
      /\ UNCHANGED <<posts, rowVars, queue, left>>
      /\ sent' = [sent EXCEPT ![p][a] = @ + 1]
  BY DEF Publish, Accepted, Busy, schedulerVars
<1>2. /\ p \in Posts /\ a \in Accounts
      /\ JobPair(job[w]) = <<p, a>>
      /\ Sent(<<p, a>>) = sent[p][a] /\ sent[p][a] \in Nat
      /\ job[w].attempt \in 1..MaxAttempts
  BY <1>1, HeldJob
<1>3. /\ sent'[p][a] = sent[p][a] + 1
      /\ \A q \in Posts, b \in Accounts : <<q, b>> # <<p, a>> => sent'[q][b] = sent[q][b]
  BY <1>1, <1>2 DEF Inv, TypeOK, StoreTypeOK
<1>4. sent[p][a] <= job[w].attempt - 1
  BY <1>1, <1>2 DEF SentRight, HeldSent, HeldRight, Tried
<1>5. posts[p].sched = ScheduleRunning
  BY <1>1, <1>2 DEF Inv, JobsOpen, Open
<1>6. RowsSent'
  <2> SUFFICES ASSUME NEW q \in Posts, NEW b \in Accounts
               PROVE  /\ sent'[q][b] <= MaxAttempts
                      /\ posts[q].sched = SchedulePending => sent'[q][b] = 0
                      /\ b \in posted[q] => sent'[q][b] > 0
    BY <1>1 DEF RowsSent, rowVars
  <2>1. CASE <<q, b>> = <<p, a>>
    BY <1>2, <1>3, <1>4, <1>5, <2>1 DEF MaxAttempts, SchedulePending, ScheduleRunning
  <2>2. CASE <<q, b>> # <<p, a>>
    BY <1>3, <2>2 DEF SentRight, RowsSent
  <2> QED
    BY <2>1, <2>2
<1>7. \A pair \in Posts \X Accounts : pair # <<p, a>> => Sent(pair)' = Sent(pair)
  BY <1>3 DEF Sent
<1>8. LeftSent'
  <2> SUFFICES ASSUME NEW s \in Schedulers, NEW pair \in left[s] PROVE Sent(pair)' = 0
    BY <1>1 DEF LeftSent
  <2>1. pair \in Posts \X Accounts /\ pair # <<p, a>>
    BY <1>1, <1>2 DEF Inv, TypeOK, SchedulerTypeOK, JobsApart
  <2> QED
    BY <1>7, <2>1 DEF SentRight, LeftSent
<1>9. QueueSent'
  <2> SUFFICES ASSUME NEW i \in 1..Len(queue)
               PROVE  Sent(JobPair(queue[i]))' < queue[i].attempt
    BY <1>1 DEF QueueSent, JobPair, Sent
  <2>1. queue[i] \in Jobs
    BY DEF Inv, TypeOK, StoreTypeOK
  <2>2. JobPair(queue[i]) \in Posts \X Accounts
    BY <2>1 DEF JobPair, Jobs
  <2>3. JobPair(queue[i]) # <<p, a>>
    BY <1>1, <1>2 DEF Inv, JobsApart
  <2>4. sent'[queue[i].post][queue[i].account] = sent[queue[i].post][queue[i].account]
    BY <1>3, <2>1, <2>3 DEF JobPair, Jobs
  <2> QED
    BY <1>1, <2>4 DEF SentRight, QueueSent, Sent, JobPair
<1>10. HeldSent'
  <2> SUFFICES ASSUME NEW v \in Workers PROVE HeldRight(v)'
    BY DEF HeldSent
  <2>1. OthersRest(w) /\ job'[w] = job[w] /\ pc'[w] \in {"record", "error"}
    BY GotoLocal, ReturnErrorLocal DEF Publish, Inv, TypeOK, WorkerTypeOK, Goto, ReturnError
  <2>2. CASE v = w
    BY <1>2, <1>3, <1>4, <2>1, <2>2 DEF HeldRight, Tried, Sent, JobPair
  <2>3. CASE v # w
    <3>1. pc'[v] = pc[v] /\ job'[v] = job[v] /\ tx'[v] = tx[v] /\ HeldRight(v)
      BY <2>1, <2>3 DEF OthersRest, SentRight, HeldSent
    <3>2. CASE pc[v] = "idle"
      BY <3>1, <3>2 DEF HeldRight
    <3>3. CASE pc[v] # "idle"
      <4>1. /\ job[v].post \in Posts /\ job[v].account \in Accounts
            /\ <<job[v].post, job[v].account>> # <<p, a>>
        BY <1>1, <1>2, <2>3, <3>3, HeldJob DEF Inv, JobsApart, Busy
      <4>2. sent'[job[v].post][job[v].account] = sent[job[v].post][job[v].account]
        BY <1>3, <4>1
      <4> QED
        BY <3>1, <4>2 DEF HeldRight, Tried, Sent, JobPair
    <3> QED
      BY <3>2, <3>3
  <2> QED
    BY <2>2, <2>3
<1> QED
  BY <1>6, <1>8, <1>9, <1>10 DEF SentRight

\* The job of the queue's head passes to w, with its attempt still to make.
LEMMA PopSent ==
  ASSUME Inv, SentRight, NEW w \in Workers, UNCHANGED schedulerVars, BRPop(w)
  PROVE  SentRight'
<1>1. /\ queue \in Seq(Jobs) /\ queue # <<>> /\ queue' = Tail(queue)
      /\ job'[w] = queue[1] /\ pc'[w] = "fetch"
      /\ OthersRest(w)
      /\ UNCHANGED <<posts, rowVars, sent, left>>
  BY DEF BRPop, OthersRest, Inv, TypeOK, StoreTypeOK, WorkerTypeOK, schedulerVars
<1>2. /\ Len(queue) \in Nat /\ 1 \in 1..Len(queue)
      /\ \A i \in 1..Len(queue') : queue'[i] = queue[i + 1] /\ i + 1 \in 1..Len(queue)
  BY <1>1
<1>3. RowsSent' /\ LeftSent'
  BY <1>1 DEF SentRight, RowsSent, LeftSent, Sent, rowVars
<1>4. QueueSent'
  BY <1>1, <1>2 DEF SentRight, QueueSent, Sent, JobPair
<1>5. queue[1] \in Jobs
  BY <1>1, <1>2
<1>6. /\ queue[1].attempt \in 1..MaxAttempts
      /\ sent[queue[1].post][queue[1].account] \in Nat
      /\ sent[queue[1].post][queue[1].account] < queue[1].attempt
  BY <1>2, <1>5 DEF Jobs, Inv, TypeOK, StoreTypeOK, SentRight, QueueSent, Sent, JobPair
<1>7. HeldRight(w)'
  BY <1>1, <1>6 DEF HeldRight, Tried, Sent, JobPair, MaxAttempts
<1> QED
  BY <1>1, <1>3, <1>4, <1>7, OthersHeld DEF SentRight

\* A failed attempt is over; the job goes back with the next one.
LEMMA RetrySent ==
  ASSUME Inv, SentRight, NEW w \in Workers, UNCHANGED schedulerVars,
         Retry(w) \/ RetryFails(w)
  PROVE  SentRight'
<1>1. /\ Idle(w) /\ pc[w] = "error" /\ job[w].attempt < MaxAttempts
      /\ queue' = queue \/ queue' = Append(queue, NextAttempt(job[w]))
      /\ UNCHANGED <<posts, rowVars, sent, left>>
  BY DEF Retry, RetryFails, LPushFails, LPush, MayRetry, schedulerVars
<1>2. OthersRest(w) /\ pc'[w] = "idle"
  BY <1>1, IdleLocal DEF Inv
<1>3. HeldSent'
  BY <1>1, <1>2, OthersHeld DEF HeldRight, SentRight
<1>4. RowsSent' /\ LeftSent'
  BY <1>1 DEF SentRight, RowsSent, LeftSent, Sent, rowVars
<1>5. CASE queue' = queue
  BY <1>1, <1>3, <1>4, <1>5 DEF SentRight, QueueSent, Sent, JobPair
<1>6. CASE queue' = Append(queue, NextAttempt(job[w]))
  <2>1. /\ job[w] \in Jobs /\ job[w].attempt \in 1..MaxAttempts
        /\ Sent(JobPair(job[w])) \in Nat
    BY <1>1, HeldJob
  <2>2. Sent(JobPair(job[w])) <= job[w].attempt
    BY <1>1 DEF SentRight, HeldSent, HeldRight, Tried
  <2>3. /\ NextAttempt(job[w]) \in Jobs
        /\ JobPair(NextAttempt(job[w])) = JobPair(job[w])
        /\ NextAttempt(job[w]).attempt = job[w].attempt + 1
    BY <1>1, <2>1, NextAttemptType DEF NextAttempt, JobPair, Jobs
  <2>4. Sent(JobPair(NextAttempt(job[w]))) < NextAttempt(job[w]).attempt
    BY <2>1, <2>2, <2>3 DEF MaxAttempts
  <2>5. queue \in Seq(Jobs)
    BY DEF Inv, TypeOK, StoreTypeOK
  <2> QED
    BY <1>1, <1>3, <1>4, <1>6, <2>3, <2>4, <2>5, QueuedSent DEF SentRight
<1> QED
  BY <1>1, <1>5, <1>6

\* COMMIT records as posted only what was accepted.
LEMMA CommitSent ==
  ASSUME Inv, SentRight, NEW w \in Workers, UNCHANGED schedulerVars,
         Commit(w) \/ CommitMark(w)
  PROVE  SentRight'
<1>1. PICK p, a, v : p = job[w].post /\ a = job[w].account /\ v = tx[w].verdict
  OBVIOUS
<1>2. /\ Idle(w) /\ pc[w] \in {"commit", "markcommit"}
      /\ p \in Posts /\ a \in Accounts
      /\ tx[w].row \in {"posted", "errored"}
      /\ v \in {"none", "published", "failed"}
      /\ posts[p] \in PostRow /\ posts[p].sched = ScheduleRunning
      /\ posts'[p] = Finalized(posts[p], v)
      /\ \A q \in Posts : q # p => posts'[q] = posts[q] /\ posted'[q] = posted[q]
      /\ tx[w].row = "posted" => posted'[p] = posted[p] \cup {a}
      /\ tx[w].row = "errored" => posted'[p] = posted[p]
      /\ UNCHANGED queue
  BY <1>1, CommitEffect
<1>3. UNCHANGED <<sent, left>>
  BY DEF Commit, CommitMark, Apply, schedulerVars
<1>4. HeldSent'
  BY <1>2, <1>3, IdleLocal, OthersHeld DEF Inv, HeldRight, SentRight
<1>5. posts'[p].sched # SchedulePending
  BY <1>2, FinalizedRow DEF SchedulePending, ScheduleRunning, ScheduleComplete
<1>6. tx[w].row = "posted" => sent[p][a] > 0
  BY <1>1, <1>2 DEF SentRight, HeldSent, HeldRight, Sent, JobPair
<1>7. RowsSent'
  <2> SUFFICES ASSUME NEW q \in Posts, NEW b \in Accounts
               PROVE  /\ sent[q][b] <= MaxAttempts
                      /\ posts'[q].sched = SchedulePending => sent[q][b] = 0
                      /\ b \in posted'[q] => sent[q][b] > 0
    BY <1>3 DEF RowsSent
  <2> QED
    BY <1>2, <1>5, <1>6 DEF SentRight, RowsSent
<1>8. LeftSent' /\ QueueSent'
  BY <1>2, <1>3 DEF SentRight, LeftSent, QueueSent, Sent, JobPair
<1> QED
  BY <1>4, <1>7, <1>8 DEF SentRight

-----------------------------------------------------------------------------
\* Steps of a scheduler: a post that is claimed had nothing accepted yet.
LEMMA SchedulerSent ==
  ASSUME Inv, SentRight, NEW s \in Schedulers, UNCHANGED workerVars, NoDuplicates,
         SchedulerStep(s) \/ SchedulerFault(s)
  PROVE  SentRight'
<1>1. UNCHANGED <<sent, rowVars, pc, job, tx>>
  BY DEF NoDuplicates, SchedulerStep, SchedulerFault, Scan, SkipClaim, Claim, Push, ClaimFails,
         ClaimUnknown, PushDup, PushFails, SchedulerCrash, storeVars, workerVars
<1>2. HeldSent'
  BY <1>1 DEF SentRight, HeldSent, HeldRight, Tried, Sent, JobPair
<1>3. CASE \E p \in Posts : Claim(s, p)
  <2>1. PICK p \in Posts : Claim(s, p)
    BY <1>3
  <2>2. /\ posts[p].sched = SchedulePending /\ posts[p] \in PostRow
        /\ posts' = [posts EXCEPT ![p] = Claimed(p)]
        /\ left' = [left EXCEPT ![s] = {p} \X attached[p]]
        /\ UNCHANGED queue
        /\ attached[p] \subseteq Accounts
    BY <2>1 DEF Claim, IsClaimable, Inv, TypeOK, StoreTypeOK
  <2>3. Claimed(p).sched # SchedulePending
    BY <2>2, ClaimedRow DEF SchedulePending, ScheduleRunning, ScheduleComplete
  <2>4. RowsSent'
    BY <1>1, <2>2, <2>3 DEF SentRight, RowsSent, rowVars, Inv, TypeOK, StoreTypeOK
  <2>5. LeftSent'
    <3> SUFFICES ASSUME NEW t \in Schedulers, NEW pair \in left'[t] PROVE Sent(pair) = 0
      BY <1>1 DEF LeftSent, Sent
    <3>1. CASE t = s
      <4>1. pair \in {p} \X attached[p]
        BY <2>2, <3>1 DEF Inv, TypeOK, SchedulerTypeOK
      <4> QED
        BY <2>2, <4>1 DEF SentRight, RowsSent, Sent
    <3>2. CASE t # s
      BY <2>2, <3>2 DEF SentRight, LeftSent, Inv, TypeOK, SchedulerTypeOK
    <3> QED
      BY <3>1, <3>2
  <2>6. QueueSent'
    BY <1>1, <2>2 DEF SentRight, QueueSent, Sent, JobPair
  <2> QED
    BY <1>2, <2>4, <2>5, <2>6 DEF SentRight
<1>4. ASSUME UNCHANGED posts, \A t \in Schedulers : left'[t] \subseteq left[t]
      PROVE  RowsSent' /\ LeftSent'
  BY <1>1, <1>4 DEF SentRight, RowsSent, LeftSent, Sent, rowVars
<1>5. CASE Push(s) \/ PushFails(s)
  <2>1. PICK pair \in left[s] :
          /\ queue' = queue \/ queue' = Append(queue, FirstJob(pair))
          /\ left' = [left EXCEPT ![s] = @ \ {pair}] \/ left' = [left EXCEPT ![s] = {}]
    BY <1>5 DEF Push, PushFails, LPush, LPushFails, AbandonScan
  <2>2. UNCHANGED posts /\ \A t \in Schedulers : left'[t] \subseteq left[t]
    BY <1>5, <2>1 DEF Push, PushFails, Inv, TypeOK, SchedulerTypeOK
  <2>3. CASE queue' = queue
    BY <1>1, <1>2, <1>4, <2>2, <2>3 DEF SentRight, QueueSent, Sent, JobPair
  <2>4. CASE queue' = Append(queue, FirstJob(pair))
    <3>1. pair \in Posts \X Accounts /\ Sent(pair) = 0
      BY DEF Inv, TypeOK, SchedulerTypeOK, SentRight, LeftSent
    <3>2. /\ FirstJob(pair) \in Jobs /\ FirstJob(pair).attempt = 1
          /\ JobPair(FirstJob(pair)) = pair
      BY <3>1, FirstJobType DEF FirstJob, JobPair
    <3>3. queue \in Seq(Jobs)
      BY DEF Inv, TypeOK, StoreTypeOK
    <3>4. Sent(JobPair(FirstJob(pair))) < FirstJob(pair).attempt
      BY <3>1, <3>2
    <3> HIDE DEF FirstJob
    <3>5. QueueSent'
      BY <1>1, <2>4, <3>2, <3>3, <3>4, QueuedSent DEF SentRight
    <3> QED
      BY <1>2, <1>4, <2>2, <3>5 DEF SentRight
  <2> QED
    BY <2>1, <2>3, <2>4
<1>6. CASE Scan(s) \/ (\E p \in Posts : SkipClaim(s, p)) \/ ClaimFails(s)
           \/ SchedulerCrash(s)
  <2>1. UNCHANGED <<posts, queue>> /\ \A t \in Schedulers : left'[t] \subseteq left[t]
    BY <1>6 DEF Scan, SkipClaim, ClaimFails, SchedulerCrash, AbandonScan, storeVars,
                Inv, TypeOK, SchedulerTypeOK
  <2> QED
    BY <1>1, <1>2, <1>4, <2>1 DEF SentRight, QueueSent, Sent, JobPair
<1>7. ~PushDup(s) /\ \A p \in Posts : ~ClaimUnknown(s, p)
  BY DEF NoDuplicates, PushDup, ClaimUnknown
<1> QED
  BY <1>3, <1>5, <1>6, <1>7 DEF SchedulerStep, SchedulerFault

LEMMA WorkerSent ==
  ASSUME Inv, SentRight, NEW w \in Workers, UNCHANGED schedulerVars, NoDuplicates,
         WorkerStep(w) \/ WorkerFault(w)
  PROVE  SentRight'
<1>1. CASE Publish(w)
  <2>1. CASE Accepted(job[w].post, job[w].account)
    BY <1>1, <2>1, AcceptedSent
  <2>2. CASE UNCHANGED sent /\ ~Goto(w, "record")
    BY <1>1, <2>2, QuietSent
  <2>3. ASSUME NEW kind \in ErrKinds, ReturnError(w, kind) PROVE ~Goto(w, "record")
    BY <2>3 DEF ReturnError, Goto, Inv, TypeOK, WorkerTypeOK
  <2> QED
    BY <1>1, <2>1, <2>2, <2>3 DEF Publish, ErrKinds
<1>2. CASE \/ FetchAccount(w) \/ FetchService(w) \/ FetchText(w) \/ FetchOriginal(w)
           \/ RecordResult(w) \/ Mark(w)
           \/ StatementFails(w) \/ MarkFails(w) \/ WorkerCrash(w)
  <2>1. UNCHANGED sent
    BY <1>2 DEF FetchAccount, FetchService, FetchText, FetchOriginal, RecordResult, Mark,
                StatementFails, MarkFails, WorkerCrash, storeVars
  <2>2. pc[w] = "publish" => ~Goto(w, "record")
    BY <1>2 DEF FetchAccount, FetchService, FetchText, FetchOriginal, RecordResult, Mark,
                StatementFails, MarkFails, WorkerCrash, Idle, Goto, ReturnError, Inv, TypeOK,
                WorkerTypeOK
  <2> QED
    BY <1>2, <2>1, <2>2, QuietSent
<1>3. CASE BRPop(w)
  BY <1>3, PopSent
<1>4. CASE Retry(w) \/ RetryFails(w)
  BY <1>4, RetrySent
<1>5. CASE Commit(w) \/ CommitMark(w)
  BY <1>5, CommitSent
<1>6. ~CommitUnknown(w) /\ ~RetryDup(w)
  BY DEF NoDuplicates, CommitUnknown, RetryDup
<1> QED
  BY <1>1, <1>2, <1>3, <1>4, <1>5, <1>6 DEF WorkerStep, WorkerFault

\* The clock and the Redis server.
LEMMA StoreSent ==
  ASSUME Inv, SentRight, StoreNext, UNCHANGED <<schedulerVars, workerVars>>
  PROVE  SentRight'
<1>1. UNCHANGED <<sent, rowVars, left, pc, job, tx>>
  BY DEF StoreNext, RedisRestart, ComesDue, schedulerVars, workerVars
<1>2. HeldSent' /\ LeftSent'
  BY <1>1 DEF SentRight, HeldSent, HeldRight, Tried, LeftSent, Sent, JobPair
<1>3. CASE RedisRestart
  <2>1. RowsSent'
    BY <1>1, <1>3 DEF RedisRestart, SentRight, RowsSent, rowVars
  <2>2. Len(queue') = 0
    BY <1>3 DEF RedisRestart
  <2>3. QueueSent'
    BY <2>2 DEF QueueSent
  <2> QED
    BY <1>2, <2>1, <2>3 DEF SentRight
<1>4. ASSUME NEW p \in Posts, ComesDue(p) PROVE SentRight'
  <2>1. /\ posts' = [posts EXCEPT ![p] = [posts[p] EXCEPT !.at = "due"]]
        /\ UNCHANGED queue
    BY <1>4 DEF ComesDue
  <2>2. ASSUME NEW post \in PostRow
        PROVE  [post EXCEPT !.at = "due"].sched = post.sched
    BY DEF PostRow
  <2>3. \A q \in Posts : posts'[q].sched = posts[q].sched
    BY <2>1, <2>2 DEF Inv, TypeOK, StoreTypeOK
  <2> QED
    BY <1>1, <1>2, <2>1, <2>3 DEF SentRight, RowsSent, QueueSent, Sent, JobPair, rowVars
<1> QED
  BY <1>3, <1>4 DEF StoreNext

LEMMA NextSent == NoDuplicates /\ Inv /\ SentRight /\ [Next]_vars => SentRight'
<1> SUFFICES ASSUME NoDuplicates, Inv, SentRight, [Next]_vars PROVE SentRight'
  OBVIOUS
<1>1. CASE SchedulerNext /\ UNCHANGED workerVars
  BY <1>1, SchedulerSent DEF SchedulerNext
<1>2. CASE WorkerNext /\ UNCHANGED schedulerVars
  BY <1>2, WorkerSent DEF WorkerNext
<1>3. CASE StoreNext /\ UNCHANGED <<schedulerVars, workerVars>>
  BY <1>3, StoreSent
<1>4. CASE UNCHANGED vars
  BY <1>4 DEF vars, storeVars, rowVars, schedulerVars, workerVars, SentRight, RowsSent, LeftSent,
              QueueSent, HeldSent, HeldRight, Tried, Sent, JobPair
<1> QED
  BY <1>1, <1>2, <1>3, <1>4 DEF Next

(***************************************************************************)
(* No row costs the reader more publications than it has attempts, and     *)
(* what a row records as posted the provider has accepted.                 *)
(***************************************************************************)
THEOREM Delivery == ASSUME NoDuplicates PROVE Spec => []DeliveryBounded
<1>1. Init => SentRight
  BY InitSent
<1>2. Inv /\ SentRight /\ [Next]_vars => SentRight'
  BY NextSent
<1>3. SentRight => DeliveryBounded
  BY DEF SentRight, RowsSent, DeliveryBounded
<1> QED
  BY <1>1, <1>2, <1>3, InvInvariant, PTL DEF Spec
=============================================================================
