------------------------ MODULE PublishPipelineJobs ------------------------
(***************************************************************************)
(* Where the jobs of a running post are.  Results that need no promise     *)
(* about duplicated pushes or commits in doubt: with a single worker a     *)
(* post has the final status its rows call for, as soon as the last of     *)
(* them is settled, and as long as nothing is lost no row of a running     *)
(* post is without its job.                                                *)
(***************************************************************************)
EXTENDS PublishPipelineSafety

(***************************************************************************)
(* The pairs whose job somebody has: the same pairs as those with a        *)
(* holder, as a set that can be followed through a step.                   *)
(***************************************************************************)
QueuePairs  == {JobPair(queue[i]) : i \in 1..Len(queue)}
WorkerPairs == {JobPair(job[w]) : w \in Busy}
LeftPairs   == UNION {left[s] : s \in Schedulers}
Carried     == QueuePairs \cup WorkerPairs \cup LeftPairs

\* The claim of post p was committed.
Started(p) == posts[p].sched # SchedulePending

\* Nobody has a job of a post that was not claimed.
JobsStarted == \A pair \in Carried : Started(pair[1])

\* A post that was not claimed has no outcome.
WaitingIsBare ==
  \A p \in Posts : ~Started(p) => posted[p] = {} /\ errored[p] = {}

LifeInv == TypeOK /\ WorkerShape /\ JobsStarted /\ WaitingIsBare

(***************************************************************************)
(* With one worker the verdict about to be committed is the one the rows   *)
(* will call for after the commit: nobody changes them in between.  That   *)
(* is what a second worker can spoil.  A job sent twice is then harmless:  *)
(* its second run counts the same rows again.                              *)
(***************************************************************************)
OneWorker == \A v, w \in Workers : v = w

VerdictsExact ==
  \A w \in Workers :
    pc[w] \in {"commit", "markcommit"} =>
      LET p == job[w].post
      IN  tx[w].verdict = Verdict(attached[p], PostedAfter(w)[p], ErroredAfter(w)[p])

\* Jobs and outcomes belong to rows of post_accounts that exist.
JobsAttached == \A pair \in Carried : pair[2] \in attached[pair[1]]

OutcomesAttached == \A p \in Posts : posted[p] \cup errored[p] \subseteq attached[p]

RowsFinal == OutcomesAttached /\ FinalStatusCorrect /\ SettledIsFinal

SettleInv == LifeInv /\ JobsAttached /\ VerdictsExact /\ RowsFinal

(***************************************************************************)
(* Of the failures only the duplicated push loses no job.  A worker about  *)
(* to commit a mark without a row settles nothing: it found no row, and if *)
(* a client has attached the account anew since, that row must have a job  *)
(* of its own.  Kept are the pairs whose job will settle their row.        *)
(***************************************************************************)
NoLosses == Faults \subseteq {"dup"}

WillSettle(w) == pc[w] = "markcommit" => tx[w].row # "none"

SettlingPairs == {JobPair(job[w]) : w \in {v \in Busy : WillSettle(v)}}

Kept == QueuePairs \cup SettlingPairs \cup LeftPairs

\* More than RunningHasJobs, and kept by every step.
OpenKept == \A pair \in Pairs : Open(pair) => pair \in Kept

CarryInv == TypeOK /\ WorkerShape /\ OpenKept
-----------------------------------------------------------------------------
(***************************************************************************)
(* The queue: what is appended joins the pairs, what is popped may leave.  *)
(***************************************************************************)
LEMMA QueuedItems ==
  ASSUME NEW q \in Seq(Jobs), NEW j \in Jobs, NEW r,
         r = Append(q, j) \/ r = q \o <<j, j>>
  PROVE  /\ \A i \in 1..Len(q) : i \in 1..Len(r) /\ r[i] = q[i]
         /\ \A i \in 1..Len(r) : i \in 1..Len(q) \/ r[i] = j
         /\ Len(q) + 1 \in 1..Len(r) /\ r[Len(q) + 1] = j
<1>1. CASE r = Append(q, j)
  BY <1>1
<1>2. CASE r = q \o <<j, j>>
  <2>1. <<j, j>> \in Seq(Jobs) /\ Len(<<j, j>>) = 2
        /\ <<j, j>>[1] = j /\ <<j, j>>[2] = j
    OBVIOUS
  <2>2. /\ Len(q) \in Nat /\ Len(r) = Len(q) + 2
        /\ \A i \in 1..Len(q) : r[i] = q[i]
        /\ r[Len(q) + 1] = j /\ r[Len(q) + 2] = j
    BY <1>2, <2>1
  <2>3. \A i \in 1..Len(r) : i \in 1..Len(q) \/ i = Len(q) + 1 \/ i = Len(q) + 2
    BY <2>2
  <2> QED
    BY <2>2, <2>3
<1> QED
  BY <1>1, <1>2

LEMMA Pushed ==
  ASSUME TypeOK, NEW j \in Jobs, LPush(j) \/ LPushDup(j)
  PROVE  QueuePairs' = QueuePairs \cup {JobPair(j)}
<1>1. queue' = Append(queue, j) \/ queue' = queue \o <<j, j>>
  BY DEF LPush, LPushDup
<1>2. queue \in Seq(Jobs)
  BY DEF TypeOK, StoreTypeOK
<1>3. /\ \A i \in 1..Len(queue) : i \in 1..Len(queue') /\ queue'[i] = queue[i]
      /\ \A i \in 1..Len(queue') : i \in 1..Len(queue) \/ queue'[i] = j
      /\ Len(queue) + 1 \in 1..Len(queue') /\ queue'[Len(queue) + 1] = j
  BY <1>1, <1>2, QueuedItems
<1>4. QueuePairs' = {JobPair(queue'[i]) : i \in 1..Len(queue')}
  BY DEF QueuePairs, JobPair
<1> HIDE DEF JobPair
<1>5. ASSUME NEW i \in 1..Len(queue)
      PROVE  JobPair(queue[i]) \in {JobPair(queue'[k]) : k \in 1..Len(queue')}
  BY <1>3
<1>6. JobPair(j) \in {JobPair(queue'[k]) : k \in 1..Len(queue')}
  BY <1>3
<1>7. ASSUME NEW i \in 1..Len(queue')
      PROVE  JobPair(queue'[i]) \in QueuePairs \cup {JobPair(j)}
  BY <1>3 DEF QueuePairs
<1> QED
  BY <1>4, <1>5, <1>6, <1>7 DEF QueuePairs

LEMMA PushedOrNot ==
  ASSUME TypeOK, NEW j \in Jobs, LPushFails(j)
  PROVE  QueuePairs' \subseteq QueuePairs \cup {JobPair(j)}
<1>1. CASE queue' = queue
  BY <1>1 DEF QueuePairs
<1>2. CASE LPush(j)
  BY <1>2, Pushed
<1> QED
  BY <1>1, <1>2 DEF LPushFails

LEMMA Popped ==
  ASSUME TypeOK, queue # <<>>, queue' = Tail(queue)
  PROVE  QueuePairs = QueuePairs' \cup {JobPair(Head(queue))}
<1>1. /\ queue \in Seq(Jobs)
      /\ Len(queue) \in Nat /\ Len(queue) >= 1
      /\ Len(queue') = Len(queue) - 1
      /\ \A i \in 1..Len(queue') : queue'[i] = queue[i + 1]
      /\ Head(queue) = queue[1]
  BY DEF TypeOK, StoreTypeOK
<1>2. /\ \A i \in 1..Len(queue') : i + 1 \in 1..Len(queue)
      /\ \A i \in 1..Len(queue) : i = 1 \/ (i - 1 \in 1..Len(queue') /\ (i - 1) + 1 = i)
      /\ 1 \in 1..Len(queue)
  BY <1>1
<1>3. QueuePairs' \subseteq QueuePairs /\ JobPair(Head(queue)) \in QueuePairs
  BY <1>1, <1>2 DEF QueuePairs, JobPair
<1>4. ASSUME NEW i \in 1..Len(queue)
      PROVE  JobPair(queue[i]) \in QueuePairs' \cup {JobPair(Head(queue))}
  <2>1. CASE i = 1
    BY <1>1, <2>1
  <2>2. CASE i # 1
    <3>1. i - 1 \in 1..Len(queue') /\ queue'[i - 1] = queue[i]
      BY <1>1, <1>2, <2>2
    <3> QED
      BY <3>1 DEF QueuePairs, JobPair
  <2> QED
    BY <2>1, <2>2
<1>5. QueuePairs \subseteq QueuePairs' \cup {JobPair(Head(queue))}
  BY <1>4 DEF QueuePairs
<1> QED
  BY <1>3, <1>5

\* A holder is a place where the pair is carried.
LEMMA HeldIsCarried ==
  ASSUME TypeOK, WorkerShape, NEW pair
  PROVE  Holders(pair) # {} <=> pair \in Carried
<1>1. DOMAIN queue = 1..Len(queue)
  BY DEF TypeOK, StoreTypeOK
<1>2. \A w \in Workers : job[w] # NoJob <=> w \in Busy
  BY DEF WorkerShape, Busy
<1>3. ASSUME Holders(pair) # {} PROVE pair \in Carried
  BY <1>1, <1>2, <1>3 DEF Holders, Carried, QueuePairs, WorkerPairs, LeftPairs
<1>4. ASSUME pair \in Carried PROVE Holders(pair) # {}
  <2>1. CASE pair \in QueuePairs
    <3>1. PICK i \in 1..Len(queue) : JobPair(queue[i]) = pair
      BY <2>1 DEF QueuePairs
    <3>2. <<"queue", i>> \in Holders(pair)
      BY <1>1, <3>1 DEF Holders
    <3> QED
      BY <3>2
  <2>2. CASE pair \in WorkerPairs
    <3>1. PICK w \in Busy : JobPair(job[w]) = pair
      BY <2>2 DEF WorkerPairs
    <3>2. <<"worker", w>> \in Holders(pair)
      BY <1>2, <3>1 DEF Holders, Busy
    <3> QED
      BY <3>2
  <2>3. CASE pair \in LeftPairs
    <3>1. PICK s \in Schedulers : pair \in left[s]
      BY <2>3 DEF LeftPairs
    <3>2. <<"scheduler", s>> \in Holders(pair)
      BY <3>1 DEF Holders
    <3> QED
      BY <3>2
  <2> QED
    BY <1>4, <2>1, <2>2, <2>3 DEF Carried
<1> QED
  BY <1>3, <1>4
-----------------------------------------------------------------------------
(***************************************************************************)
(* Steps of a scheduler: only a claim makes jobs, for the post it starts.  *)
(***************************************************************************)
LEMMA ScheduleValues ==
  /\ SchedulePending # ScheduleRunning
  /\ SchedulePending # ScheduleComplete
  /\ ScheduleRunning # ScheduleComplete
BY DEF SchedulePending, ScheduleRunning, ScheduleComplete

\* What a claim, known to have succeeded or not, does to post p.
LEMMA ClaimStarts ==
  ASSUME TypeOK, NEW p \in Posts, posts' = [posts EXCEPT ![p] = Claimed(p)]
  PROVE  /\ Started(p)'
         /\ posts'[p].sched = ScheduleRunning => attached[p] # {}
         /\ \A q \in Posts \ {p} : posts'[q] = posts[q]
<1>1. posts'[p] = Claimed(p) /\ \A q \in Posts \ {p} : posts'[q] = posts[q]
  BY DEF TypeOK, StoreTypeOK
<1>2. posts[p] \in PostRow
  BY DEF TypeOK, StoreTypeOK
<1> QED
  BY <1>1, <1>2, ClaimedRow, ScheduleValues DEF Started

LEMMA SchedulerFrame ==
  ASSUME TypeOK, NEW s \in Schedulers, SchedulerStep(s) \/ SchedulerFault(s)
  PROVE  /\ UNCHANGED rowVars
         /\ \/ UNCHANGED posts
            \/ \E p \in Posts : /\ IsClaimable(posts[p])
                                /\ posts' = [posts EXCEPT ![p] = Claimed(p)]
BY DEF SchedulerStep, SchedulerFault, Scan, SkipClaim, Claim, Push, ClaimFails,
       ClaimUnknown, PushDup, PushFails, SchedulerCrash, storeVars, rowVars

LEMMA ItemPair ==
  ASSUME TypeOK, NEW s \in Schedulers, NEW pair \in left[s]
  PROVE  FirstJob(pair) \in Jobs /\ JobPair(FirstJob(pair)) = pair
<1>1. pair \in Posts \X Accounts
  BY DEF TypeOK, SchedulerTypeOK
<1> QED
  BY <1>1, FirstJobType DEF FirstJob, JobPair

LEMMA LeftOver ==
  ASSUME TypeOK, NEW s \in Schedulers, NEW S, left' = [left EXCEPT ![s] = S]
  PROVE  LeftPairs \subseteq LeftPairs' \cup left[s] /\ LeftPairs' \subseteq LeftPairs \cup S
<1>1. left'[s] = S /\ \A t \in Schedulers \ {s} : left'[t] = left[t]
  BY DEF TypeOK, SchedulerTypeOK
<1>2. ASSUME NEW pair \in LeftPairs PROVE pair \in LeftPairs' \cup left[s]
  <2>1. PICK t \in Schedulers : pair \in left[t]
    BY DEF LeftPairs
  <2> QED
    BY <1>1, <2>1 DEF LeftPairs
<1>3. ASSUME NEW pair \in LeftPairs' PROVE pair \in LeftPairs \cup S
  <2>1. PICK t \in Schedulers : pair \in left'[t]
    BY DEF LeftPairs
  <2> QED
    BY <1>1, <2>1 DEF LeftPairs
<1> QED
  BY <1>2, <1>3

LEMMA SchedulerPairs ==
  ASSUME TypeOK, NEW s \in Schedulers, SchedulerStep(s) \/ SchedulerFault(s),
         UNCHANGED workerVars
  PROVE  \A pair \in Carried' :
           pair \in Carried \/ (Started(pair[1])' /\ pair[2] \in attached[pair[1]])
<1>0. WorkerPairs' = WorkerPairs
  BY DEF WorkerPairs, Busy, JobPair, workerVars
<1>1. left[s] \subseteq LeftPairs
  BY DEF LeftPairs
<1>2. CASE Scan(s) \/ \E p \in Posts : SkipClaim(s, p)
  <2>1. UNCHANGED <<queue, left>>
    BY <1>2 DEF Scan, SkipClaim, storeVars
  <2> QED
    BY <1>0, <2>1 DEF Carried, QueuePairs, LeftPairs
<1>3. ASSUME NEW p \in Posts, Claim(s, p)
      PROVE  \A pair \in Carried' :
               pair \in Carried \/ (Started(pair[1])' /\ pair[2] \in attached[pair[1]])
  <2>1. QueuePairs' = QueuePairs
    BY <1>3 DEF Claim, QueuePairs
  <2>2. LeftPairs' \subseteq LeftPairs \cup ({p} \X attached[p])
    BY <1>3, LeftOver DEF Claim
  <2>3. Started(p)'
    BY <1>3, ClaimStarts DEF Claim
  <2>4. \A pair \in {p} \X attached[p] : pair[1] = p /\ pair[2] \in attached[p]
    OBVIOUS
  <2> QED
    BY <1>0, <2>1, <2>2, <2>3, <2>4 DEF Carried
<1>4. CASE \/ ClaimFails(s) \/ SchedulerCrash(s)
           \/ \E p \in Posts : ClaimUnknown(s, p)
  <2>1. UNCHANGED queue /\ left' = [left EXCEPT ![s] = {}]
    BY <1>4 DEF ClaimFails, SchedulerCrash, ClaimUnknown, AbandonScan, storeVars
  <2>2. LeftPairs' \subseteq LeftPairs \cup {} /\ QueuePairs' = QueuePairs
    BY <2>1, LeftOver DEF QueuePairs
  <2> QED
    BY <1>0, <2>2 DEF Carried
<1>5. CASE Push(s) \/ PushDup(s)
  <2>1. PICK pair \in left[s] : /\ LPush(FirstJob(pair)) \/ LPushDup(FirstJob(pair))
                                /\ left' = [left EXCEPT ![s] = @ \ {pair}]
    BY <1>5 DEF Push, PushDup
  <2>2. QueuePairs' = QueuePairs \cup {pair}
    BY <2>1, ItemPair, Pushed
  <2>3. LeftPairs' \subseteq LeftPairs \cup (left[s] \ {pair})
    BY <2>1, LeftOver
  <2> QED
    BY <1>0, <1>1, <2>2, <2>3 DEF Carried
<1>6. CASE PushFails(s)
  <2>1. PICK pair \in left[s] : LPushFails(FirstJob(pair))
    BY <1>6 DEF PushFails
  <2>2. QueuePairs' \subseteq QueuePairs \cup {pair}
    BY <2>1, ItemPair, PushedOrNot
  <2>3. LeftPairs' \subseteq LeftPairs \cup {}
    BY <1>6, LeftOver DEF PushFails, AbandonScan
  <2> QED
    BY <1>0, <1>1, <2>2, <2>3 DEF Carried
<1> QED
  BY <1>2, <1>3, <1>4, <1>5, <1>6 DEF SchedulerStep, SchedulerFault
-----------------------------------------------------------------------------
(***************************************************************************)
(* Steps of a worker make no job that nobody had.                          *)
(***************************************************************************)
LEMMA WorkerFrame ==
  ASSUME NEW w \in Workers, WorkerStep(w) \/ WorkerFault(w)
  PROVE  \/ UNCHANGED <<posts, rowVars>>
         \/ /\ pc[w] \in {"commit", "markcommit"}
            /\ Apply(w)
            /\ Commit(w) \/ CommitUnknown(w) \/ CommitMark(w)
BY DEF WorkerStep, WorkerFault, BRPop, FetchAccount, FetchService, FetchText, FetchOriginal,
       Publish, RecordResult, Commit, Retry, Mark, CommitMark, CommitUnknown,
       StatementFails, RetryFails, RetryDup, MarkFails, WorkerCrash, storeVars, rowVars

LEMMA BusyJob ==
  ASSUME TypeOK, WorkerShape, NEW w \in Busy
  PROVE  /\ w \in Workers /\ job[w] \in Jobs
         /\ job[w].post \in Posts /\ job[w].account \in Accounts
         /\ JobPair(job[w]) \in WorkerPairs
BY DEF TypeOK, WorkerTypeOK, WorkerShape, Busy, WorkerPairs, Jobs

\* w goes on with its job or gives it up; the others rest.
LEMMA WorkerLeaves ==
  ASSUME TypeOK, WorkerShape, NEW w \in Workers, OthersRest(w),
         pc'[w] # "idle" => pc[w] # "idle" /\ job'[w] = job[w]
  PROVE  /\ WorkerPairs' \subseteq WorkerPairs
         /\ w \in Busy => WorkerPairs \subseteq WorkerPairs' \cup {JobPair(job[w])}
         /\ pc'[w] # "idle" => WorkerPairs' = WorkerPairs
<1> HIDE DEF JobPair
<1>1. /\ Busy' \subseteq Busy
      /\ \A v \in Busy' : job'[v] = job[v]
      /\ Busy \ {w} \subseteq Busy'
      /\ pc'[w] # "idle" => Busy' = Busy
  BY DEF Busy, OthersRest
<1>2. WorkerPairs' = {JobPair(job'[v]) : v \in Busy'}
  BY DEF WorkerPairs, JobPair
<1> QED
  BY <1>1, <1>2 DEF WorkerPairs

LEMMA RetriedPair ==
  ASSUME TypeOK, WorkerShape, NEW w \in Workers, MayRetry(w)
  PROVE  /\ w \in Busy /\ NextAttempt(job[w]) \in Jobs
         /\ JobPair(NextAttempt(job[w])) = JobPair(job[w])
         /\ JobPair(job[w]) \in WorkerPairs
<1>1. w \in Busy /\ job[w].attempt < MaxAttempts
  BY DEF MayRetry, Busy
<1>2. job[w] \in Jobs
  BY <1>1, BusyJob
<1> QED
  BY <1>1, <1>2, BusyJob, NextAttemptType DEF NextAttempt, JobPair, Jobs

(***************************************************************************)
(* What becomes of the pairs of queue and workers when w takes a step: w   *)
(* pops, goes on, pushes its job again, or gives the job up.               *)
(***************************************************************************)
LEMMA WorkerMoves ==
  ASSUME TypeOK, WorkerShape, NEW w \in Workers, WorkerStep(w) \/ WorkerFault(w)
  PROVE  \/ BRPop(w)
         \/ Retry(w) \/ RetryFails(w) \/ RetryDup(w)
         \/ /\ UNCHANGED queue /\ OthersRest(w) /\ pc[w] # "idle"
            /\ pc'[w] # "idle" /\ job'[w] = job[w]
         \/ /\ UNCHANGED queue /\ Idle(w) /\ pc[w] # "idle"
            /\ \/ FetchAccount(w) \/ RecordResult(w) \/ Commit(w) \/ CommitMark(w)
               \/ MarkFails(w) \/ WorkerCrash(w)
<1>1. ASSUME NEW kind, ReturnError(w, kind), pc[w] # "idle"
      PROVE  OthersRest(w) /\ pc[w] # "idle" /\ pc'[w] # "idle" /\ job'[w] = job[w]
  BY <1>1, ReturnErrorLocal DEF ReturnError, TypeOK, WorkerTypeOK
<1>2. ASSUME NEW next \in {"service", "text", "original", "publish", "record"},
             Goto(w, next), pc[w] # "idle"
      PROVE  OthersRest(w) /\ pc[w] # "idle" /\ pc'[w] # "idle" /\ job'[w] = job[w]
  BY <1>2, GotoLocal DEF Goto, TypeOK, WorkerTypeOK
<1>3. CASE FetchAccount(w)
  BY <1>1, <1>2, <1>3 DEF FetchAccount, storeVars
<1>4. CASE FetchService(w) \/ FetchText(w) \/ FetchOriginal(w) \/ Publish(w)
           \/ CommitUnknown(w) \/ StatementFails(w)
  <2>1. UNCHANGED queue /\ pc[w] # "idle"
    BY <1>4 DEF FetchService, FetchText, FetchOriginal, Publish, CommitUnknown, StatementFails,
                Apply, storeVars
  <2>2. \/ \E next \in {"service", "text", "original", "publish", "record"} : Goto(w, next)
        \/ \E kind : ReturnError(w, kind)
    BY <1>4 DEF FetchService, FetchText, FetchOriginal, UseContent, Publish, CommitUnknown,
                StatementFails
  <2> QED
    BY <1>1, <1>2, <2>1, <2>2
<1>5. CASE RecordResult(w) \/ Mark(w)
  <2>1. UNCHANGED queue /\ pc[w] # "idle"
    BY <1>5 DEF RecordResult, Mark, storeVars
  <2>2. CASE Idle(w)
    BY <1>5, <2>1, <2>2 DEF RecordResult, Mark, Idle, TypeOK, WorkerTypeOK
  <2>3. ASSUME NEW next \in {"commit", "markcommit"}, NEW writes,
               pc' = [pc EXCEPT ![w] = next], tx' = [tx EXCEPT ![w] = writes], UNCHANGED job
        PROVE  OthersRest(w) /\ pc'[w] # "idle" /\ job'[w] = job[w]
    BY <2>3 DEF OthersRest, TypeOK, WorkerTypeOK
  <2>4. Idle(w) \/ (OthersRest(w) /\ pc'[w] # "idle" /\ job'[w] = job[w])
    BY <1>5, <2>3 DEF RecordResult, Mark
  <2> QED
    BY <1>5, <2>1, <2>2, <2>4 DEF Mark
<1>6. CASE Commit(w) \/ CommitMark(w) \/ MarkFails(w) \/ WorkerCrash(w)
  BY <1>6 DEF Commit, CommitMark, MarkFails, WorkerCrash, Apply, storeVars
<1> QED
  BY <1>3, <1>4, <1>5, <1>6 DEF WorkerStep, WorkerFault

LEMMA WorkerPairsMove ==
  ASSUME TypeOK, WorkerShape, NEW w \in Workers, WorkerStep(w) \/ WorkerFault(w),
         UNCHANGED schedulerVars
  PROVE  Carried' \subseteq Carried
<1>0. LeftPairs' = LeftPairs
  BY DEF LeftPairs, schedulerVars
<1>1. CASE BRPop(w)
  <2>1. QueuePairs = QueuePairs' \cup {JobPair(Head(queue))}
    BY <1>1, Popped DEF BRPop
  <2>2. /\ Busy' = Busy \cup {w} /\ job'[w] = Head(queue)
        /\ \A v \in Workers \ {w} : job'[v] = job[v]
        /\ w \notin Busy
    BY <1>1 DEF BRPop, Busy, TypeOK, WorkerTypeOK
  <2>3. ASSUME NEW pair \in WorkerPairs' PROVE pair \in WorkerPairs \cup {JobPair(Head(queue))}
    <3>1. PICK v \in Busy' : pair = JobPair(job'[v])
      BY DEF WorkerPairs, JobPair
    <3> HIDE DEF JobPair
    <3>2. CASE v = w
      BY <2>2, <3>1, <3>2
    <3>3. CASE v # w
      BY <2>2, <3>1, <3>3 DEF WorkerPairs, Busy
    <3> QED
      BY <3>2, <3>3
  <2> QED
    BY <1>0, <2>1, <2>3 DEF Carried
<1>2. ASSUME Idle(w), pc[w] # "idle" PROVE WorkerPairs' \subseteq WorkerPairs
  BY <1>2, IdleLocal, WorkerLeaves
<1>3. CASE Retry(w) \/ RetryFails(w) \/ RetryDup(w)
  <2> DEFINE j == NextAttempt(job[w])
  <2>1. /\ MayRetry(w) /\ Idle(w)
        /\ LPush(j) \/ LPushDup(j) \/ LPushFails(j)
    BY <1>3 DEF Retry, RetryFails, RetryDup
  <2>2. j \in Jobs /\ JobPair(j) \in WorkerPairs /\ pc[w] # "idle"
    BY <2>1, RetriedPair DEF MayRetry
  <2> HIDE DEF j
  <2>3. QueuePairs' \subseteq QueuePairs \cup {JobPair(j)}
    BY <2>1, <2>2, Pushed, PushedOrNot
  <2> QED
    BY <1>0, <1>2, <2>1, <2>2, <2>3 DEF Carried
<1>4. CASE UNCHANGED queue /\ WorkerPairs' \subseteq WorkerPairs
  BY <1>0, <1>4 DEF Carried, QueuePairs
<1> QED
  BY <1>1, <1>2, <1>3, <1>4, WorkerMoves, WorkerLeaves
-----------------------------------------------------------------------------
(***************************************************************************)
(* A job is only ever about a post that was claimed.                       *)
(***************************************************************************)
LEMMA ApplyRows ==
  ASSUME TypeOK, NEW w \in Workers, job[w] \in Jobs, Apply(w)
  PROVE  LET p == job[w].post
             a == job[w].account
         IN  /\ p \in Posts
             /\ \A q \in Posts \ {p} : UNCHANGED <<posts[q], posted[q], errored[q]>>
             /\ attached' = attached
             /\ tx[w].verdict = "none" => posts'[p] = posts[p]
             /\ tx[w].verdict # "none" => posts'[p].sched = ScheduleComplete
             /\ posted[p] \cup errored[p] \subseteq posted'[p] \cup errored'[p]
             /\ posted'[p] \cup errored'[p] \subseteq posted[p] \cup errored[p] \cup {a}
             /\ tx[w].row # "none" => a \in posted'[p] \cup errored'[p]
<1> USE DEF TypeOK, StoreTypeOK, WorkerTypeOK, TxWrites
<1> DEFINE p == job[w].post
           a == job[w].account
<1>1. p \in Posts /\ a \in Accounts
  BY DEF Jobs
<1>2. posts'[p] = Finalized(posts[p], tx[w].verdict) /\ \A q \in Posts \ {p} : posts'[q] = posts[q]
  BY <1>1 DEF Apply
<1>3. /\ tx[w].verdict = "none" => posts'[p] = posts[p]
      /\ tx[w].verdict # "none" => posts'[p].sched = ScheduleComplete
  <2>1. posts[p] \in PostRow /\ tx[w].verdict \in {"none", "published", "failed"}
    BY <1>1
  <2> QED
    BY <1>2, <2>1, FinalizedRow
<1>4. /\ \A q \in Posts \ {p} : UNCHANGED <<posted[q], errored[q]>>
      /\ posted[p] \cup errored[p] \subseteq posted'[p] \cup errored'[p]
      /\ posted'[p] \cup errored'[p] \subseteq posted[p] \cup errored[p] \cup {a}
      /\ tx[w].row # "none" => a \in posted'[p] \cup errored'[p]
  <2>1. CASE tx[w].row = "none"
    BY <2>1 DEF Apply, PostedAfter, ErroredAfter
  <2>2. CASE tx[w].row = "posted"
    BY <1>1, <2>2 DEF Apply, PostedAfter, ErroredAfter
  <2>3. CASE tx[w].row = "errored"
    BY <1>1, <2>3 DEF Apply, PostedAfter, ErroredAfter
  <2> QED
    BY <2>1, <2>2, <2>3
<1>5. attached' = attached
  BY DEF Apply
<1> QED
  BY <1>1, <1>2, <1>3, <1>4, <1>5

\* The job of a worker that commits is of a started post.
LEMMA BusyStarted ==
  ASSUME LifeInv, NEW w \in Workers, pc[w] # "idle"
  PROVE  job[w] \in Jobs /\ job[w].post \in Posts /\ Started(job[w].post)
<1>1. w \in Busy
  BY DEF Busy
<1>2. JobPair(job[w]) \in Carried /\ JobPair(job[w])[1] = job[w].post
  BY <1>1, BusyJob DEF LifeInv, Carried, JobPair
<1> QED
  BY <1>1, <1>2, BusyJob DEF LifeInv, JobsStarted

LEMMA ComesDueRows ==
  ASSUME TypeOK, NEW p \in Posts, ComesDue(p)
  PROVE  /\ \A q \in Posts : /\ posts'[q].sched = posts[q].sched
                              /\ posts'[q].status = posts[q].status
         /\ UNCHANGED <<rowVars, queue>>
<1>1. ASSUME NEW post \in PostRow
      PROVE  LET q == [post EXCEPT !.at = "due"]
             IN  q.sched = post.sched /\ q.status = post.status
  BY DEF PostRow
<1> QED
  BY <1>1 DEF ComesDue, TypeOK, StoreTypeOK

(***************************************************************************)
(* schedule_status never goes back, and goes on from Pending by a claim.   *)
(***************************************************************************)
LEMMA StartsOnce ==
  ASSUME LifeInv, [Next]_vars
  PROVE  \A p \in Posts :
           /\ Started(p) => Started(p)'
           /\ ~Started(p) => UNCHANGED <<posted[p], errored[p]>>
<1>1. ASSUME NEW s \in Schedulers, SchedulerStep(s) \/ SchedulerFault(s), NEW p \in Posts
      PROVE  /\ Started(p) => Started(p)'
             /\ ~Started(p) => UNCHANGED <<posted[p], errored[p]>>
  <2>1. UNCHANGED <<posted, errored>>
    BY <1>1, SchedulerFrame DEF LifeInv, rowVars
  <2>2. Started(p) => Started(p)'
    BY <1>1, SchedulerFrame, ClaimStarts DEF LifeInv, Started
  <2> QED
    BY <2>1, <2>2
<1>2. ASSUME NEW w \in Workers, WorkerStep(w) \/ WorkerFault(w), NEW p \in Posts
      PROVE  /\ Started(p) => Started(p)'
             /\ ~Started(p) => UNCHANGED <<posted[p], errored[p]>>
  <2>1. CASE UNCHANGED <<posts, rowVars>>
    BY <2>1 DEF Started, rowVars
  <2>2. CASE pc[w] \in {"commit", "markcommit"} /\ Apply(w)
    <3>1. job[w] \in Jobs /\ Started(job[w].post) /\ TypeOK
      BY <2>2, BusyStarted DEF LifeInv
    <3>2. /\ \A q \in Posts \ {job[w].post} : UNCHANGED <<posts[q], posted[q], errored[q]>>
          /\ posts'[job[w].post].sched \in {posts[job[w].post].sched, ScheduleComplete}
      BY <2>2, <3>1, ApplyRows
    <3> QED
      BY <3>1, <3>2, ScheduleValues DEF Started
  <2> QED
    BY <1>2, <2>1, <2>2, WorkerFrame
<1>3. ASSUME StoreNext, NEW p \in Posts
      PROVE  Started(p)' = Started(p) /\ UNCHANGED <<posted[p], errored[p]>>
  <2>1. CASE RedisRestart
    BY <2>1 DEF RedisRestart, Started, rowVars
  <2>2. CASE \E q \in Posts : ComesDue(q)
    BY <2>2, ComesDueRows DEF LifeInv, Started, rowVars
  <2> QED
    BY <1>3, <2>1, <2>2 DEF StoreNext
<1>4. CASE UNCHANGED vars
  BY <1>4 DEF vars, storeVars, rowVars, Started
<1> QED
  BY <1>1, <1>2, <1>3, <1>4 DEF Next, SchedulerNext, WorkerNext

\* Only a claim starts a post.
LEMMA StartsByClaim ==
  ASSUME LifeInv, [Next]_vars, NEW p \in Posts, ~Started(p), Started(p)'
  PROVE  IsClaimable(posts[p])
<1>1. ASSUME NEW s \in Schedulers, SchedulerStep(s) \/ SchedulerFault(s)
      PROVE  IsClaimable(posts[p])
  BY <1>1, SchedulerFrame, ClaimStarts DEF LifeInv, Started
<1>2. ASSUME NEW w \in Workers, WorkerStep(w) \/ WorkerFault(w) PROVE FALSE
  <2>1. pc[w] \in {"commit", "markcommit"} /\ Apply(w)
    BY <1>2, WorkerFrame DEF Started
  <2>2. job[w] \in Jobs /\ Started(job[w].post)
    BY <2>1, BusyStarted
  <2>3. posts'[p] = posts[p]
    BY <2>1, <2>2, ApplyRows DEF LifeInv
  <2> QED
    BY <2>3 DEF Started
<1>3. ~StoreNext
  BY ComesDueRows DEF StoreNext, RedisRestart, LifeInv, Started
<1>4. ~UNCHANGED vars
  BY DEF vars, storeVars, Started
<1> QED
  BY <1>1, <1>2, <1>3, <1>4 DEF Next, SchedulerNext, WorkerNext

LEMMA InitCarried == Init => Carried = {}
<1> SUFFICES ASSUME Init PROVE Carried = {}
  OBVIOUS
<1>1. Len(queue) = 0 /\ Busy = {} /\ \A s \in Schedulers : left[s] = {}
  BY DEF Init, WorkerInit, SchedulerInit, Busy
<1> QED
  BY <1>1 DEF Carried, QueuePairs, LeftPairs, WorkerPairs

LEMMA InitLife == Init => LifeInv
<1>1. Init => WaitingIsBare
  BY DEF Init, WaitingIsBare
<1> QED
  BY <1>1, InitCarried, InitType, InitShape DEF LifeInv, JobsStarted

\* A step makes jobs only for rows of a post it starts.
LEMMA NextPairs ==
  ASSUME LifeInv, [Next]_vars
  PROVE  /\ attached' = attached
         /\ \A pair \in Carried' :
              pair \in Carried \/ (Started(pair[1])' /\ pair[2] \in attached[pair[1]])
<1>1. CASE SchedulerNext /\ UNCHANGED workerVars
  BY <1>1, SchedulerPairs, SchedulerFrame DEF LifeInv, SchedulerNext, rowVars
<1>2. CASE WorkerNext /\ UNCHANGED schedulerVars
  <2>1. PICK w \in Workers : WorkerStep(w) \/ WorkerFault(w)
    BY <1>2 DEF WorkerNext
  <2>2. attached' = attached
    BY <2>1, WorkerFrame DEF Apply, rowVars
  <2> QED
    BY <1>2, <2>1, <2>2, WorkerPairsMove DEF LifeInv
<1>3. CASE StoreNext /\ UNCHANGED <<schedulerVars, workerVars>>
  <2>1. WorkerPairs' = WorkerPairs /\ LeftPairs' = LeftPairs
    BY <1>3 DEF WorkerPairs, LeftPairs, Busy, JobPair, workerVars, schedulerVars
  <2>2. QueuePairs' \subseteq QueuePairs
    <3>1. CASE queue' = <<>>
      BY <3>1 DEF QueuePairs
    <3>2. CASE queue' = queue
      BY <3>2 DEF QueuePairs
    <3> QED
      BY <1>3, <3>1, <3>2 DEF StoreNext, RedisRestart, ComesDue
  <2>3. attached' = attached
    BY <1>3 DEF StoreNext, RedisRestart, ComesDue, rowVars
  <2> QED
    BY <2>1, <2>2, <2>3 DEF Carried
<1>4. CASE UNCHANGED vars
  BY <1>4 DEF vars, storeVars, workerVars, schedulerVars, rowVars, Carried, QueuePairs,
              WorkerPairs, LeftPairs, Busy, JobPair
<1> QED
  BY <1>1, <1>2, <1>3, <1>4 DEF Next

LEMMA NextLife == LifeInv /\ [Next]_vars => LifeInv'
<1> SUFFICES ASSUME LifeInv, [Next]_vars PROVE LifeInv'
  OBVIOUS
<1>1. TypeOK' /\ WorkerShape'
  BY NextType DEF LifeInv
<1>2. WaitingIsBare'
  BY StartsOnce DEF LifeInv, WaitingIsBare
<1>3. \A pair \in Carried' : pair \in Carried \/ Started(pair[1])'
  BY NextPairs
<1>4. Carried \subseteq Posts \X Accounts
  <2>1. QueuePairs \subseteq Posts \X Accounts
    <3>1. ASSUME NEW i \in 1..Len(queue) PROVE queue[i] \in Jobs
      BY DEF LifeInv, TypeOK, StoreTypeOK
    <3>2. ASSUME NEW j \in Jobs PROVE JobPair(j) \in Posts \X Accounts
      BY DEF JobPair, Jobs
    <3> QED
      BY <3>1, <3>2 DEF QueuePairs
  <2>2. WorkerPairs \subseteq Posts \X Accounts
    BY BusyJob DEF LifeInv, WorkerPairs, JobPair
  <2>3. LeftPairs \subseteq Posts \X Accounts
    BY DEF LifeInv, TypeOK, SchedulerTypeOK, LeftPairs
  <2> QED
    BY <2>1, <2>2, <2>3 DEF Carried
<1>5. \A pair \in Carried : Started(pair[1])'
  BY <1>4, StartsOnce DEF LifeInv, JobsStarted
<1> QED
  BY <1>1, <1>2, <1>3, <1>5 DEF LifeInv, JobsStarted
-----------------------------------------------------------------------------
(***************************************************************************)
(* A single worker finalizes a post exactly when it settles its last row,  *)
(* and the way the rows call for.                                          *)
(***************************************************************************)
LEMMA SameVerdicts ==
  ASSUME VerdictsExact, UNCHANGED <<rowVars, workerVars>>
  PROVE  VerdictsExact'
BY DEF VerdictsExact, PostedAfter, ErroredAfter, rowVars, workerVars

\* The count with this transaction's own write is the count after its commit.
LEMMA CountedRow ==
  ASSUME LifeInv, NEW w \in Workers, RecordResult(w) \/ Mark(w), ~Idle(w)
  PROVE  LET p == job'[w].post
         IN  tx'[w].verdict =
               Verdict(attached'[p], PostedAfter(w)'[p], ErroredAfter(w)'[p])
<1> USE DEF LifeInv, TypeOK, StoreTypeOK, WorkerTypeOK
<1> DEFINE p == job[w].post
           a == job[w].account
<1>1. /\ UNCHANGED <<job, attached, posted, errored>>
      /\ p \in Posts /\ a \in Accounts
  <2>1. pc[w] # "idle"
    BY DEF RecordResult, Mark
  <2> QED
    BY <2>1, BusyStarted DEF RecordResult, Mark, storeVars, rowVars, Jobs
<1>2. CASE RecordResult(w)
  <2>1. tx'[w] = [row |-> "posted",
                  verdict |-> Verdict(attached[p], posted[p] \cup {a}, errored[p] \ {a})]
    BY <1>2 DEF RecordResult
  <2>2. PostedAfter(w)'[p] = posted[p] \cup {a} /\ ErroredAfter(w)'[p] = errored[p] \ {a}
    BY <1>1, <2>1 DEF PostedAfter, ErroredAfter
  <2> QED
    BY <1>1, <2>1, <2>2
<1>3. CASE Mark(w)
  <2>1. CASE /\ a \in attached[p]
             /\ tx'[w] = [row |-> "errored",
                          verdict |-> Verdict(attached[p], posted[p], errored[p] \cup {a})]
    <3>1. PostedAfter(w)'[p] = posted[p] /\ ErroredAfter(w)'[p] = errored[p] \cup {a}
      BY <1>1, <2>1 DEF PostedAfter, ErroredAfter
    <3> QED
      BY <1>1, <2>1, <3>1
  <2>2. CASE /\ a \notin attached[p]
             /\ tx'[w] = [row |-> "none",
                          verdict |-> Verdict(attached[p], posted[p], errored[p])]
    <3>1. PostedAfter(w)'[p] = posted[p] /\ ErroredAfter(w)'[p] = errored[p]
      BY <1>1, <2>2 DEF PostedAfter, ErroredAfter
    <3> QED
      BY <1>1, <2>2, <3>1
  <2> QED
    BY <1>3, <2>1, <2>2 DEF Mark
<1> QED
  BY <1>2, <1>3

\* Where a step can leave w about to commit.
LEMMA OnlyCountsCommit ==
  ASSUME TypeOK, NEW w \in Workers, WorkerStep(w) \/ WorkerFault(w),
         pc'[w] \in {"commit", "markcommit"}
  PROVE  RecordResult(w) \/ Mark(w)
<1> USE DEF TypeOK, WorkerTypeOK
<1>1. ~Idle(w) /\ ~\E kind : ReturnError(w, kind)
  BY DEF Idle, ReturnError
<1>2. ~\E next \in {"service", "text", "original", "publish", "record"} : Goto(w, next)
  BY DEF Goto
<1>3. ~BRPop(w)
  BY DEF BRPop
<1> QED
  BY <1>1, <1>2, <1>3
     DEF WorkerStep, WorkerFault, FetchAccount, FetchService, FetchText, FetchOriginal,
         UseContent, Publish, Commit, Retry, CommitMark, CommitUnknown, StatementFails,
         RetryFails, RetryDup, MarkFails, WorkerCrash

\* What StatusRight and SettledIsFinal say of one post.
SettledPost(p) ==
  /\ posted[p] \cup errored[p] \subseteq attached[p]
  /\ StatusRight(p)
  /\ posts[p].sched = ScheduleRunning => attached[p] \ (posted[p] \cup errored[p]) # {}

LEMMA RowsFinalPosts == RowsFinal <=> \A p \in Posts : SettledPost(p)
BY DEF RowsFinal, OutcomesAttached, FinalStatusCorrect, SettledIsFinal, SettledPost

LEMMA SamePost ==
  ASSUME NEW p \in Posts, SettledPost(p), UNCHANGED <<attached[p], posted[p], errored[p]>>,
         posts'[p].sched = posts[p].sched, posts'[p].status = posts[p].status
  PROVE  SettledPost(p)'
BY DEF SettledPost, StatusRight

\* COMMIT of a verdict that is right after it.
LEMMA AppliedPost ==
  ASSUME SettleInv, NEW w \in Workers, pc[w] \in {"commit", "markcommit"}, Apply(w),
         NEW p, p = job[w].post, NEW a, a = job[w].account
  PROVE  \A q \in Posts : SettledPost(q)'
<1>0. LifeInv /\ TypeOK /\ WorkerShape /\ \A q \in Posts : SettledPost(q)
  BY RowsFinalPosts DEF SettleInv, LifeInv
<1>1. job[w] \in Jobs /\ a \in attached[p]
  <2>1. w \in Busy
    BY DEF Busy
  <2>2. JobPair(job[w]) \in Carried
    BY <1>0, <2>1, BusyJob DEF Carried
  <2> QED
    BY <1>0, <2>1, <2>2, BusyJob DEF SettleInv, JobsAttached, JobPair
<1>2. /\ p \in Posts /\ attached' = attached
      /\ \A q \in Posts \ {p} : /\ posts'[q] = posts[q] /\ posted'[q] = posted[q]
                                /\ errored'[q] = errored[q]
      /\ posted[p] \cup errored[p] \subseteq posted'[p] \cup errored'[p]
      /\ posted'[p] \cup errored'[p] \subseteq posted[p] \cup errored[p] \cup {a}
  BY <1>0, <1>1, ApplyRows
<1>3. ASSUME NEW q \in Posts, q # p PROVE SettledPost(q)'
  <2>1. /\ posts'[q] = posts[q] /\ posted'[q] = posted[q] /\ errored'[q] = errored[q]
        /\ attached'[q] = attached[q]
    BY <1>2, <1>3
  <2> QED
    BY <1>0, <2>1, SamePost
<1>4. tx[w].verdict = Verdict(attached'[p], posted'[p], errored'[p])
  BY <1>2 DEF SettleInv, VerdictsExact, Apply
<1>5. posts[p] \in PostRow /\ posts'[p] = Finalized(posts[p], tx[w].verdict)
  BY <1>0, <1>2 DEF TypeOK, StoreTypeOK, Apply
<1>6. posted'[p] \cup errored'[p] \subseteq attached'[p] /\ attached'[p] # {}
  BY <1>0, <1>1, <1>2 DEF SettledPost
<1>7. SettledPost(p)'
  <2>1. CASE tx[w].verdict = "none"
    <3>1. posts'[p] = posts[p]
      BY <1>5, <2>1, FinalizedRow
    <3>2. attached'[p] \ (posted'[p] \cup errored'[p]) # {}
      BY <1>4, <2>1 DEF Verdict
    <3>3. posts[p].status \notin {StatusPublished, StatusFailed}
      BY <1>0, <1>2, <3>2 DEF SettledPost, StatusRight
    <3> QED
      BY <1>0, <1>2, <1>6, <3>1, <3>2, <3>3 DEF SettledPost, StatusRight
  <2>2. CASE tx[w].verdict = "published"
    <3>1. posts'[p].status = StatusPublished /\ posts'[p].sched = ScheduleComplete
      BY <1>5, <2>2, FinalizedRow
    <3>2. attached'[p] \subseteq posted'[p] \cup errored'[p] /\ attached'[p] \cap errored'[p] = {}
      BY <1>4, <2>2 DEF Verdict
    <3> QED
      BY <1>6, <3>1, <3>2, StatusRange, ScheduleValues DEF SettledPost, StatusRight
  <2>3. CASE tx[w].verdict = "failed"
    <3>1. posts'[p].status = StatusFailed /\ posts'[p].sched = ScheduleComplete
      BY <1>5, <2>3, FinalizedRow
    <3>2. attached'[p] \subseteq posted'[p] \cup errored'[p] /\ attached'[p] \cap errored'[p] # {}
      BY <1>4, <2>3 DEF Verdict
    <3> QED
      BY <1>6, <3>1, <3>2, StatusRange, ScheduleValues DEF SettledPost, StatusRight
  <2> QED
    BY <1>4, <2>1, <2>2, <2>3, VerdictType
<1> QED
  BY <1>3, <1>7

LEMMA WorkerSettles ==
  ASSUME OneWorker, SettleInv, NEW w \in Workers, WorkerStep(w) \/ WorkerFault(w)
  PROVE  VerdictsExact' /\ RowsFinal'
<1>0. LifeInv /\ TypeOK
  BY DEF SettleInv, LifeInv
<1>1. VerdictsExact'
  <2> SUFFICES ASSUME pc'[w] \in {"commit", "markcommit"}
               PROVE  LET p == job'[w].post
                      IN  tx'[w].verdict =
                            Verdict(attached'[p], PostedAfter(w)'[p], ErroredAfter(w)'[p])
    BY DEF OneWorker, VerdictsExact
  <2>1. RecordResult(w) \/ Mark(w)
    BY <1>0, OnlyCountsCommit
  <2>2. ~Idle(w)
    BY <1>0 DEF Idle, TypeOK, WorkerTypeOK
  <2> QED
    BY <1>0, <2>1, <2>2, CountedRow
<1>2. \A p \in Posts : SettledPost(p)'
  <2>1. CASE UNCHANGED <<posts, rowVars>>
    BY <2>1, RowsFinalPosts, SamePost DEF SettleInv, rowVars
  <2>2. CASE pc[w] \in {"commit", "markcommit"} /\ Apply(w)
    BY <2>2, AppliedPost
  <2> QED
    BY <2>1, <2>2, WorkerFrame
<1>3. RowsFinal'
  BY <1>2 DEF RowsFinal, OutcomesAttached, FinalStatusCorrect, SettledIsFinal, SettledPost
<1> QED
  BY <1>1, <1>3

LEMMA SchedulerSettles ==
  ASSUME SettleInv, NEW s \in Schedulers, SchedulerStep(s) \/ SchedulerFault(s)
  PROVE  RowsFinal'
<1>0. TypeOK /\ WaitingIsBare /\ \A p \in Posts : SettledPost(p)
  BY RowsFinalPosts DEF SettleInv, LifeInv
<1>1. UNCHANGED <<attached, posted, errored>>
  BY <1>0, SchedulerFrame DEF rowVars
<1>2. ASSUME UNCHANGED posts PROVE \A q \in Posts : SettledPost(q)'
  BY <1>0, <1>1, <1>2, SamePost
<1>3. ASSUME NEW p \in Posts, IsClaimable(posts[p]), posts' = [posts EXCEPT ![p] = Claimed(p)]
      PROVE  \A q \in Posts : SettledPost(q)'
  <2>1. ASSUME NEW q \in Posts, q # p PROVE SettledPost(q)'
    BY <1>0, <1>1, <1>3, <2>1, ClaimStarts, SamePost
  <2>2. posts'[p] = Claimed(p) /\ posts[p] \in PostRow
    BY <1>0, <1>3 DEF TypeOK, StoreTypeOK
  <2>3. posted[p] = {} /\ errored[p] = {} /\ posts[p].status = StatusScheduled
    BY <1>0, <1>3 DEF WaitingIsBare, Started, IsClaimable
  <2>4. CASE attached[p] = {}
    <3>1. posts'[p].status = StatusFailed /\ posts'[p].sched = ScheduleComplete
      BY <2>2, <2>4, ClaimedRow
    <3> QED
      BY <1>1, <2>1, <2>3, <2>4, <3>1, StatusRange, ScheduleValues DEF SettledPost, StatusRight
  <2>5. CASE attached[p] # {}
    <3>1. posts'[p].status = StatusScheduled /\ posts'[p].sched = ScheduleRunning
      BY <2>2, <2>3, <2>5, ClaimedRow
    <3>2. StatusScheduled \notin {StatusPublished, StatusFailed}
      BY DEF StatusScheduled, StatusPublished, StatusFailed
    <3> QED
      BY <1>1, <2>1, <2>3, <2>5, <3>1, <3>2, ScheduleValues DEF SettledPost, StatusRight
  <2> QED
    BY <2>4, <2>5
<1>4. \A q \in Posts : SettledPost(q)'
  BY <1>0, <1>2, <1>3, SchedulerFrame
<1> QED
  BY <1>4 DEF RowsFinal, OutcomesAttached, FinalStatusCorrect, SettledIsFinal, SettledPost

LEMMA NextSettle == OneWorker /\ SettleInv /\ [Next]_vars => SettleInv'
<1> SUFFICES ASSUME OneWorker, SettleInv, [Next]_vars PROVE SettleInv'
  OBVIOUS
<1>1. LifeInv'
  BY NextLife DEF SettleInv
<1>2. JobsAttached'
  BY NextPairs DEF SettleInv, JobsAttached
<1>3. VerdictsExact' /\ RowsFinal'
  <2>1. CASE SchedulerNext /\ UNCHANGED workerVars
    <3>1. UNCHANGED rowVars
      BY <2>1, SchedulerFrame DEF SchedulerNext, SettleInv, LifeInv
    <3> QED
      BY <2>1, <3>1, SchedulerSettles, SameVerdicts DEF SchedulerNext, SettleInv
  <2>2. CASE WorkerNext
    BY <2>2, WorkerSettles DEF WorkerNext
  <2>3. CASE StoreNext /\ UNCHANGED <<schedulerVars, workerVars>>
    <3>1. /\ UNCHANGED rowVars
          /\ \A p \in Posts : /\ posts'[p].sched = posts[p].sched
                              /\ posts'[p].status = posts[p].status
      BY <2>3, ComesDueRows DEF StoreNext, RedisRestart, SettleInv, LifeInv
    <3> QED
      BY <2>3, <3>1, SameVerdicts
         DEF SettleInv, RowsFinal, OutcomesAttached, FinalStatusCorrect, StatusRight,
             SettledIsFinal, rowVars
  <2>4. CASE UNCHANGED vars
    BY <2>4, SameVerdicts
       DEF vars, storeVars, rowVars, SettleInv, RowsFinal, OutcomesAttached, FinalStatusCorrect,
           StatusRight, SettledIsFinal
  <2> QED
    BY <2>1, <2>2, <2>3, <2>4 DEF Next
<1> QED
  BY <1>1, <1>2, <1>3 DEF SettleInv

LEMMA InitSettle == Init => SettleInv
<1> SUFFICES ASSUME Init PROVE SettleInv
  OBVIOUS
<1>1. VerdictsExact
  BY DEF Init, WorkerInit, VerdictsExact
<1>2. RowsFinal
  BY ScheduleValues
     DEF Init, NewPostRow, RowsFinal, OutcomesAttached, SettledIsFinal, FinalStatusCorrect,
         StatusRight, StatusDraft, StatusScheduled, StatusPublished, StatusFailed
<1>3. JobsAttached
  BY InitCarried DEF JobsAttached
<1> QED
  BY <1>1, <1>2, <1>3, InitLife DEF SettleInv

(***************************************************************************)
(* With one worker, and whatever fails, is lost, is sent twice or is       *)
(* committed unknown to its caller, a running post always has a row        *)
(* without an outcome: the worker that settles the last row finalizes the  *)
(* post in the same transaction.                                           *)
(***************************************************************************)
THEOREM SoleWorkerSettles == ASSUME OneWorker PROVE Spec => []SettledIsFinal
<1>1. SettleInv /\ [Next]_vars => SettleInv'
  BY NextSettle
<1>2. SettleInv => SettledIsFinal
  BY DEF SettleInv, RowsFinal
<1> QED
  BY <1>1, <1>2, InitSettle, PTL DEF Spec

(***************************************************************************)
(* And the post is finalized the way its rows call for, also when a late   *)
(* duplicate of a job changes a row of a post that was final already.      *)
(***************************************************************************)
THEOREM SoleWorkerFinal == ASSUME OneWorker PROVE Spec => []FinalStatusCorrect
<1>1. SettleInv /\ [Next]_vars => SettleInv'
  BY NextSettle
<1>2. SettleInv => FinalStatusCorrect
  BY DEF SettleInv, RowsFinal
<1> QED
  BY <1>1, <1>2, InitSettle, PTL DEF Spec
-----------------------------------------------------------------------------
(***************************************************************************)
(* While nothing is lost, a row of a running post keeps its job until it   *)
(* has its outcome.                                                        *)
(***************************************************************************)
LEMMA SchedulerKeeps ==
  ASSUME NoLosses, TypeOK, NEW s \in Schedulers, SchedulerStep(s) \/ SchedulerFault(s),
         UNCHANGED workerVars
  PROVE  /\ Kept \subseteq Kept'
         /\ \/ UNCHANGED posts
            \/ \E p \in Posts : /\ posts' = [posts EXCEPT ![p] = Claimed(p)]
                                /\ {p} \X attached[p] \subseteq Kept'
<1>0. SettlingPairs' = SettlingPairs
  BY DEF SettlingPairs, WillSettle, Busy, JobPair, workerVars
<1>1. CASE Scan(s) \/ \E p \in Posts : SkipClaim(s, p)
  <2>1. UNCHANGED <<posts, queue, left>>
    BY <1>1 DEF Scan, SkipClaim, storeVars
  <2> QED
    BY <1>0, <2>1 DEF Kept, QueuePairs, LeftPairs
<1>2. ASSUME NEW p \in Posts, Claim(s, p)
      PROVE  Kept \subseteq Kept' /\ {p} \X attached[p] \subseteq Kept'
  <2>1. QueuePairs' = QueuePairs
    BY <1>2 DEF Claim, QueuePairs
  <2>2. LeftPairs \subseteq LeftPairs' \cup {}
    BY <1>2, LeftOver DEF Claim
  <2>3. left'[s] = {p} \X attached[p]
    BY <1>2 DEF Claim, TypeOK, SchedulerTypeOK
  <2> QED
    BY <1>0, <2>1, <2>2, <2>3 DEF Kept, LeftPairs
<1>3. CASE Push(s) \/ PushDup(s)
  <2>1. PICK pair \in left[s] : /\ LPush(FirstJob(pair)) \/ LPushDup(FirstJob(pair))
                                /\ left' = [left EXCEPT ![s] = @ \ {pair}]
    BY <1>3 DEF Push, PushDup
  <2>2. QueuePairs' = QueuePairs \cup {pair}
    BY <2>1, ItemPair, Pushed
  <2>3. left'[s] = left[s] \ {pair} /\ \A t \in Schedulers \ {s} : left'[t] = left[t]
    BY <2>1 DEF TypeOK, SchedulerTypeOK
  <2>4. LeftPairs \subseteq LeftPairs' \cup {pair}
    <3> SUFFICES ASSUME NEW x \in LeftPairs, x # pair PROVE x \in LeftPairs'
      OBVIOUS
    <3>1. PICK t \in Schedulers : x \in left[t]
      BY DEF LeftPairs
    <3>2. x \in left'[t]
      BY <2>3, <3>1
    <3> QED
      BY <3>2 DEF LeftPairs
  <2> QED
    BY <1>0, <1>3, <2>2, <2>4 DEF Kept, Push, PushDup
<1> QED
  BY <1>1, <1>2, <1>3
     DEF SchedulerStep, SchedulerFault, ClaimFails, ClaimUnknown, PushFails, SchedulerCrash,
         NoLosses, Claim

\* w goes on with its job or gives it up: the pairs of the others stay.
LEMMA SettlingStay ==
  ASSUME TypeOK, WorkerShape, NEW w \in Workers, OthersRest(w)
  PROVE  /\ \A pair \in SettlingPairs :
              pair \in SettlingPairs' \/ (pair = JobPair(job[w]) /\ w \in Busy /\ WillSettle(w))
         /\ pc'[w] # "idle" /\ job'[w] = job[w] /\ WillSettle(w)'
              => JobPair(job[w]) \in SettlingPairs'
<1> HIDE DEF JobPair
<1>1. \A v \in Busy \ {w} : v \in Busy' /\ job'[v] = job[v] /\ WillSettle(v)' = WillSettle(v)
  BY DEF Busy, OthersRest, WillSettle
<1>2. SettlingPairs' = {JobPair(job'[v]) : v \in {u \in Busy' : WillSettle(u)'}}
  BY DEF SettlingPairs, JobPair, Busy, WillSettle
<1>3. ASSUME NEW pair \in SettlingPairs
      PROVE  pair \in SettlingPairs' \/ (pair = JobPair(job[w]) /\ w \in Busy /\ WillSettle(w))
  <2>1. PICK v \in Busy : WillSettle(v) /\ pair = JobPair(job[v])
    BY DEF SettlingPairs
  <2> QED
    BY <1>1, <1>2, <2>1
<1>4. ASSUME pc'[w] # "idle", job'[w] = job[w], WillSettle(w)'
      PROVE  JobPair(job[w]) \in SettlingPairs'
  <2>1. w \in Busy'
    BY <1>4 DEF Busy
  <2> QED
    BY <1>2, <1>4, <2>1
<1> QED
  BY <1>3, <1>4

\* A worker parts with a job only where it has settled the row or found none.
LEMMA WorkerKeeps ==
  ASSUME NoLosses, TypeOK, WorkerShape, NEW w \in Workers, WorkerStep(w) \/ WorkerFault(w),
         UNCHANGED schedulerVars, NEW pair \in Kept, pair \notin Kept'
  PROVE  /\ pair = JobPair(job[w]) /\ w \in Busy
         /\ \/ (FetchAccount(w) \/ RecordResult(w)) /\ Idle(w)
            \/ Mark(w) /\ tx'[w].row = "none"
            \/ (Commit(w) \/ CommitMark(w)) /\ tx[w].row # "none"
<1>0. LeftPairs' = LeftPairs
  BY DEF LeftPairs, schedulerVars
<1>1. ~BRPop(w)
  <2> SUFFICES ASSUME BRPop(w) PROVE pair \in Kept'
    OBVIOUS
  <2>1. QueuePairs = QueuePairs' \cup {JobPair(Head(queue))}
    BY Popped DEF BRPop
  <2>2. /\ job'[w] = Head(queue) /\ pc'[w] = "fetch" /\ w \notin Busy
        /\ \A v \in Busy : v \in Busy' /\ job'[v] = job[v] /\ WillSettle(v)' = WillSettle(v)
    BY DEF BRPop, Busy, WillSettle, TypeOK, WorkerTypeOK
  <2>3. SettlingPairs' = {JobPair(job'[v]) : v \in {u \in Busy' : WillSettle(u)'}}
    BY DEF SettlingPairs, JobPair, Busy, WillSettle
  <2>4. w \in Busy' /\ WillSettle(w)'
    BY <2>2 DEF Busy, WillSettle
  <2> HIDE DEF JobPair
  <2>5. JobPair(Head(queue)) \in SettlingPairs'
    BY <2>2, <2>3, <2>4
  <2>6. SettlingPairs \subseteq SettlingPairs'
    BY <2>2, <2>3 DEF SettlingPairs
  <2> QED
    BY <1>0, <2>1, <2>5, <2>6 DEF Kept
<1>2. ~(Retry(w) \/ RetryFails(w) \/ RetryDup(w))
  <2> SUFFICES ASSUME Retry(w) \/ RetryFails(w) \/ RetryDup(w) PROVE pair \in Kept'
    OBVIOUS
  <2> DEFINE j == NextAttempt(job[w])
  <2>1. MayRetry(w) /\ Idle(w) /\ (LPush(j) \/ LPushDup(j))
    BY DEF Retry, RetryFails, RetryDup, NoLosses
  <2>2. j \in Jobs /\ JobPair(j) = JobPair(job[w])
    BY <2>1, RetriedPair
  <2>3. OthersRest(w)
    BY <2>1, IdleLocal
  <2> HIDE DEF j
  <2>4. QueuePairs' = QueuePairs \cup {JobPair(job[w])}
    BY <2>1, <2>2, Pushed
  <2> QED
    BY <1>0, <2>3, <2>4, SettlingStay DEF Kept
<1>3. UNCHANGED queue /\ OthersRest(w) /\ w \in Busy
  BY <1>1, <1>2, WorkerMoves, IdleLocal DEF Busy
<1>4. pair \in SettlingPairs
  BY <1>0, <1>3 DEF Kept, QueuePairs
<1>5. pair = JobPair(job[w]) /\ WillSettle(w) /\ pair \notin SettlingPairs'
  BY <1>3, <1>4, SettlingStay DEF Kept
<1>6. CASE pc'[w] # "idle" /\ job'[w] = job[w]
  <2>1. pc'[w] = "markcommit" /\ tx'[w].row = "none"
    BY <1>3, <1>5, <1>6, SettlingStay DEF WillSettle
  <2>2. RecordResult(w) \/ Mark(w)
    BY <2>1, OnlyCountsCommit
  <2>3. ~RecordResult(w)
    BY <1>6, <2>1 DEF RecordResult, Idle, TypeOK, WorkerTypeOK
  <2> QED
    BY <1>3, <1>5, <2>1, <2>2, <2>3
<1>7. CASE Idle(w) /\ (FetchAccount(w) \/ RecordResult(w) \/ Commit(w) \/ CommitMark(w))
  <2>1. Commit(w) => tx[w].row # "none"
    BY DEF Commit, WorkerShape
  <2>2. CommitMark(w) => tx[w].row # "none"
    BY <1>5 DEF CommitMark, WillSettle
  <2> QED
    BY <1>3, <1>5, <1>7, <2>1, <2>2
<1>8. ~MarkFails(w) /\ ~WorkerCrash(w)
  BY DEF MarkFails, WorkerCrash, NoLosses
<1> QED
  BY <1>1, <1>2, <1>6, <1>7, <1>8, WorkerMoves

LEMMA OthersStay ==
  ASSUME TypeOK, WorkerShape, NEW w \in Workers, WorkerStep(w) \/ WorkerFault(w)
  PROVE  OthersRest(w)
<1>1. CASE BRPop(w)
  BY <1>1 DEF BRPop, OthersRest, TypeOK, WorkerTypeOK
<1>2. CASE Idle(w)
  BY <1>2, IdleLocal
<1> QED
  BY <1>1, <1>2, WorkerMoves DEF Retry, RetryFails, RetryDup

LEMMA SameKept ==
  ASSUME UNCHANGED <<queue, schedulerVars, workerVars>>
  PROVE  Kept' = Kept
BY DEF Kept, QueuePairs, SettlingPairs, LeftPairs, WillSettle, Busy, JobPair, workerVars,
       schedulerVars

LEMMA SchedulerCarries ==
  ASSUME NoLosses, CarryInv, NEW s \in Schedulers, SchedulerStep(s) \/ SchedulerFault(s),
         UNCHANGED workerVars
  PROVE  OpenKept'
<1>0. TypeOK
  BY DEF CarryInv
<1> SUFFICES ASSUME NEW pair \in Pairs, Open(pair)' PROVE pair \in Kept'
  BY DEF OpenKept
<1>1. UNCHANGED rowVars /\ Kept \subseteq Kept'
  BY <1>0, SchedulerFrame, SchedulerKeeps
<1>2. CASE Open(pair)
  BY <1>1, <1>2 DEF CarryInv, OpenKept
<1>3. ASSUME NEW p \in Posts, posts' = [posts EXCEPT ![p] = Claimed(p)],
             {p} \X attached[p] \subseteq Kept', ~Open(pair)
      PROVE  pair \in Kept'
  <2>1. pair[1] = p
    BY <1>0, <1>1, <1>3, ClaimStarts DEF Open, rowVars, Pairs
  <2>2. pair \in {p} \X attached[p]
    BY <1>1, <2>1 DEF Open, Pairs, rowVars
  <2> QED
    BY <1>3, <2>2
<1>4. CASE UNCHANGED posts
  BY <1>1, <1>2, <1>4 DEF Open, rowVars
<1> QED
  BY <1>0, <1>2, <1>3, <1>4, SchedulerKeeps

\* A worker opens no pair, and the one it parts with is not open any more.
LEMMA WorkerCarries ==
  ASSUME NoLosses, CarryInv, NEW w \in Workers, WorkerStep(w) \/ WorkerFault(w),
         UNCHANGED schedulerVars
  PROVE  OpenKept'
<1>0. TypeOK /\ WorkerShape
  BY DEF CarryInv
<1> SUFFICES ASSUME NEW pair \in Pairs, Open(pair)', pair \notin Kept' PROVE FALSE
  BY DEF OpenKept
<1>1. pair[1] \in Posts
  BY DEF Pairs
<1>2. CASE UNCHANGED <<posts, rowVars>>
  <2>1. Open(pair) /\ pair \in Kept
    BY <1>2 DEF Open, rowVars, CarryInv, OpenKept
  <2>2. /\ pair = JobPair(job[w]) /\ w \in Busy
        /\ \/ (FetchAccount(w) \/ RecordResult(w)) /\ Idle(w)
           \/ Mark(w) /\ tx'[w].row = "none"
           \/ (Commit(w) \/ CommitMark(w)) /\ tx[w].row # "none"
    BY <1>0, <2>1, WorkerKeeps
  <2>3. job[w].account \in attached[job[w].post] \ (posted[job[w].post] \cup errored[job[w].post])
    BY <2>1, <2>2 DEF Open, JobPair
  <2>4. ~(FetchAccount(w) /\ Idle(w))
    BY <1>0, <2>3 DEF FetchAccount, Idle, Goto, ReturnError, TypeOK, WorkerTypeOK
  <2>5. ~(RecordResult(w) /\ Idle(w))
    BY <1>0, <2>3 DEF RecordResult, Idle, TypeOK, WorkerTypeOK
  <2>6. ~(Mark(w) /\ tx'[w].row = "none")
    BY <1>0, <2>3 DEF Mark, TypeOK, WorkerTypeOK
  <2>7. ~((Commit(w) \/ CommitMark(w)) /\ tx[w].row # "none")
    <3> SUFFICES ASSUME Apply(w), tx[w].row # "none" PROVE FALSE
      BY DEF Commit, CommitMark
    <3>1. job[w].account \in posted'[job[w].post] \cup errored'[job[w].post]
      BY <1>0, <2>2, BusyJob, ApplyRows
    <3> QED
      BY <1>2, <2>3, <3>1 DEF rowVars
  <2> QED
    BY <2>2, <2>4, <2>5, <2>6, <2>7
<1>3. CASE pc[w] \in {"commit", "markcommit"} /\ Apply(w)
           /\ (Commit(w) \/ CommitUnknown(w) \/ CommitMark(w))
  <2>0. w \in Busy
    BY <1>3 DEF Busy
  <2>1. /\ job[w].post \in Posts /\ attached' = attached
        /\ \A q \in Posts \ {job[w].post} : UNCHANGED <<posts[q], posted[q], errored[q]>>
        /\ tx[w].verdict = "none" => posts'[job[w].post] = posts[job[w].post]
        /\ tx[w].verdict # "none" => posts'[job[w].post].sched = ScheduleComplete
        /\ posted[job[w].post] \cup errored[job[w].post]
             \subseteq posted'[job[w].post] \cup errored'[job[w].post]
        /\ tx[w].row # "none" => job[w].account \in posted'[job[w].post] \cup errored'[job[w].post]
    BY <1>0, <1>3, <2>0, BusyJob, ApplyRows
  <2>2. Open(pair)
    <3>1. CASE pair[1] # job[w].post
      BY <1>1, <2>1, <3>1 DEF Open
    <3>2. CASE pair[1] = job[w].post
      BY <2>1, <3>2, ScheduleValues DEF Open
    <3> QED
      BY <3>1, <3>2
  <2>3. pair \in Kept
    BY <2>2 DEF CarryInv, OpenKept
  <2>4. pair = JobPair(job[w]) /\ tx[w].row # "none"
    BY <1>0, <1>3, <2>3, WorkerKeeps DEF FetchAccount, RecordResult, Mark
  <2> QED
    BY <2>1, <2>4 DEF Open, JobPair
<1> QED
  BY <1>2, <1>3, WorkerFrame

LEMMA InitCarry == Init => CarryInv
<1> SUFFICES ASSUME Init PROVE CarryInv
  OBVIOUS
<1>1. OpenKept
  BY ScheduleValues DEF Init, NewPostRow, OpenKept, Open, Pairs
<1> QED
  BY <1>1, InitType, InitShape DEF CarryInv

LEMMA NextCarry == NoLosses /\ CarryInv /\ [Next]_vars => CarryInv'
<1> SUFFICES ASSUME NoLosses, CarryInv, [Next]_vars PROVE CarryInv'
  OBVIOUS
<1>0. TypeOK
  BY DEF CarryInv
<1>1. TypeOK' /\ WorkerShape'
  BY NextType DEF CarryInv
<1>2. OpenKept'
  <2>1. CASE SchedulerNext /\ UNCHANGED workerVars
    BY <2>1, SchedulerCarries DEF SchedulerNext
  <2>2. CASE WorkerNext /\ UNCHANGED schedulerVars
    BY <2>2, WorkerCarries DEF WorkerNext
  <2>3. CASE StoreNext /\ UNCHANGED <<schedulerVars, workerVars>>
    <3>1. PICK p \in Posts : ComesDue(p)
      BY <2>3 DEF StoreNext, RedisRestart, NoLosses
    <3>2. UNCHANGED <<rowVars, queue>> /\ \A q \in Posts : posts'[q].sched = posts[q].sched
      BY <1>0, <3>1, ComesDueRows
    <3>3. Kept' = Kept
      BY <2>3, <3>2, SameKept
    <3> QED
      BY <3>2, <3>3 DEF CarryInv, OpenKept, Open, Pairs, rowVars
  <2>4. CASE UNCHANGED vars
    <3>1. Kept' = Kept
      BY <2>4, SameKept DEF vars, storeVars
    <3> QED
      BY <2>4, <3>1 DEF vars, storeVars, rowVars, CarryInv, OpenKept, Open, Pairs
  <2> QED
    BY <2>1, <2>2, <2>3, <2>4 DEF Next
<1> QED
  BY <1>1, <1>2 DEF CarryInv

\* A pair whose job will settle its row has a holder.
LEMMA KeptHasHolder == CarryInv => RunningHasJobs
<1> SUFFICES ASSUME CarryInv PROVE RunningHasJobs
  OBVIOUS
<1>1. Kept \subseteq Carried
  BY DEF Kept, Carried, SettlingPairs, WorkerPairs
<1> QED
  BY <1>1, HeldIsCarried DEF CarryInv, OpenKept, RunningHasJobs

(***************************************************************************)
(* If the only failure is a push that is sent twice, a row of a running    *)
(* post has a job until it has its outcome, with any number of workers.    *)
(* Every other failure can strand it: see the run pipeline_stranded.       *)
(***************************************************************************)
THEOREM NeverStranded == ASSUME NoLosses PROVE Spec => []RunningHasJobs
<1>1. CarryInv /\ [Next]_vars => CarryInv'
  BY NextCarry
<1> QED
  BY <1>1, InitCarry, KeptHasHolder, PTL DEF Spec
=============================================================================
