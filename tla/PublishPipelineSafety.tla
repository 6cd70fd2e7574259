----------------------- MODULE PublishPipelineSafety -----------------------
(***************************************************************************)
(* The inductive invariant of PublishPipeline and what follows from it,    *)
(* for any number of schedulers and workers, when statements, pushes,      *)
(* processes and the Redis server may fail, but no LPUSH is duplicated and *)
(* no COMMIT reports an error after it was applied.                        *)
(***************************************************************************)
EXTENDS PublishPipelineProofs

NoDuplicates == "dup" \notin Faults /\ "unknown" \notin Faults

LEMMA InitInv == Init => Inv
<1> SUFFICES ASSUME Init PROVE Inv
  OBVIOUS
<1>1. TypeOK /\ WorkerShape
  BY InitType, InitShape
<1>2. Len(queue) = 0 /\ Busy = {} /\ \A s \in Schedulers : left[s] = {}
  BY DEF Init, WorkerInit, SchedulerInit, Busy
<1>3. JobsApart /\ JobsOpen
  BY <1>2 DEF JobsApart, JobsOpen
<1>4. RowsRight
  BY DEF Init, RowsRight
<1>5. VerdictsRight
  BY DEF Init, WorkerInit, VerdictsRight, WriteRight
<1>6. FinalStatusCorrect
  BY DEF Init, NewPostRow, FinalStatusCorrect, StatusRight, StatusDraft, StatusScheduled,
         StatusPublished, StatusFailed, SchedulePending, ScheduleComplete
<1> QED
  BY <1>1, <1>3, <1>4, <1>5, <1>6 DEF Inv

(***************************************************************************)
(* Jobs that disappear or stay where they are.                             *)
(***************************************************************************)
LEMMA FewerJobs ==
  ASSUME JobsApart, JobsOpen, UNCHANGED <<posts, rowVars, queue>>,
         Busy' \subseteq Busy,
         \A v \in Busy' : job'[v] = job[v],
         \A s \in Schedulers : left'[s] \subseteq left[s]
  PROVE  JobsApart' /\ JobsOpen'
<1>1. JobsApart'
  BY DEF JobsApart, JobPair
<1>2. JobsOpen'
  BY DEF JobsOpen, Open, JobPair, rowVars
<1> QED
  BY <1>1, <1>2

\* A job of an open row that nobody has any more is appended to the queue.
LEMMA JobQueued ==
  ASSUME JobsApart, JobsOpen, UNCHANGED <<posts, rowVars>>,
         queue \in Seq(Jobs), NEW j \in Jobs, queue' = Append(queue, j),
         Busy' \subseteq Busy,
         \A v \in Busy' : job'[v] = job[v],
         \A s \in Schedulers : left'[s] \subseteq left[s],
         Open(JobPair(j)),
         \A i \in 1..Len(queue) : JobPair(queue[i]) # JobPair(j),
         \A v \in Busy' : JobPair(job[v]) # JobPair(j),
         \A s \in Schedulers : JobPair(j) \notin left'[s]
  PROVE  JobsApart' /\ JobsOpen'
<1>1. /\ Len(queue') = Len(queue) + 1
      /\ Len(queue) \in Nat
      /\ \A i \in 1..Len(queue) : queue'[i] = queue[i]
      /\ queue'[Len(queue) + 1] = j
  OBVIOUS
<1>2. \A i \in 1..Len(queue') : i \in 1..Len(queue) \/ i = Len(queue) + 1
  BY <1>1
<1> HIDE DEF JobPair
<1>3. \A i, k \in 1..Len(queue') : JobPair(queue'[i]) = JobPair(queue'[k]) => i = k
  BY <1>1, <1>2 DEF JobsApart
<1>4. \A i \in 1..Len(queue'), v \in Busy' : JobPair(queue'[i]) # JobPair(job'[v])
  BY <1>1, <1>2 DEF JobsApart
<1>5. \A i \in 1..Len(queue'), s \in Schedulers : JobPair(queue'[i]) \notin left'[s]
  BY <1>1, <1>2 DEF JobsApart
<1>6. /\ \A v, w \in Busy' : JobPair(job'[v]) = JobPair(job'[w]) => v = w
      /\ \A s, t \in Schedulers : \A pair \in left'[s] : pair \in left'[t] => s = t
      /\ \A v \in Busy', s \in Schedulers : JobPair(job'[v]) \notin left'[s]
  BY DEF JobsApart
<1>7. JobsApart'
  BY <1>3, <1>4, <1>5, <1>6 DEF JobsApart, JobPair
<1>8. \A pair : Open(pair) => Open(pair)'
  BY DEF Open, rowVars
<1>9. JobsOpen'
  BY <1>1, <1>2, <1>8 DEF JobsOpen, JobPair
<1> QED
  BY <1>7, <1>9

LEMMA SameRows ==
  ASSUME RowsRight, FinalStatusCorrect, UNCHANGED <<posts, rowVars>>
  PROVE  RowsRight' /\ FinalStatusCorrect'
BY DEF RowsRight, FinalStatusCorrect, StatusRight, rowVars

\* The uncommitted writes of workers that do not move stay right.
LEMMA SameWrites ==
  ASSUME VerdictsRight, UNCHANGED <<rowVars, workerVars>>
  PROVE  VerdictsRight'
BY DEF VerdictsRight, WriteRight, rowVars, workerVars

(***************************************************************************)
(* Steps in which worker w changes nothing but its own state: it goes on   *)
(* with its job or gives it up.                                            *)
(***************************************************************************)
OthersRest(w) ==
  \A v \in Workers \ {w} : pc'[v] = pc[v] /\ job'[v] = job[v] /\ tx'[v] = tx[v]

LEMMA OtherWrites ==
  ASSUME VerdictsRight, NEW w \in Workers, OthersRest(w), UNCHANGED rowVars,
         WriteRight(w)'
  PROVE  VerdictsRight'
<1> SUFFICES ASSUME NEW v \in Workers, v # w PROVE WriteRight(v)'
  BY DEF VerdictsRight
<1> QED
  BY DEF VerdictsRight, WriteRight, OthersRest, rowVars

LEMMA WorkerLocal ==
  ASSUME Inv, TypeOK', WorkerShape', NEW w \in Workers, OthersRest(w),
         UNCHANGED <<posts, rowVars, queue, left>>,
         pc'[w] # "idle" => pc[w] # "idle" /\ job'[w] = job[w],
         WriteRight(w)'
  PROVE  Inv'
<1> USE DEF Inv
<1>1. Busy' \subseteq Busy /\ \A v \in Busy' : job'[v] = job[v]
  BY DEF Busy, OthersRest
<1>2. JobsApart' /\ JobsOpen'
  BY <1>1, FewerJobs
<1>3. VerdictsRight'
  BY OtherWrites
<1> QED
  BY <1>2, <1>3, SameRows

LEMMA IdleLocal ==
  ASSUME TypeOK, NEW w \in Workers, Idle(w)
  PROVE  OthersRest(w) /\ pc'[w] = "idle" /\ WriteRight(w)'
BY DEF TypeOK, WorkerTypeOK, Idle, OthersRest, WriteRight

LEMMA GotoLocal ==
  ASSUME TypeOK, NEW w \in Workers,
         NEW next \in {"service", "text", "original", "publish", "record"}, Goto(w, next)
  PROVE  OthersRest(w) /\ job'[w] = job[w] /\ WriteRight(w)'
BY DEF TypeOK, WorkerTypeOK, Goto, OthersRest, WriteRight

LEMMA ReturnErrorLocal ==
  ASSUME TypeOK, NEW w \in Workers, NEW kind, ReturnError(w, kind)
  PROVE  OthersRest(w) /\ job'[w] = job[w] /\ WriteRight(w)'
BY DEF TypeOK, WorkerTypeOK, ReturnError, OthersRest, WriteRight

\* The reads, the call of the provider, and the failures that end a job.
LEMMA ReadSteps ==
  ASSUME Inv, TypeOK', WorkerShape', NEW w \in Workers, UNCHANGED schedulerVars,
         \/ FetchAccount(w) \/ FetchService(w) \/ FetchText(w) \/ FetchOriginal(w)
         \/ Publish(w)
         \/ StatementFails(w) \/ MarkFails(w) \/ WorkerCrash(w)
  PROVE  Inv'
<1>1. UNCHANGED <<posts, rowVars, queue, left>> /\ pc[w] # "idle"
  BY DEF FetchAccount, FetchService, FetchText, FetchOriginal, Publish, StatementFails,
         MarkFails, WorkerCrash, storeVars, schedulerVars
<1>2. \/ Idle(w)
      \/ \E next \in {"service", "text", "original", "publish", "record"} : Goto(w, next)
      \/ \E kind : ReturnError(w, kind)
  BY DEF FetchAccount, FetchService, FetchText, FetchOriginal, UseContent, Publish,
         StatementFails, MarkFails, WorkerCrash
<1>3. OthersRest(w) /\ WriteRight(w)' /\ (pc'[w] # "idle" => job'[w] = job[w])
  BY <1>2, IdleLocal, GotoLocal, ReturnErrorLocal DEF Inv
<1> QED
  BY <1>1, <1>3, WorkerLocal

(***************************************************************************)
(* The count of finalizePostIfDoneTx: with a verdict, all other rows are   *)
(* settled by now.                                                         *)
(***************************************************************************)
LEMMA VerdictMeans ==
  ASSUME NEW rows, NEW ok, NEW bad
  PROVE  /\ Verdict(rows, ok, bad) # "none" => rows \subseteq ok \cup bad
         /\ Verdict(rows, ok, bad) = "published" => rows \cap bad = {}
         /\ Verdict(rows, ok, bad) = "failed" => rows \cap bad # {}
BY DEF Verdict

LEMMA RecordSteps ==
  ASSUME Inv, TypeOK', WorkerShape', NEW w \in Workers, UNCHANGED schedulerVars,
         RecordResult(w) \/ Mark(w)
  PROVE  Inv'
<1> DEFINE p == job[w].post
           a == job[w].account
<1>0. w \in Busy /\ pc[w] \in {"record", "error"}
  BY DEF RecordResult, Mark, Busy
<1>1. a \in attached[p] /\ a \notin posted[p] \cup errored[p] /\ p \in Posts
  BY <1>0 DEF Inv, JobsOpen, Open, JobPair, WorkerShape, TypeOK, WorkerTypeOK, Jobs, Busy
<1>2. posted[p] \cup errored[p] \subseteq attached[p]
  BY <1>1 DEF Inv, RowsRight
<1>3. UNCHANGED <<posts, rowVars, queue, left>>
  BY DEF RecordResult, Mark, storeVars, schedulerVars
<1>4. CASE RecordResult(w)
  <2>1. /\ tx' = [tx EXCEPT ![w] =
                   [row |-> "posted",
                    verdict |-> Verdict(attached[p], posted[p] \cup {a}, errored[p] \ {a})]]
        /\ pc' = [pc EXCEPT ![w] = "commit"]
        /\ UNCHANGED job
    BY <1>1, <1>4 DEF RecordResult
  <2>2. OthersRest(w) /\ pc'[w] = "commit"
    BY <2>1 DEF OthersRest, Inv, TypeOK, WorkerTypeOK
  <2>3. WriteRight(w)'
    <3>1. /\ tx'[w].row = "posted"
          /\ tx'[w].verdict = Verdict(attached[p], posted[p] \cup {a}, errored[p] \ {a})
      BY <2>1 DEF Inv, TypeOK, WorkerTypeOK
    <3> QED
      BY <1>1, <1>2, <1>3, <2>1, <2>2, <3>1, VerdictMeans DEF WriteRight, rowVars
  <2> QED
    BY <1>0, <1>3, <2>1, <2>2, <2>3, WorkerLocal DEF Busy
<1>5. CASE Mark(w)
  <2>1. /\ tx' = [tx EXCEPT ![w] =
                   [row |-> "errored",
                    verdict |-> Verdict(attached[p], posted[p], errored[p] \cup {a})]]
        /\ pc' = [pc EXCEPT ![w] = "markcommit"]
        /\ UNCHANGED job
    BY <1>1, <1>5 DEF Mark
  <2>2. OthersRest(w) /\ pc'[w] = "markcommit"
    BY <2>1 DEF OthersRest, Inv, TypeOK, WorkerTypeOK
  <2>3. WriteRight(w)'
    <3>1. /\ tx'[w].row = "errored"
          /\ tx'[w].verdict = Verdict(attached[p], posted[p], errored[p] \cup {a})
      BY <2>1 DEF Inv, TypeOK, WorkerTypeOK
    <3> QED
      BY <1>1, <1>2, <1>3, <2>1, <2>2, <3>1, VerdictMeans DEF WriteRight, rowVars
  <2> QED
    BY <1>0, <1>3, <2>1, <2>2, <2>3, WorkerLocal DEF Busy
<1> QED
  BY <1>4, <1>5

(***************************************************************************)
(* A job moves from the queue to a worker and back.                        *)
(***************************************************************************)
LEMMA PopStep ==
  ASSUME Inv, TypeOK', WorkerShape', NEW w \in Workers, UNCHANGED schedulerVars,
         BRPop(w)
  PROVE  Inv'
<1> USE DEF Inv
<1>1. /\ queue \in Seq(Jobs) /\ queue # <<>> /\ queue' = Tail(queue)
      /\ job' = [job EXCEPT ![w] = queue[1]]
      /\ pc' = [pc EXCEPT ![w] = "fetch"]
      /\ UNCHANGED <<posts, rowVars, tx, left>>
  BY DEF BRPop, TypeOK, StoreTypeOK, schedulerVars
<1>2. /\ Len(queue) \in Nat /\ Len(queue) >= 1
      /\ Len(queue') = Len(queue) - 1
      /\ \A i \in 1..Len(queue') : queue'[i] = queue[i + 1] /\ i + 1 \in 1..Len(queue)
  BY <1>1
<1>3. 1 \in 1..Len(queue) /\ \A i \in 1..Len(queue') : i + 1 # 1
  BY <1>2
<1>4. /\ Busy' = Busy \cup {w} /\ w \notin Busy
      /\ job'[w] = queue[1] /\ \A v \in Busy : job'[v] = job[v]
  BY <1>1 DEF BRPop, Busy, TypeOK, WorkerTypeOK
<1>5. \A i, k \in 1..Len(queue') : JobPair(queue'[i]) = JobPair(queue'[k]) => i = k
  <2> SUFFICES ASSUME NEW i \in 1..Len(queue'), NEW k \in 1..Len(queue'),
                      JobPair(queue'[i]) = JobPair(queue'[k])
               PROVE  i = k
    OBVIOUS
  <2>1. i + 1 = k + 1
    BY <1>2 DEF JobsApart
  <2> QED
    BY <1>2, <2>1
<1>6. \A i \in 1..Len(queue'), v \in Busy' : JobPair(queue'[i]) # JobPair(job'[v])
  <2> SUFFICES ASSUME NEW i \in 1..Len(queue'), NEW v \in Busy'
               PROVE  JobPair(queue'[i]) # JobPair(job'[v])
    OBVIOUS
  <2>1. CASE v = w
    BY <1>2, <1>3, <1>4, <2>1 DEF JobsApart
  <2>2. CASE v # w
    BY <1>2, <1>4, <2>2 DEF JobsApart
  <2> QED
    BY <2>1, <2>2
<1>7. \A u, v \in Busy' : JobPair(job'[u]) = JobPair(job'[v]) => u = v
  BY <1>3, <1>4 DEF JobsApart
<1>8. \A i \in 1..Len(queue'), s \in Schedulers : JobPair(queue'[i]) \notin left'[s]
  BY <1>1, <1>2 DEF JobsApart
<1>9. \A v \in Busy', s \in Schedulers : JobPair(job'[v]) \notin left'[s]
  BY <1>1, <1>3, <1>4 DEF JobsApart
<1>10. JobsApart'
  <2>1. \A s, t \in Schedulers : \A pair \in left'[s] : pair \in left'[t] => s = t
    BY <1>1 DEF JobsApart
  <2> QED
    BY <1>5, <1>6, <1>7, <1>8, <1>9, <2>1 DEF JobsApart, JobPair
<1>11. JobsOpen'
  <2>1. \A pair : Open(pair) => Open(pair)'
    BY <1>1 DEF Open, rowVars
  <2>2. \A i \in 1..Len(queue') : Open(JobPair(queue'[i]))
    BY <1>2 DEF JobsOpen
  <2>3. \A v \in Busy' : Open(JobPair(job'[v]))
    BY <1>3, <1>4 DEF JobsOpen
  <2>4. \A s \in Schedulers : \A pair \in left'[s] : Open(pair)
    BY <1>1 DEF JobsOpen
  <2> QED
    BY <2>1, <2>2, <2>3, <2>4 DEF JobsOpen, JobPair
<1>12. VerdictsRight'
  <2>1. OthersRest(w) /\ WriteRight(w)'
    BY <1>1 DEF TypeOK, WorkerTypeOK, OthersRest, WriteRight
  <2> QED
    BY <1>1, <2>1, OtherWrites
<1> QED
  BY <1>1, <1>10, <1>11, <1>12, SameRows

LEMMA RetrySteps ==
  ASSUME Inv, TypeOK', WorkerShape', NEW w \in Workers, UNCHANGED schedulerVars,
         Retry(w) \/ RetryFails(w)
  PROVE  Inv'
<1> USE DEF Inv
<1> DEFINE j == NextAttempt(job[w])
<1>1. /\ Idle(w) /\ w \in Busy /\ UNCHANGED <<posts, rowVars, left>>
      /\ queue' = queue \/ queue' = Append(queue, j)
  BY DEF Retry, RetryFails, LPushFails, LPush, MayRetry, Busy, schedulerVars
<1>2. OthersRest(w) /\ WriteRight(w)' /\ pc'[w] = "idle"
  BY <1>1, IdleLocal
<1>3. CASE queue' = queue
  BY <1>1, <1>2, <1>3, WorkerLocal
<1>4. CASE queue' = Append(queue, j)
  <2>1. job[w] \in Jobs /\ job[w].attempt < MaxAttempts
    BY DEF Retry, RetryFails, MayRetry, TypeOK, WorkerTypeOK, WorkerShape
  <2>2. j \in Jobs /\ JobPair(j) = JobPair(job[w])
    BY <2>1, NextAttemptType DEF NextAttempt, JobPair, Jobs
  <2>3. /\ Busy' \subseteq Busy \ {w}
        /\ \A v \in Busy' : job'[v] = job[v]
    BY <1>2 DEF Busy, OthersRest
  <2>4. queue \in Seq(Jobs)
    BY DEF TypeOK, StoreTypeOK
  <2> HIDE DEF j
  <2>5. /\ Open(JobPair(j))
        /\ \A i \in 1..Len(queue) : JobPair(queue[i]) # JobPair(j)
        /\ \A v \in Busy' : JobPair(job[v]) # JobPair(j)
        /\ \A s \in Schedulers : JobPair(j) \notin left'[s]
    BY <1>1, <2>2, <2>3 DEF JobsApart, JobsOpen
  <2>6. JobsApart' /\ JobsOpen'
    BY <1>1, <1>4, <2>2, <2>3, <2>4, <2>5, JobQueued
  <2> QED
    BY <1>1, <1>2, <2>6, OtherWrites, SameRows
<1> QED
  BY <1>1, <1>3, <1>4

(***************************************************************************)
(* COMMIT: the row of the job gets its outcome and the job is gone.  If a  *)
(* verdict goes with it, no other row of the post was open, so nobody else *)
(* has a job or uncommitted writes for that post.                          *)
(***************************************************************************)
LEMMA CommitEffect ==
  ASSUME Inv, NEW w \in Workers, Commit(w) \/ CommitMark(w),
         NEW p, p = job[w].post, NEW a, a = job[w].account, NEW v, v = tx[w].verdict
  PROVE  /\ Idle(w) /\ w \in Busy /\ pc[w] \in {"commit", "markcommit"}
         /\ p \in Posts /\ a \in Accounts
         /\ tx[w].row \in {"posted", "errored"}
         /\ v \in {"none", "published", "failed"}
         /\ posts[p] \in PostRow
         /\ UNCHANGED <<attached, queue>>
         /\ posts[p].sched = ScheduleRunning
         /\ a \in attached[p] /\ a \notin posted[p] \cup errored[p]
         /\ posts'[p] = Finalized(posts[p], v)
         /\ \A q \in Posts : q # p => posts'[q] = posts[q] /\ posted'[q] = posted[q]
                                      /\ errored'[q] = errored[q]
         /\ tx[w].row = "posted" =>
              posted'[p] = posted[p] \cup {a} /\ errored'[p] = errored[p]
         /\ tx[w].row = "errored" =>
              posted'[p] = posted[p] /\ errored'[p] = errored[p] \cup {a}
         /\ v # "none" => attached[p] \ {a} \subseteq posted[p] \cup errored[p]
<1> USE DEF Inv
<1>1. /\ Idle(w) /\ Apply(w) /\ w \in Busy
      /\ pc[w] \in {"commit", "markcommit"}
      /\ UNCHANGED <<attached, queue>>
  BY DEF Commit, CommitMark, Apply, Busy
<1>2. /\ p \in Posts /\ a \in Accounts
      /\ tx[w].row \in {"posted", "errored"}
      /\ v \in {"none", "published", "failed"}
      /\ posts[p] \in PostRow
  <2>1. job[w] \in Jobs /\ tx[w] \in TxWrites
    BY <1>1 DEF TypeOK, WorkerTypeOK, WorkerShape
  <2>2. tx[w].row # "none"
    BY <1>1 DEF VerdictsRight, WriteRight
  <2> QED
    BY <2>1, <2>2 DEF Jobs, TxWrites, TypeOK, StoreTypeOK
<1>3. /\ posts[p].sched = ScheduleRunning
      /\ a \in attached[p] /\ a \notin posted[p] \cup errored[p]
  BY <1>1 DEF JobsOpen, Open, JobPair
\* The rows after the step.
<1>4. /\ posts' = [posts EXCEPT ![p] = Finalized(posts[p], v)]
      /\ \A q \in Posts : q # p => posts'[q] = posts[q] /\ posted'[q] = posted[q]
                                   /\ errored'[q] = errored[q]
      /\ posts'[p] = Finalized(posts[p], v)
  <2>1. posts' = [posts EXCEPT ![p] = Finalized(posts[p], v)]
    BY <1>1 DEF Apply
  <2>2. \A q \in Posts : q # p => posted'[q] = posted[q]
    BY <1>1, <1>2 DEF Apply, PostedAfter, TypeOK, StoreTypeOK
  <2>3. \A q \in Posts : q # p => errored'[q] = errored[q]
    <3>1. CASE tx[w].row = "posted"
      BY <1>1, <1>2, <3>1 DEF Apply, ErroredAfter, TypeOK, StoreTypeOK
    <3>2. CASE tx[w].row = "errored"
      BY <1>1, <1>2, <3>2 DEF Apply, ErroredAfter, TypeOK, StoreTypeOK
    <3> QED
      BY <1>2, <3>1, <3>2
  <2> QED
    BY <1>2, <2>1, <2>2, <2>3 DEF TypeOK, StoreTypeOK
<1>5. \/ /\ tx[w].row = "posted"
         /\ posted'[p] = posted[p] \cup {a} /\ errored'[p] = errored[p]
      \/ /\ tx[w].row = "errored"
         /\ posted'[p] = posted[p] /\ errored'[p] = errored[p] \cup {a}
  <2>1. CASE tx[w].row = "posted"
    <3>1. posted'[p] = posted[p] \cup {a}
      BY <1>1, <1>2, <2>1 DEF Apply, PostedAfter, TypeOK, StoreTypeOK
    <3>2. errored'[p] = errored[p] \ {a}
      BY <1>1, <1>2, <2>1 DEF Apply, ErroredAfter, TypeOK, StoreTypeOK
    <3> QED
      BY <1>3, <2>1, <3>1, <3>2
  <2>2. CASE tx[w].row = "errored"
    <3>1. posted'[p] = posted[p]
      BY <1>1, <2>2 DEF Apply, PostedAfter
    <3>2. errored'[p] = errored[p] \cup {a}
      BY <1>1, <1>2, <2>2 DEF Apply, ErroredAfter, TypeOK, StoreTypeOK
    <3> QED
      BY <2>2, <3>1, <3>2
  <2> QED
    BY <1>2, <2>1, <2>2
<1>6. v # "none" => attached[p] \ {a} \subseteq posted[p] \cup errored[p]
  BY <1>1 DEF VerdictsRight, WriteRight
<1> QED
  BY <1>1, <1>2, <1>3, <1>4, <1>5, <1>6

LEMMA CommitSteps ==
  ASSUME Inv, TypeOK', WorkerShape', NEW w \in Workers, UNCHANGED schedulerVars,
         Commit(w) \/ CommitMark(w)
  PROVE  Inv'
<1> USE DEF Inv
<1> DEFINE p == job[w].post
           a == job[w].account
           v == tx[w].verdict
<1>1. /\ Idle(w) /\ w \in Busy /\ pc[w] \in {"commit", "markcommit"}
      /\ UNCHANGED <<attached, queue, left>>
  BY CommitEffect DEF schedulerVars
<1>2. /\ p \in Posts /\ a \in Accounts
      /\ tx[w].row \in {"posted", "errored"}
      /\ v \in {"none", "published", "failed"}
      /\ posts[p] \in PostRow
  BY CommitEffect
<1>3. /\ posts[p].sched = ScheduleRunning
      /\ a \in attached[p] /\ a \notin posted[p] \cup errored[p]
  BY CommitEffect
<1>4. /\ \A q \in Posts : q # p => posts'[q] = posts[q] /\ posted'[q] = posted[q]
                                   /\ errored'[q] = errored[q]
      /\ posts'[p] = Finalized(posts[p], v)
  BY CommitEffect
<1>5. /\ tx[w].row = "posted" =>
           posted'[p] = posted[p] \cup {a} /\ errored'[p] = errored[p]
      /\ tx[w].row = "errored" =>
           posted'[p] = posted[p] /\ errored'[p] = errored[p] \cup {a}
  BY CommitEffect
<1>6. posted'[p] \cup errored'[p] = posted[p] \cup errored[p] \cup {a}
  BY <1>2, <1>5
<1>7. v # "none" => attached[p] \ {a} \subseteq posted[p] \cup errored[p]
  BY CommitEffect
\* Jobs of other pairs stay open.
<1>8. \A pair \in Pairs : Open(pair) /\ pair # <<p, a>> => Open(pair)'
  <2> SUFFICES ASSUME NEW q \in Posts, NEW b \in Accounts, Open(<<q, b>>), <<q, b>> # <<p, a>>
               PROVE  Open(<<q, b>>)'
    BY DEF Pairs
  <2>1. /\ posts[q].sched = ScheduleRunning
        /\ b \in attached[q] /\ b \notin posted[q] \cup errored[q]
    BY DEF Open
  <2>2. CASE q # p
    BY <1>1, <1>4, <2>1, <2>2 DEF Open
  <2>3. CASE q = p
    <3>1. b # a
      BY <2>3
    <3>2. v = "none"
      BY <1>7, <2>1, <2>3, <3>1
    <3>3. posts'[p] = posts[p]
      BY <1>2, <1>4, <3>2, FinalizedRow
    <3> QED
      BY <1>1, <1>6, <2>1, <2>3, <3>1, <3>3 DEF Open
  <2> QED
    BY <2>2, <2>3
<1>9. /\ OthersRest(w) /\ pc'[w] = "idle"
      /\ Busy' \subseteq Busy \ {w} /\ \A u \in Busy' : job'[u] = job[u]
  BY <1>1, IdleLocal DEF Busy, OthersRest
<1>10. JobsApart'
  BY <1>1, <1>9 DEF JobsApart, JobPair
<1>11. JobsOpen'
  <2>1. \A i \in 1..Len(queue) : JobPair(queue[i]) \in Pairs
    <3>1. \A i \in 1..Len(queue) : queue[i] \in Jobs
      BY DEF TypeOK, StoreTypeOK
    <3> QED
      BY <3>1 DEF Jobs, JobPair, Pairs
  <2>2. \A u \in Busy : JobPair(job[u]) \in Pairs
    BY DEF TypeOK, WorkerTypeOK, WorkerShape, Busy, Jobs, JobPair, Pairs
  <2>3. \A s \in Schedulers : left[s] \subseteq Pairs
    BY DEF TypeOK, SchedulerTypeOK, Pairs
  <2>4. JobPair(job[w]) = <<p, a>>
    BY DEF JobPair
  <2>5. \A i \in 1..Len(queue) : Open(JobPair(queue[i]))'
    <3>1. \A i \in 1..Len(queue) : Open(JobPair(queue[i])) /\ JobPair(queue[i]) # <<p, a>>
      BY <1>1, <2>4 DEF JobsApart, JobsOpen
    <3> QED
      BY <1>1, <1>8, <2>1, <3>1 DEF Open, JobPair
  <2>6. \A u \in Busy' : Open(JobPair(job[u])) /\ JobPair(job[u]) # <<p, a>>
    BY <1>1, <1>9, <2>4 DEF JobsApart, JobsOpen
  <2>7. \A u \in Busy' : Open(JobPair(job[u]))'
    BY <1>8, <1>9, <2>2, <2>6 DEF Open, JobPair
  <2>8. \A s \in Schedulers : \A pair \in left[s] : Open(pair)'
    <3>1. \A s \in Schedulers : \A pair \in left[s] : Open(pair) /\ pair # <<p, a>>
      BY <1>1, <2>4 DEF JobsApart, JobsOpen
    <3> QED
      BY <1>8, <2>3, <3>1
  <2> QED
    BY <1>1, <2>5, <2>7, <2>8 DEF JobsOpen
<1>12. RowsRight'
  <2> SUFFICES ASSUME NEW q \in Posts
               PROVE  /\ posted'[q] \cup errored'[q] \subseteq attached[q]
                      /\ posted'[q] \cap errored'[q] = {}
                      /\ posts'[q].sched = SchedulePending
                           => posted'[q] = {} /\ errored'[q] = {}
    BY <1>1 DEF RowsRight
  <2>1. CASE q # p
    BY <1>4, <2>1 DEF RowsRight
  <2>2. CASE q = p
    <3>1. posts'[p].sched \in {ScheduleRunning, ScheduleComplete}
      BY <1>2, <1>3, <1>4, FinalizedRow
    <3>2. posts'[p].sched # SchedulePending
      BY <3>1 DEF SchedulePending, ScheduleRunning, ScheduleComplete
    <3> QED
      BY <1>2, <1>3, <1>5, <2>2, <3>2 DEF RowsRight
  <2> QED
    BY <2>1, <2>2
<1>13. VerdictsRight'
  <2> SUFFICES ASSUME NEW u \in Workers PROVE WriteRight(u)'
    BY DEF VerdictsRight
  <2>1. CASE u = w
    BY <1>1, <2>1, IdleLocal
  <2>2. CASE u # w /\ pc[u] \in {"commit", "markcommit"}
    <3>1. u \in Busy /\ JobPair(job[u]) # <<p, a>> /\ Open(JobPair(job[u]))
      BY <1>1, <2>2 DEF Busy, JobsApart, JobsOpen, JobPair
    <3>2. /\ job[u].post \in Posts /\ job[u].account \in attached[job[u].post]
          /\ job[u].account \notin posted[job[u].post] \cup errored[job[u].post]
      BY <3>1 DEF Open, JobPair, TypeOK, WorkerTypeOK, WorkerShape, Busy, Jobs
    <3>3. job'[u] = job[u] /\ tx'[u] = tx[u] /\ pc'[u] = pc[u]
      BY <1>9, <2>2 DEF OthersRest
    <3>4. CASE job[u].post # p
      BY <1>1, <1>4, <3>2, <3>3, <3>4, <2>2 DEF VerdictsRight, WriteRight
    <3>5. CASE job[u].post = p
      <4>1. job[u].account # a
        BY <3>1, <3>5 DEF JobPair
      <4>2. tx[u].verdict = "none"
        BY <1>3, <2>2, <3>5, <4>1 DEF VerdictsRight, WriteRight
      <4>3. tx[u].row # "none"
        BY <2>2 DEF VerdictsRight, WriteRight
      <4> QED
        BY <3>3, <4>2, <4>3 DEF WriteRight
    <3> QED
      BY <3>4, <3>5
  <2>3. CASE u # w /\ pc[u] \notin {"commit", "markcommit"}
    BY <1>9, <2>3 DEF OthersRest, WriteRight
  <2> QED
    BY <2>1, <2>2, <2>3
<1>14. FinalStatusCorrect'
  <2> SUFFICES ASSUME NEW q \in Posts PROVE StatusRight(q)'
    BY DEF FinalStatusCorrect
  <2>1. CASE q # p
    BY <1>1, <1>4, <2>1 DEF FinalStatusCorrect, StatusRight
  <2>2. CASE q = p /\ v = "none"
    <3>1. posts'[p] = posts[p]
      BY <1>2, <1>4, <2>2, FinalizedRow
    <3>2. posts[p].status \notin {StatusPublished, StatusFailed}
      BY <1>2, <1>3 DEF FinalStatusCorrect, StatusRight, ScheduleRunning, ScheduleComplete
    <3>3. posts[p].sched # ScheduleComplete
      BY <1>3 DEF ScheduleRunning, ScheduleComplete
    <3> QED
      BY <2>2, <3>1, <3>2, <3>3 DEF StatusRight
  <2>3. CASE q = p /\ v = "published"
    <3>1. posts'[p].status = StatusPublished /\ posts'[p].sched = ScheduleComplete
      BY <1>2, <1>4, <2>3, FinalizedRow
    <3>2. tx[w].row = "posted" /\ errored[p] = {}
      BY <1>1, <2>3 DEF VerdictsRight, WriteRight
    <3>3. attached[p] \subseteq posted'[p] /\ errored'[p] = {}
      BY <1>2, <1>5, <1>7, <2>3, <3>2
    <3> QED
      BY <1>1, <1>3, <2>3, <3>1, <3>3, StatusRange DEF StatusRight
  <2>4. CASE q = p /\ v = "failed"
    <3>1. posts'[p].status = StatusFailed /\ posts'[p].sched = ScheduleComplete
      BY <1>2, <1>4, <2>4, FinalizedRow
    <3>2. tx[w].row = "errored" \/ errored[p] # {}
      BY <1>1, <2>4 DEF VerdictsRight, WriteRight
    <3>3. errored'[p] # {}
      BY <1>2, <1>5, <3>2
    <3>4. attached[p] \subseteq posted'[p] \cup errored'[p]
      BY <1>6, <1>7, <2>4
    <3> QED
      BY <1>1, <2>4, <3>1, <3>3, <3>4, StatusRange DEF StatusRight
  <2> QED
    BY <1>2, <2>1, <2>2, <2>3, <2>4
<1> QED
  BY <1>10, <1>11, <1>12, <1>13, <1>14

(***************************************************************************)
(* Schedulers.  A pending post has no open row, hence nobody has a job of  *)
(* it when it is claimed; the jobs still to push are all the rows it has.  *)
(***************************************************************************)
LEMMA ClaimStep ==
  ASSUME Inv, TypeOK', WorkerShape', NEW s \in Schedulers, NEW p \in Posts,
         Claim(s, p), UNCHANGED workerVars
  PROVE  Inv'
<1> USE DEF Inv
<1>1. /\ left[s] = {} /\ IsClaimable(posts[p])
      /\ posts' = [posts EXCEPT ![p] = Claimed(p)]
      /\ left' = [left EXCEPT ![s] = {p} \X attached[p]]
      /\ UNCHANGED <<rowVars, queue>>
  BY DEF Claim
<1>2. /\ posts[p] \in PostRow
      /\ posts[p].sched = SchedulePending /\ posts[p].status = StatusScheduled
      /\ posted[p] = {} /\ errored[p] = {}
  BY <1>1 DEF IsClaimable, RowsRight, TypeOK, StoreTypeOK
<1>3. /\ \A q \in Posts : q # p => posts'[q] = posts[q]
      /\ posts'[p] = Claimed(p)
  BY <1>1 DEF TypeOK, StoreTypeOK
<1>4. /\ \A t \in Schedulers : t # s => left'[t] = left[t]
      /\ left'[s] = {p} \X attached[p]
  BY <1>1 DEF TypeOK, SchedulerTypeOK
\* The new jobs are of pairs nobody else has.
<1>5. \A pair : Open(pair) => pair[1] # p
  BY <1>2 DEF Open, SchedulePending, ScheduleRunning
<1>6. \A pair \in left'[s] : pair[1] = p
  BY <1>4
<1>7. \A pair \in Pairs : Open(pair) => Open(pair)'
  BY <1>1, <1>3, <1>5 DEF Open, Pairs, rowVars
<1>8. Busy' = Busy /\ UNCHANGED <<job, queue>>
  BY <1>1 DEF Busy, workerVars
<1>9. JobsApart'
  <2>1. \A t, u \in Schedulers : \A pair \in left'[t] : pair \in left'[u] => t = u
    BY <1>4, <1>5, <1>6 DEF JobsApart, JobsOpen
  <2>2. \A i \in 1..Len(queue), t \in Schedulers : JobPair(queue[i]) \notin left'[t]
    BY <1>4, <1>5, <1>6 DEF JobsApart, JobsOpen
  <2>3. \A w \in Busy, t \in Schedulers : JobPair(job[w]) \notin left'[t]
    BY <1>4, <1>5, <1>6 DEF JobsApart, JobsOpen
  <2> QED
    BY <1>8, <2>1, <2>2, <2>3 DEF JobsApart, JobPair
<1>10. JobsOpen'
  <2>1. \A i \in 1..Len(queue) : JobPair(queue[i]) \in Pairs
    <3>1. \A i \in 1..Len(queue) : queue[i] \in Jobs
      BY DEF TypeOK, StoreTypeOK
    <3> QED
      BY <3>1 DEF Jobs, JobPair, Pairs
  <2>2. \A w \in Busy : JobPair(job[w]) \in Pairs
    BY DEF TypeOK, WorkerTypeOK, WorkerShape, Busy, Jobs, JobPair, Pairs
  <2>3. \A t \in Schedulers : left[t] \subseteq Pairs
    BY DEF TypeOK, SchedulerTypeOK, Pairs
  <2>4. \A pair \in left'[s] : Open(pair)'
    <3> SUFFICES ASSUME NEW a \in attached[p] PROVE Open(<<p, a>>)'
      BY <1>4
    <3>1. posts'[p].sched = ScheduleRunning
      BY <1>2, <1>3, ClaimedRow
    <3> QED
      BY <1>1, <1>2, <3>1 DEF Open, rowVars
  <2>5. \A t \in Schedulers : \A pair \in left'[t] : Open(pair)'
    BY <1>4, <1>7, <2>3, <2>4 DEF JobsOpen
  <2>6. \A i \in 1..Len(queue) : Open(JobPair(queue[i]))'
    BY <1>7, <1>8, <2>1 DEF JobsOpen, Open, JobPair
  <2>7. \A w \in Busy : Open(JobPair(job[w]))'
    BY <1>7, <1>8, <2>2 DEF JobsOpen, Open, JobPair
  <2> QED
    BY <1>8, <2>5, <2>6, <2>7 DEF JobsOpen
<1>11. RowsRight'
  <2>1. posts'[p].sched # SchedulePending
    BY <1>2, <1>3, ClaimedRow DEF SchedulePending, ScheduleRunning, ScheduleComplete
  <2> QED
    BY <1>1, <1>3, <2>1 DEF RowsRight, rowVars
<1>12. VerdictsRight'
  BY <1>1, SameWrites
<1>13. FinalStatusCorrect'
  <2> SUFFICES ASSUME NEW q \in Posts PROVE StatusRight(q)'
    BY DEF FinalStatusCorrect
  <2>1. CASE q # p
    BY <1>1, <1>3, <2>1 DEF FinalStatusCorrect, StatusRight, rowVars
  <2>2. CASE q = p /\ attached[p] = {}
    BY <1>1, <1>2, <1>3, <2>2, ClaimedRow, StatusRange DEF StatusRight, rowVars
  <2>3. CASE q = p /\ attached[p] # {}
    <3>1. posts'[p].status = StatusScheduled /\ posts'[p].sched = ScheduleRunning
      BY <1>2, <1>3, <2>3, ClaimedRow
    <3> QED
      BY <2>3, <3>1 DEF StatusRight, StatusScheduled, StatusPublished, StatusFailed,
                        ScheduleRunning, ScheduleComplete
  <2> QED
    BY <2>1, <2>2, <2>3
<1> QED
  BY <1>9, <1>10, <1>11, <1>12, <1>13

LEMMA PushSteps ==
  ASSUME Inv, TypeOK', WorkerShape', NEW s \in Schedulers, UNCHANGED workerVars,
         Push(s) \/ PushFails(s)
  PROVE  Inv'
<1> USE DEF Inv
<1>1. PICK pair \in left[s] :
        /\ queue' = queue \/ queue' = Append(queue, FirstJob(pair))
        /\ left' = [left EXCEPT ![s] = @ \ {pair}] \/ left' = [left EXCEPT ![s] = {}]
  BY DEF Push, PushFails, LPush, LPushFails, AbandonScan
<1>2. UNCHANGED <<posts, rowVars>>
  BY DEF Push, PushFails
<1>3. Busy' = Busy /\ UNCHANGED job
  BY DEF Busy, workerVars
<1>4. /\ \A t \in Schedulers : left'[t] \subseteq left[t]
      /\ pair \notin left'[s]
      /\ \A t \in Schedulers : t # s => left'[t] = left[t]
  BY <1>1 DEF TypeOK, SchedulerTypeOK
<1>5. CASE queue' = queue
  BY <1>2, <1>3, <1>4, <1>5, FewerJobs, SameRows, SameWrites
<1>6. CASE queue' = Append(queue, FirstJob(pair))
  <2> DEFINE j == FirstJob(pair)
  <2>1. pair \in Posts \X Accounts
    BY DEF TypeOK, SchedulerTypeOK
  <2>2. j \in Jobs
    BY <2>1, FirstJobType
  <2>3. JobPair(j) = pair
    BY <2>1 DEF JobPair, FirstJob
  <2>4. queue \in Seq(Jobs)
    BY DEF TypeOK, StoreTypeOK
  <2> HIDE DEF j
  <2>5. /\ Open(JobPair(j))
        /\ \A i \in 1..Len(queue) : JobPair(queue[i]) # JobPair(j)
        /\ \A v \in Busy' : JobPair(job[v]) # JobPair(j)
        /\ \A t \in Schedulers : JobPair(j) \notin left'[t]
    BY <1>3, <1>4, <2>3 DEF JobsApart, JobsOpen
  <2>6. queue' = Append(queue, j)
    BY <1>6 DEF j
  <2>7. JobsApart' /\ JobsOpen'
    BY <1>2, <1>3, <1>4, <2>2, <2>4, <2>5, <2>6, JobQueued
  <2> QED
    BY <1>2, <2>7, SameRows, SameWrites
<1> QED
  BY <1>1, <1>5, <1>6

LEMMA SchedulerInv ==
  ASSUME Inv, TypeOK', WorkerShape', NEW s \in Schedulers, UNCHANGED workerVars,
         SchedulerStep(s) \/ SchedulerFault(s), NoDuplicates
  PROVE  Inv'
<1>1. ASSUME UNCHANGED storeVars, left' = left \/ AbandonScan(s)
      PROVE  Inv'
  <2>1. \A t \in Schedulers : left'[t] \subseteq left[t]
    BY <1>1 DEF AbandonScan, Inv, TypeOK, SchedulerTypeOK
  <2>2. Busy' = Busy /\ UNCHANGED <<job, posts, rowVars, queue>>
    BY <1>1 DEF Busy, workerVars, storeVars
  <2> QED
    BY <2>1, <2>2, FewerJobs, SameRows, SameWrites DEF Inv
<1>2. CASE Scan(s) \/ (\E p \in Posts : SkipClaim(s, p)) \/ ClaimFails(s)
           \/ SchedulerCrash(s)
  BY <1>1, <1>2 DEF Scan, SkipClaim, ClaimFails, SchedulerCrash
<1>3. CASE \E p \in Posts : Claim(s, p)
  BY <1>3, ClaimStep
<1>4. CASE Push(s) \/ PushFails(s)
  BY <1>4, PushSteps
<1>5. ~PushDup(s) /\ \A p \in Posts : ~ClaimUnknown(s, p)
  BY DEF NoDuplicates, PushDup, ClaimUnknown
<1> QED
  BY <1>2, <1>3, <1>4, <1>5 DEF SchedulerStep, SchedulerFault

(***************************************************************************)
(* The clock and the Redis server.                                         *)
(***************************************************************************)
LEMMA StoreInv ==
  ASSUME Inv, TypeOK', WorkerShape', StoreNext, UNCHANGED <<schedulerVars, workerVars>>
  PROVE  Inv'
<1> USE DEF Inv
<1>0. Busy' = Busy /\ UNCHANGED <<job, left>>
  BY DEF Busy, workerVars, schedulerVars
<1>1. CASE RedisRestart
  <2>1. queue' = <<>> /\ UNCHANGED <<posts, rowVars>>
    BY <1>1 DEF RedisRestart
  <2>2. JobsApart'
    BY <1>0, <2>1 DEF JobsApart, JobPair
  <2>3. JobsOpen'
    BY <1>0, <2>1 DEF JobsOpen, Open, JobPair, rowVars
  <2> QED
    BY <2>1, <2>2, <2>3, SameRows, SameWrites
<1>2. ASSUME NEW p \in Posts, ComesDue(p) PROVE Inv'
  <2>1. /\ posts' = [posts EXCEPT ![p] = [posts[p] EXCEPT !.at = "due"]]
        /\ UNCHANGED <<rowVars, queue>>
    BY <1>2 DEF ComesDue
  <2>2. ASSUME NEW post \in PostRow
        PROVE  /\ [post EXCEPT !.at = "due"].status = post.status
               /\ [post EXCEPT !.at = "due"].sched = post.sched
    BY DEF PostRow
  <2>3. \A q \in Posts : posts'[q].status = posts[q].status /\ posts'[q].sched = posts[q].sched
    BY <2>1, <2>2 DEF TypeOK, StoreTypeOK
  <2>4. JobsApart'
    BY <1>0, <2>1 DEF JobsApart, JobPair
  <2>5. \A pair \in Pairs : Open(pair) => Open(pair)'
    BY <2>1, <2>3 DEF Open, Pairs, rowVars
  <2>6. JobsOpen'
    <3>1. \A i \in 1..Len(queue) : JobPair(queue[i]) \in Pairs
      <4>1. \A i \in 1..Len(queue) : queue[i] \in Jobs
        BY DEF TypeOK, StoreTypeOK
      <4> QED
        BY <4>1 DEF Jobs, JobPair, Pairs
    <3>2. \A w \in Busy : JobPair(job[w]) \in Pairs
      BY DEF TypeOK, WorkerTypeOK, WorkerShape, Busy, Jobs, JobPair, Pairs
    <3>3. \A s \in Schedulers : left[s] \subseteq Pairs
      BY DEF TypeOK, SchedulerTypeOK, Pairs
    <3>4. \A i \in 1..Len(queue) : Open(JobPair(queue[i]))'
      BY <1>0, <2>1, <2>5, <3>1 DEF JobsOpen, Open, JobPair
    <3>5. \A w \in Busy : Open(JobPair(job[w]))'
      BY <1>0, <2>5, <3>2 DEF JobsOpen, Open, JobPair
    <3>6. \A s \in Schedulers : \A pair \in left[s] : Open(pair)'
      BY <2>5, <3>3 DEF JobsOpen
    <3> QED
      BY <1>0, <2>1, <3>4, <3>5, <3>6 DEF JobsOpen
  <2>7. RowsRight'
    BY <2>1, <2>3 DEF RowsRight, rowVars
  <2>8. FinalStatusCorrect'
    BY <2>1, <2>3 DEF FinalStatusCorrect, StatusRight, rowVars
  <2> QED
    BY <2>1, <2>4, <2>6, <2>7, <2>8, SameWrites
<1> QED
  BY <1>1, <1>2 DEF StoreNext

LEMMA WorkerInv ==
  ASSUME Inv, TypeOK', WorkerShape', NEW w \in Workers, UNCHANGED schedulerVars,
         WorkerStep(w) \/ WorkerFault(w), NoDuplicates
  PROVE  Inv'
<1>1. ~CommitUnknown(w) /\ ~RetryDup(w)
  BY DEF NoDuplicates, CommitUnknown, RetryDup
<1> QED
  BY <1>1, PopStep, ReadSteps, RecordSteps, CommitSteps, RetrySteps
     DEF WorkerStep, WorkerFault

LEMMA NextInv == NoDuplicates /\ Inv /\ [Next]_vars => Inv'
<1> SUFFICES ASSUME NoDuplicates, Inv, [Next]_vars PROVE Inv'
  OBVIOUS
<1>1. TypeOK' /\ WorkerShape'
  BY NextType DEF Inv
<1>2. CASE SchedulerNext /\ UNCHANGED workerVars
  BY <1>1, <1>2, SchedulerInv DEF SchedulerNext
<1>3. CASE WorkerNext /\ UNCHANGED schedulerVars
  BY <1>1, <1>3, WorkerInv DEF WorkerNext
<1>4. CASE StoreNext /\ UNCHANGED <<schedulerVars, workerVars>>
  BY <1>1, <1>4, StoreInv
<1>5. CASE UNCHANGED vars
  <2>1. /\ UNCHANGED <<posts, rowVars, queue, left>> /\ UNCHANGED workerVars
        /\ Busy' = Busy /\ UNCHANGED job
    BY <1>5 DEF vars, storeVars, schedulerVars, workerVars, Busy
  <2> QED
    BY <1>1, <2>1, FewerJobs, SameRows, SameWrites DEF Inv
<1> QED
  BY <1>2, <1>3, <1>4, <1>5 DEF Next

(***************************************************************************)
(* The invariant of the pipeline holds at any moment, as long as no push   *)
(* is duplicated and no commit is in doubt.                                *)
(***************************************************************************)
THEOREM InvInvariant == ASSUME NoDuplicates PROVE Spec => []Inv
<1>1. Init => Inv
  BY InitInv
<1>2. Inv /\ [Next]_vars => Inv'
  BY NextInv
<1> QED
  BY <1>1, <1>2, PTL DEF Spec

(***************************************************************************)
(* A finalized post has the status its rows call for, however many workers *)
(* finalize concurrently.                                                  *)
(***************************************************************************)
THEOREM FinalStatus == ASSUME NoDuplicates PROVE Spec => []FinalStatusCorrect
<1>1. Inv => FinalStatusCorrect
  BY DEF Inv
<1> QED
  BY <1>1, InvInvariant, PTL

\* The invariant keeps the job of a row in one place.
LEMMA InvOneJob == Inv => OneJobPerAccount
<1> SUFFICES ASSUME Inv, NEW pair \in Pairs
             PROVE  /\ \A x, y \in Holders(pair) : x = y
                    /\ Holders(pair) # {} => Open(pair)
  BY DEF OneJobPerAccount
<1>1. DOMAIN queue = 1..Len(queue)
  BY DEF Inv, TypeOK, StoreTypeOK
<1>2. \A w \in Workers : job[w] # NoJob => w \in Busy
  BY DEF Inv, WorkerShape, Busy
<1>3. ASSUME NEW x \in Holders(pair)
      PROVE  \/ \E i \in 1..Len(queue) : x = <<"queue", i>> /\ JobPair(queue[i]) = pair
             \/ \E w \in Busy : x = <<"worker", w>> /\ JobPair(job[w]) = pair
             \/ \E s \in Schedulers : x = <<"scheduler", s>> /\ pair \in left[s]
  BY <1>1, <1>2 DEF Holders
<1>4. \A x, y \in Holders(pair) : x = y
  BY <1>3 DEF Inv, JobsApart
<1>5. Holders(pair) # {} => Open(pair)
  BY <1>3 DEF Inv, JobsOpen
<1> QED
  BY <1>4, <1>5

(***************************************************************************)
(* One job per post_accounts row, in one place, and none once the row is   *)
(* settled.                                                                *)
(***************************************************************************)
THEOREM OneJob == ASSUME NoDuplicates PROVE Spec => []OneJobPerAccount
BY InvOneJob, InvInvariant, PTL

(***************************************************************************)
(* Refinement: a claim is the contract's Start, a commit its Settle, every *)
(* other step a stutter.                                                   *)
(***************************************************************************)
LEMMA SameBar ==
  ASSUME UNCHANGED <<attached, posted, errored>>,
         \A p \in Posts : posts'[p].sched = posts[p].sched /\ posts'[p].status = posts[p].status
  PROVE  UNCHANGED <<attached, phaseBar, outcomeBar>>
BY DEF phaseBar, outcomeBar, PhaseOf, OutcomeOf

LEMMA InitContract == Init => Contract!Init
<1> SUFFICES ASSUME Init PROVE Contract!Init
  OBVIOUS
<1>1. attached \in [Posts -> SUBSET Accounts]
  BY DEF Init
<1>2. phaseBar = [p \in Posts |-> "waiting"]
  <2>1. \A p \in Posts : posts[p].sched = SchedulePending
    BY DEF Init, NewPostRow
  <2> QED
    BY <2>1 DEF phaseBar, PhaseOf
<1>3. outcomeBar = [p \in Posts |-> [a \in Accounts |-> "pending"]]
  BY DEF Init, outcomeBar, OutcomeOf
<1> QED
  BY <1>1, <1>2, <1>3 DEF Contract!Init

LEMMA ClaimContract ==
  ASSUME Inv, NEW s \in Schedulers, NEW p \in Posts, Claim(s, p)
  PROVE  Contract!Start(p)
<1>1. /\ posts[p].sched = SchedulePending /\ posts[p] \in PostRow
      /\ posts' = [posts EXCEPT ![p] = Claimed(p)]
      /\ UNCHANGED rowVars
  BY DEF Claim, IsClaimable, Inv, TypeOK, StoreTypeOK
<1>2. posts'[p] = Claimed(p) /\ \A q \in Posts : q # p => posts'[q] = posts[q]
  BY <1>1 DEF Inv, TypeOK, StoreTypeOK
<1>3. phaseBar[p] = "waiting"
  BY <1>1 DEF phaseBar, PhaseOf
<1>4. PhaseOf(posts'[p]) = IF attached[p] = {} THEN "failed" ELSE "running"
  BY <1>1, <1>2, ClaimedRow
     DEF PhaseOf, SchedulePending, ScheduleRunning, ScheduleComplete,
         StatusFailed, StatusPublished
<1>5. phaseBar' = [phaseBar EXCEPT ![p] = IF attached[p] = {} THEN "failed" ELSE "running"]
  BY <1>2, <1>4 DEF phaseBar, PhaseOf
<1>6. UNCHANGED <<attached, outcomeBar>>
  BY <1>1 DEF outcomeBar, OutcomeOf, rowVars
<1> QED
  BY <1>3, <1>5, <1>6 DEF Contract!Start

LEMMA CommitContract ==
  ASSUME Inv, Inv', NEW w \in Workers, Commit(w) \/ CommitMark(w)
  PROVE  \E p \in Posts, a \in Accounts, result \in {"posted", "errored"} :
           Contract!Settle(p, a, result)
<1>0. PICK p, a, v, result :
        p = job[w].post /\ a = job[w].account /\ v = tx[w].verdict /\ result = tx[w].row
  OBVIOUS
<1>1. /\ p \in Posts /\ a \in Accounts /\ result \in {"posted", "errored"}
      /\ v \in {"none", "published", "failed"} /\ posts[p] \in PostRow
  BY <1>0, CommitEffect
<1>2. /\ posts[p].sched = ScheduleRunning /\ UNCHANGED attached
      /\ a \in attached[p] /\ a \notin posted[p] \cup errored[p]
  BY <1>0, CommitEffect
<1>3. /\ \A q \in Posts : q # p => posts'[q] = posts[q] /\ posted'[q] = posted[q]
                                   /\ errored'[q] = errored[q]
      /\ posts'[p] = Finalized(posts[p], v)
  BY <1>0, CommitEffect
<1>4. /\ result = "posted" =>
           posted'[p] = posted[p] \cup {a} /\ errored'[p] = errored[p]
      /\ result = "errored" =>
           posted'[p] = posted[p] /\ errored'[p] = errored[p] \cup {a}
  BY <1>0, CommitEffect
<1>5. phaseBar[p] = "running" /\ outcomeBar[p][a] = "pending"
  BY <1>1, <1>2 DEF phaseBar, outcomeBar, PhaseOf, OutcomeOf,
                    SchedulePending, ScheduleRunning, ScheduleComplete
<1>6. outcomeBar' = [outcomeBar EXCEPT ![p][a] = result]
  <2>1. \A b \in Accounts : OutcomeOf(p, b)' = IF b = a THEN result ELSE OutcomeOf(p, b)
    BY <1>1, <1>2, <1>4 DEF OutcomeOf
  <2>2. \A q \in Posts : q # p => \A b \in Accounts : OutcomeOf(q, b)' = OutcomeOf(q, b)
    BY <1>3 DEF OutcomeOf
  <2> QED
    BY <1>1, <2>1, <2>2 DEF outcomeBar
<1>7. \A q \in Posts : q # p => PhaseOf(posts'[q]) = PhaseOf(posts[q])
  BY <1>3
<1>8. CASE v = "none"
  <2>1. posts'[p] = posts[p]
    BY <1>1, <1>3, <1>8, FinalizedRow
  <2>2. UNCHANGED phaseBar
    BY <1>7, <2>1 DEF phaseBar
  <2> QED
    BY <1>1, <1>2, <1>5, <1>6, <2>2 DEF Contract!Settle
<1>9. CASE v # "none"
  <2>1. /\ posts'[p].sched = ScheduleComplete
        /\ posts'[p].status = IF v = "published" THEN StatusPublished ELSE StatusFailed
    BY <1>1, <1>3, <1>9, FinalizedRow
  <2>2. StatusRight(p)'
    BY <1>1 DEF Inv, FinalStatusCorrect
  <2>3. posts'[p].status \in {StatusPublished, StatusFailed}
    BY <2>1
  <2>4. \A b \in attached[p] : outcomeBar'[p][b] # "pending"
    <3>1. attached[p] \subseteq posted'[p] \cup errored'[p]
      BY <1>2, <2>2, <2>3 DEF StatusRight
    <3>2. attached[p] \subseteq Accounts
      BY <1>1 DEF Inv, TypeOK, StoreTypeOK
    <3> QED
      BY <1>1, <3>1, <3>2 DEF outcomeBar, OutcomeOf
  <2>5. Contract!Settled(p, outcomeBar'[p])
    BY <2>4 DEF Contract!Settled
  <2>6. PhaseOf(posts'[p]) = Contract!FinalPhase(p, outcomeBar'[p])
    <3>1. attached[p] \subseteq Accounts /\ errored'[p] \subseteq attached[p]
      BY <1>1, <1>2 DEF Inv, TypeOK, StoreTypeOK, RowsRight
    <3>2. (\E b \in attached[p] : outcomeBar'[p][b] = "errored") <=> errored'[p] # {}
      BY <1>1, <3>1 DEF outcomeBar, OutcomeOf
    <3>3. CASE v = "published"
      <4>1. errored'[p] = {}
        BY <2>1, <2>2, <3>3 DEF StatusRight
      <4> QED
        BY <2>1, <3>2, <3>3, <4>1
           DEF Contract!FinalPhase, PhaseOf, SchedulePending, ScheduleRunning, ScheduleComplete
    <3>4. CASE v = "failed"
      <4>1. errored'[p] # {}
        BY <1>2, <2>1, <2>2, <3>4, StatusRange DEF StatusRight
      <4> QED
        BY <2>1, <3>2, <3>4, <4>1, StatusRange
           DEF Contract!FinalPhase, PhaseOf, SchedulePending, ScheduleRunning, ScheduleComplete
    <3> QED
      BY <1>1, <1>9, <3>3, <3>4
  <2>7. phaseBar' = [phaseBar EXCEPT ![p] = Contract!FinalPhase(p, outcomeBar'[p])]
    BY <1>1, <1>7, <2>6 DEF phaseBar
  <2> QED
    BY <1>1, <1>2, <1>5, <1>6, <2>5, <2>7 DEF Contract!Settle
<1> QED
  BY <1>8, <1>9

LEMMA NextContract ==
  NoDuplicates /\ Inv /\ Inv' /\ [Next]_vars => [Contract!Next]_Contract!vars
<1> SUFFICES ASSUME NoDuplicates, Inv, Inv', [Next]_vars
             PROVE  [Contract!Next]_Contract!vars
  OBVIOUS
<1>1. ASSUME UNCHANGED <<posts, rowVars>> PROVE UNCHANGED Contract!vars
  BY <1>1, SameBar DEF rowVars, Contract!vars
<1>2. CASE SchedulerNext /\ UNCHANGED workerVars
  <2> SUFFICES ASSUME NEW s \in Schedulers, SchedulerStep(s) \/ SchedulerFault(s)
               PROVE  [Contract!Next]_Contract!vars
    BY <1>2 DEF SchedulerNext
  <2>1. CASE \E p \in Posts : Claim(s, p)
    BY <2>1, ClaimContract DEF Contract!Next
  <2>2. CASE ~\E p \in Posts : Claim(s, p)
    <3>1. UNCHANGED <<posts, rowVars>>
      BY <2>2 DEF NoDuplicates, SchedulerStep, SchedulerFault, Scan, SkipClaim, Push,
                  ClaimFails, ClaimUnknown, PushDup, PushFails, SchedulerCrash, storeVars
    <3> QED
      BY <1>1, <3>1
  <2> QED
    BY <2>1, <2>2
<1>3. CASE WorkerNext /\ UNCHANGED schedulerVars
  <2> SUFFICES ASSUME NEW w \in Workers, WorkerStep(w) \/ WorkerFault(w)
               PROVE  [Contract!Next]_Contract!vars
    BY <1>3 DEF WorkerNext
  <2>1. CASE Commit(w) \/ CommitMark(w)
    BY <2>1, CommitContract DEF Contract!Next
  <2>2. CASE ~(Commit(w) \/ CommitMark(w))
    <3>1. UNCHANGED <<posts, rowVars>>
      BY <2>2 DEF NoDuplicates, WorkerStep, WorkerFault, BRPop, FetchAccount, FetchService,
                  FetchText, FetchOriginal, Publish, RecordResult, Retry, Mark, CommitUnknown,
                  StatementFails, RetryFails, RetryDup, MarkFails, WorkerCrash, storeVars
    <3> QED
      BY <1>1, <3>1
  <2> QED
    BY <2>1, <2>2
<1>4. CASE StoreNext /\ UNCHANGED <<schedulerVars, workerVars>>
  <2>1. CASE RedisRestart
    BY <1>1, <2>1 DEF RedisRestart
  <2>2. ASSUME NEW p \in Posts, ComesDue(p) PROVE UNCHANGED Contract!vars
    <3>1. /\ posts' = [posts EXCEPT ![p] = [posts[p] EXCEPT !.at = "due"]]
          /\ UNCHANGED rowVars
      BY <2>2 DEF ComesDue
    <3>2. ASSUME NEW post \in PostRow
          PROVE  /\ [post EXCEPT !.at = "due"].status = post.status
                 /\ [post EXCEPT !.at = "due"].sched = post.sched
      BY DEF PostRow
    <3>3. \A q \in Posts : posts'[q].sched = posts[q].sched /\ posts'[q].status = posts[q].status
      BY <3>1, <3>2 DEF Inv, TypeOK, StoreTypeOK
    <3> QED
      BY <3>1, <3>3, SameBar DEF rowVars, Contract!vars
  <2> QED
    BY <1>4, <2>1, <2>2 DEF StoreNext
<1>5. CASE UNCHANGED vars
  BY <1>1, <1>5 DEF vars, storeVars
<1> QED
  BY <1>2, <1>3, <1>4, <1>5 DEF Next

(***************************************************************************)
(* The pipeline implements the contract: accounts of running posts settle  *)
(* once each, and a post takes its final phase from all of them.           *)
(***************************************************************************)
THEOREM Refinement == ASSUME NoDuplicates PROVE Spec => ImplementsContract
<1>1. Init => Contract!Init
  BY InitContract
<1>2. Inv /\ Inv' /\ [Next]_vars => [Contract!Next]_Contract!vars
  BY NextContract
<1> QED
  BY <1>1, <1>2, InvInvariant, PTL DEF Spec, ImplementsContract, Contract!Spec
=============================================================================
