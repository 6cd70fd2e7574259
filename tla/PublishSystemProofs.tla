------------------------ MODULE PublishSystemProofs ------------------------
(***************************************************************************)
(* Theorems about PublishSystem: what holds however clients edit posts and *)
(* accounts under the processes, and whatever fails, for any number of     *)
(* posts, accounts and processes.                                          *)
(***************************************************************************)
EXTENDS PublishSystem, PublishPipelineProofs

USE ManagementAssumption

LEMMA RequestedRowType == RequestedRow \subseteq PostRow
BY DEF RequestedRow

LEMMA EditType ==
  ASSUME edits \in 0..MaxEdits, NEW kind, Edit(kind)
  PROVE  edits' \in 0..MaxEdits
BY DEF Edit

(***************************************************************************)
(* What WritePost does, whichever of the updates it is part of.            *)
(***************************************************************************)
LEMMA WritePostRows ==
  ASSUME SystemTypeOK, RecordsExist, NEW p \in Posts, WritePost(p)
  PROVE  /\ StoreTypeOK'
         /\ RecordsExist'
         /\ \A q \in Posts \ {p} : attached'[q] = attached[q]
         /\ attached'[p] \subseteq LiveAccounts
         /\ PostedWasSent => PostedWasSent'
         /\ UNCHANGED <<sent, accounts, token, checked>>
<1> USE DEF SystemTypeOK, TypeOK, StoreTypeOK, ApiTypeOK, RecordsExist, PostedWasSent
<1>1. PICK post \in RequestedRow : posts' = [posts EXCEPT ![p] = post]
  BY DEF WritePost
<1>2. PICK ids \in SUBSET LiveAccounts : attached' = [attached EXCEPT ![p] = ids]
  BY DEF WritePost, ReplaceRows
<1>3. PICK bodies \in Texts : versions' = [versions EXCEPT ![p] = bodies]
  BY DEF WritePost, ReplaceRows
<1>4. /\ posted' = [posted EXCEPT ![p] = {}]
      /\ errored' = [errored EXCEPT ![p] = {}]
      /\ UNCHANGED <<authorized, services, queue, sent, accounts, token, checked>>
  BY DEF WritePost, ReplaceRows
<1>5. LiveAccounts' = LiveAccounts /\ LiveAccounts \subseteq Accounts
  BY <1>4 DEF LiveAccounts
<1>6. posts' \in [Posts -> PostRow]
  BY <1>1, RequestedRowType
<1>7. /\ attached' \in [Posts -> SUBSET Accounts]
      /\ attached'[p] = ids
      /\ \A q \in Posts \ {p} : attached'[q] = attached[q]
  BY <1>2, <1>5
<1>8. versions' \in [Posts -> Versions]
  BY <1>3
<1>9. /\ posted' \in [Posts -> SUBSET Accounts]
      /\ errored' \in [Posts -> SUBSET Accounts]
      /\ posted'[p] = {} /\ errored'[p] = {}
      /\ \A q \in Posts \ {p} : posted'[q] = posted[q] /\ errored'[q] = errored[q]
  BY <1>4
<1>10. StoreTypeOK'
  BY <1>4, <1>6, <1>7, <1>8, <1>9
<1>11. RecordsExist'
  <2>1. ASSUME NEW q \in Posts
        PROVE  /\ posted'[q] \cup errored'[q] \subseteq attached'[q]
               /\ attached'[q] \subseteq LiveAccounts
    <3>1. CASE q = p
      BY <3>1, <1>7, <1>9
    <3>2. CASE q # p
      BY <3>2, <1>7, <1>9
    <3> QED
      BY <3>1, <3>2
  <2> QED
    BY <1>4, <1>5, <2>1
<1>12. ASSUME PostedWasSent PROVE PostedWasSent'
  <2>1. ASSUME NEW q \in Posts, NEW a \in posted'[q] PROVE sent'[q][a] > 0
    <3>1. q # p
      BY <1>9, <2>1
    <3> QED
      BY <3>1, <1>4, <1>9, <1>12, <2>1
  <2> QED
    BY <2>1
<1> QED
  BY <1>2, <1>4, <1>7, <1>10, <1>11, <1>12

(***************************************************************************)
(* Steps of the processes.                                                 *)
(***************************************************************************)
LEMMA RowFacts ==
  ASSUME SystemInv, NEW w \in Workers, pc[w] # "idle"
  PROVE  job[w] \in Jobs /\ job[w].post \in Posts /\ job[w].account \in Accounts
BY DEF SystemInv, SystemTypeOK, TypeOK, WorkerTypeOK, WorkerShape, Jobs

\* The rows a commit leaves are rows there were.
LEMMA ApplyRecords ==
  ASSUME SystemInv, NEW w \in Workers, pc[w] \in {"commit", "markcommit"}, Apply(w),
         UNCHANGED accounts, authorized' \subseteq authorized
  PROVE  RecordsExist' /\ PostedWasSent'
<1> USE DEF SystemTypeOK, TypeOK, StoreTypeOK
<1> DEFINE p == job[w].post
           a == job[w].account
<1>1. p \in Posts /\ a \in Accounts
  BY RowFacts
<1>2. tx[w].row \in {"none", "posted", "errored"}
  BY DEF SystemInv, WorkerTypeOK, TxWrites
<1>3. tx[w].row # "none" => a \in attached[p]
  BY DEF SystemInv, WritesExist
<1>4. tx[w].row = "posted" => sent[p][a] > 0
  BY DEF SystemInv, WritesSent
<1>5. attached' = attached /\ sent' = sent /\ LiveAccounts' = LiveAccounts
  BY DEF Apply, LiveAccounts
<1>6. ASSUME NEW q \in Posts
      PROVE  /\ posted'[q] \subseteq posted[q] \cup (IF q = p /\ tx[w].row = "posted" THEN {a} ELSE {})
             /\ errored'[q] \subseteq errored[q] \cup (IF q = p /\ tx[w].row = "errored" THEN {a} ELSE {})
  <2>1. CASE tx[w].row = "none"
    BY <2>1, <1>1 DEF SystemInv, Apply, PostedAfter, ErroredAfter
  <2>2. CASE tx[w].row = "posted"
    BY <2>2, <1>1 DEF SystemInv, Apply, PostedAfter, ErroredAfter
  <2>3. CASE tx[w].row = "errored"
    BY <2>3, <1>1 DEF SystemInv, Apply, PostedAfter, ErroredAfter
  <2> QED
    BY <1>2, <2>1, <2>2, <2>3
<1>7. RecordsExist'
  <2>1. ASSUME NEW q \in Posts
        PROVE  posted'[q] \cup errored'[q] \subseteq attached[q]
    <3>1. posted[q] \cup errored[q] \subseteq attached[q]
      BY DEF SystemInv, RecordsExist
    <3> QED
      BY <3>1, <1>3, <1>6
  <2> QED
    BY <2>1, <1>5 DEF SystemInv, RecordsExist
<1>8. PostedWasSent'
  <2>1. ASSUME NEW q \in Posts, NEW b \in posted'[q] PROVE sent[q][b] > 0
    <3>1. CASE b \in posted[q]
      BY <3>1 DEF SystemInv, PostedWasSent
    <3>2. CASE q = p /\ tx[w].row = "posted" /\ b = a
      BY <3>2, <1>4
    <3> QED
      BY <2>1, <1>6, <3>1, <3>2
  <2> QED
    BY <2>1, <1>5 DEF PostedWasSent
<1> QED
  BY <1>7, <1>8

\* Steps that leave the rows, accounts and publications alone.
LEMMA SameRecords ==
  ASSUME RecordsExist, PostedWasSent,
         UNCHANGED <<attached, posted, errored, authorized, sent, accounts>>
  PROVE  RecordsExist' /\ PostedWasSent'
BY DEF RecordsExist, PostedWasSent, LiveAccounts

LEMMA SameWriters ==
  ASSUME WritesExist, WritesSent, UNCHANGED <<attached, sent, workerVars>>
  PROVE  WritesExist' /\ WritesSent'
BY DEF WritesExist, WritesSent, workerVars

\* Only worker w moves, to a place where it has nothing to commit.
LEMMA NothingToCommit ==
  ASSUME SystemInv, NEW w \in Workers, UNCHANGED <<attached, sent>>,
         Idle(w) \/ (\E kind \in ErrKinds : ReturnError(w, kind))
           \/ Goto(w, "service") \/ Goto(w, "text") \/ Goto(w, "original") \/ Goto(w, "publish")
  PROVE  WritesExist' /\ WritesSent'
<1> USE DEF SystemInv, SystemTypeOK, TypeOK, WorkerTypeOK, WritesExist, WritesSent
<1>1. CASE Idle(w)
  BY <1>1 DEF Idle
<1>2. ASSUME NEW kind \in ErrKinds, ReturnError(w, kind) PROVE WritesExist' /\ WritesSent'
  BY <1>2 DEF ReturnError
<1>3. CASE Goto(w, "service") \/ Goto(w, "text") \/ Goto(w, "original") \/ Goto(w, "publish")
  BY <1>3 DEF Goto
<1> QED
  BY <1>1, <1>2, <1>3

\* A worker that writes its row holds a row that exists.
LEMMA RowWritten ==
  ASSUME SystemInv, NEW w \in Workers,
         NEW next \in {"commit", "markcommit"}, NEW writes \in TxWrites,
         pc' = [pc EXCEPT ![w] = next], tx' = [tx EXCEPT ![w] = writes],
         UNCHANGED <<job, attached, sent>>,
         writes.row # "none" => job[w].account \in attached[job[w].post],
         next = "commit" => pc[w] = "record",
         next = "markcommit" => writes.row # "posted"
  PROVE  WritesExist' /\ WritesSent'
BY DEF SystemInv, SystemTypeOK, TypeOK, WorkerTypeOK, WritesExist, WritesSent

LEMMA WorkerRecords ==
  ASSUME SystemInv, NEW w \in Workers, WorkerStep(w) \/ WorkerFault(w),
         UNCHANGED apiVars
  PROVE  RecordsExist' /\ PostedWasSent' /\ WritesExist' /\ WritesSent'
<1> USE DEF SystemTypeOK, TypeOK, StoreTypeOK
<1>0. /\ UNCHANGED accounts
      /\ RecordsExist /\ PostedWasSent /\ WritesExist /\ WritesSent
  BY DEF apiVars, SystemInv
<1>1. CASE BRPop(w)
  <2>1. RecordsExist' /\ PostedWasSent'
    BY <1>0, <1>1, SameRecords DEF BRPop, rowVars
  <2>2. WritesExist' /\ WritesSent'
    BY <1>1 DEF BRPop, rowVars, SystemInv, WorkerTypeOK, WritesExist, WritesSent
  <2> QED
    BY <2>1, <2>2
<1>2. CASE \/ FetchAccount(w) \/ FetchService(w) \/ FetchText(w) \/ FetchOriginal(w)
           \/ StatementFails(w)
           \/ MarkFails(w) \/ WorkerCrash(w)
  <2>1. UNCHANGED storeVars
    BY <1>2 DEF FetchAccount, FetchService, FetchText, FetchOriginal, StatementFails, MarkFails,
                WorkerCrash
  <2>2. RecordsExist' /\ PostedWasSent'
    BY <1>0, <2>1, SameRecords DEF storeVars, rowVars
  <2>3. Idle(w) \/ (\E kind \in ErrKinds : ReturnError(w, kind))
          \/ Goto(w, "service") \/ Goto(w, "text") \/ Goto(w, "original") \/ Goto(w, "publish")
    BY <1>2 DEF FetchAccount, FetchService, FetchText, FetchOriginal, UseContent, StatementFails,
                MarkFails, WorkerCrash, ErrKinds
  <2>4. UNCHANGED <<attached, sent>>
    BY <2>1 DEF storeVars, rowVars
  <2> QED
    BY <2>2, <2>3, <2>4, NothingToCommit
<1>3. CASE Publish(w)
  <2>0. job[w].post \in Posts /\ job[w].account \in Accounts
    BY <1>3, RowFacts DEF Publish
  <2>1. /\ sent' \in [Posts -> [Accounts -> Nat]]
        /\ \A q \in Posts, b \in Accounts : sent'[q][b] >= sent[q][b]
    <3>1. CASE Accepted(job[w].post, job[w].account)
      BY <2>0, <3>1 DEF SystemInv, Accepted
    <3>2. CASE UNCHANGED sent
      BY <3>2 DEF SystemInv
    <3> QED
      BY <1>3, <3>1, <3>2 DEF Publish
  <2>2. RecordsExist'
    BY <1>0, <1>3 DEF Publish, rowVars, RecordsExist, LiveAccounts
  <2>3. PostedWasSent'
    <3>1. ASSUME NEW q \in Posts, NEW b \in posted[q] PROVE sent'[q][b] > 0
      <4>1. b \in Accounts /\ sent[q][b] > 0
        BY <1>0 DEF SystemInv, PostedWasSent
      <4>2. sent[q][b] \in Nat /\ sent'[q][b] \in Nat /\ sent'[q][b] >= sent[q][b]
        BY <4>1, <2>1 DEF SystemInv
      <4> QED
        BY <4>1, <4>2
    <3> QED
      BY <3>1, <1>3 DEF Publish, rowVars, PostedWasSent
  <2>4. UNCHANGED <<attached, job>>
    BY <1>3 DEF Publish, rowVars, Goto, ReturnError
  <2>5. \A v \in Workers \ {w} : pc'[v] = pc[v] /\ tx'[v] = tx[v]
    BY <1>3 DEF Publish, Goto, ReturnError, SystemInv, WorkerTypeOK
  <2>6. /\ pc'[w] \in {"record", "error"}
        /\ pc'[w] = "record" => sent'[job[w].post][job[w].account] > 0
    <3>1. CASE Accepted(job[w].post, job[w].account) /\ Goto(w, "record")
      BY <2>0, <3>1 DEF Accepted, Goto, SystemInv, WorkerTypeOK
    <3>2. ASSUME NEW kind, ReturnError(w, kind) PROVE pc'[w] = "error"
      BY <3>2 DEF ReturnError, SystemInv, WorkerTypeOK
    <3> QED
      BY <1>3, <3>1, <3>2 DEF Publish
  <2>7. WritesExist'
    BY <1>0, <2>4, <2>5, <2>6 DEF WritesExist
  <2>8. ASSUME NEW v \in Workers, v # w, pc[v] \in {"record", "commit"}
        PROVE  sent'[job[v].post][job[v].account] > 0
    <3>1. job[v].post \in Posts /\ job[v].account \in Accounts
      BY <2>8, RowFacts
    <3>2. sent[job[v].post][job[v].account] > 0
      BY <1>0, <2>8 DEF WritesSent
    <3> QED
      BY <3>1, <3>2, <2>1 DEF SystemInv
  <2>9. WritesSent'
    BY <1>0, <2>4, <2>5, <2>6, <2>8 DEF WritesSent
  <2> QED
    BY <2>2, <2>3, <2>7, <2>9
<1>4. CASE RecordResult(w)
  <2>1. UNCHANGED storeVars
    BY <1>4 DEF RecordResult
  <2>2. RecordsExist' /\ PostedWasSent'
    BY <1>0, <2>1, SameRecords DEF storeVars, rowVars
  <2>3. UNCHANGED <<attached, sent>>
    BY <2>1 DEF storeVars, rowVars
  <2>4. CASE Idle(w)
    BY <2>2, <2>3, <2>4, NothingToCommit
  <2>5. CASE ~Idle(w)
    <3>1. PICK v \in {"none", "published", "failed"} :
            /\ tx' = [tx EXCEPT ![w] = [row |-> "posted", verdict |-> v]]
            /\ pc' = [pc EXCEPT ![w] = "commit"]
            /\ UNCHANGED job
            /\ job[w].account \in attached[job[w].post]
            /\ pc[w] = "record"
      BY <1>4, <2>5, VerdictType DEF RecordResult
    <3>2. [row |-> "posted", verdict |-> v] \in TxWrites
      BY DEF TxWrites
    <3> QED
      BY <2>2, <2>3, <3>1, <3>2, RowWritten
  <2> QED
    BY <2>4, <2>5
<1>5. CASE Mark(w)
  <2>1. UNCHANGED storeVars
    BY <1>5 DEF Mark
  <2>2. RecordsExist' /\ PostedWasSent'
    BY <1>0, <2>1, SameRecords DEF storeVars, rowVars
  <2>3. UNCHANGED <<attached, sent>>
    BY <2>1 DEF storeVars, rowVars
  <2>4. PICK row \in {"none", "errored"}, v \in {"none", "published", "failed"} :
          /\ tx' = [tx EXCEPT ![w] = [row |-> row, verdict |-> v]]
          /\ row = "errored" => job[w].account \in attached[job[w].post]
    BY <1>5, VerdictType DEF Mark
  <2>5. pc' = [pc EXCEPT ![w] = "markcommit"] /\ UNCHANGED job
    BY <1>5 DEF Mark
  <2>6. [row |-> row, verdict |-> v] \in TxWrites
    BY DEF TxWrites
  <2> QED
    BY <2>2, <2>3, <2>4, <2>5, <2>6, RowWritten
<1>6. CASE Commit(w) \/ CommitUnknown(w) \/ CommitMark(w)
  <2>1. Apply(w) /\ pc[w] \in {"commit", "markcommit"} /\ authorized' \subseteq authorized
    BY <1>6 DEF Commit, CommitUnknown, CommitMark
  <2>2. RecordsExist' /\ PostedWasSent'
    BY <1>0, <2>1, ApplyRecords
  <2>3. UNCHANGED <<attached, sent>>
    BY <2>1 DEF Apply
  <2>4. Idle(w) \/ (\E kind \in ErrKinds : ReturnError(w, kind))
    BY <1>6 DEF Commit, CommitUnknown, CommitMark, ErrKinds
  <2> QED
    BY <2>2, <2>3, <2>4, NothingToCommit
<1>7. CASE Retry(w) \/ RetryFails(w) \/ RetryDup(w)
  <2>1. Idle(w) /\ UNCHANGED <<attached, posted, errored, authorized, sent>>
    BY <1>7 DEF Retry, RetryFails, RetryDup, rowVars
  <2> QED
    BY <1>0, <2>1, SameRecords, NothingToCommit
<1> QED
  BY <1>1, <1>2, <1>3, <1>4, <1>5, <1>6, <1>7 DEF WorkerStep, WorkerFault

LEMMA SchedulerRecords ==
  ASSUME SystemInv, NEW s \in Schedulers, SchedulerStep(s) \/ SchedulerFault(s),
         UNCHANGED <<workerVars, apiVars>>
  PROVE  RecordsExist' /\ PostedWasSent' /\ WritesExist' /\ WritesSent'
<1>1. UNCHANGED <<attached, posted, errored, authorized, sent>>
  BY DEF SchedulerStep, SchedulerFault, Scan, SkipClaim, Claim, Push, ClaimFails,
         ClaimUnknown, PushDup, PushFails, SchedulerCrash, storeVars, rowVars
<1> QED
  BY <1>1, SameRecords, SameWriters DEF SystemInv, apiVars

(***************************************************************************)
(* Requests.                                                               *)
(***************************************************************************)
\* A step of the API leaves the schedulers alone.
LEMMA SameScheduler ==
  ASSUME SchedulerTypeOK, UNCHANGED schedulerVars
  PROVE  SchedulerTypeOK'
BY DEF SchedulerTypeOK, schedulerVars

LEMMA SameWorker ==
  ASSUME WorkerTypeOK, WorkerShape, UNCHANGED workerVars
  PROVE  WorkerTypeOK' /\ WorkerShape'
BY DEF WorkerTypeOK, WorkerShape, workerVars

\* Replacing the rows of p disturbs no worker whose row is not of p.
LEMMA WritersElsewhere ==
  ASSUME SystemInv, NEW p \in Posts, NEW w \in Workers, sent' = sent,
         \A q \in Posts \ {p} : attached'[q] = attached[q],
         \A v \in Workers : pc[v] \in {"commit", "markcommit"} /\ tx[v].row # "none"
                              => v = w \/ job[v].post # p,
         \A v \in Workers \ {w} : UNCHANGED <<pc[v], job[v], tx[v]>>,
         \/ pc'[w] \notin {"record", "commit", "markcommit"}
         \/ pc'[w] = "markcommit" /\ tx'[w].row = "none"
  PROVE  WritesExist' /\ WritesSent'
<1>1. ASSUME NEW v \in Workers, v # w,
             pc[v] \in {"commit", "markcommit"}, tx[v].row # "none"
      PROVE  job[v].account \in attached'[job[v].post]
  <2>1. job[v].post \in Posts /\ job[v].post # p
    BY <1>1, RowFacts
  <2> QED
    BY <1>1, <2>1 DEF SystemInv, WritesExist
<1>2. WritesExist'
  BY <1>1 DEF WritesExist
<1>3. WritesSent'
  BY DEF SystemInv, WritesSent
<1> QED
  BY <1>2, <1>3

\* No worker holds a row of p when each of its rows is unlocked.
LEMMA NoWriter ==
  ASSUME SystemInv, NEW p \in Posts, \A a \in attached[p] : ~RowLocked(p, a),
         NEW v \in Workers, pc[v] \in {"commit", "markcommit"}, tx[v].row # "none"
  PROVE  job[v].post # p
BY DEF SystemInv, WritesExist, RowLocked

\* A post that does not exist yet is nobody's job to commit.
LEMMA NoWriterOfAbsent ==
  ASSUME SystemInv, NEW p \in Posts, posts[p].row = "absent",
         NEW v \in Workers, pc[v] \in {"commit", "markcommit"}, tx[v].row # "none"
  PROVE  job[v].post # p
BY DEF SystemInv, WritesExist, AbsentIsBare

LEMMA WrittenIsLive ==
  ASSUME SystemInv, NEW p \in Posts, WritePost(p)
  PROVE  AbsentIsBare'
<1>1. PICK post \in RequestedRow : posts' = [posts EXCEPT ![p] = post]
  BY DEF WritePost
<1>2. posts'[p].row = "live"
  BY <1>1 DEF RequestedRow, SystemInv, SystemTypeOK, TypeOK, StoreTypeOK
<1>3. \A q \in Posts \ {p} : posts'[q] = posts[q]
  BY <1>1 DEF SystemInv, SystemTypeOK, TypeOK, StoreTypeOK
<1>4. \A q \in Posts \ {p} : attached'[q] = attached[q]
  BY WritePostRows DEF SystemInv
<1> QED
  BY <1>2, <1>3, <1>4 DEF SystemInv, AbsentIsBare

LEMMA WrittenTypes ==
  ASSUME SystemInv, NEW p \in Posts, WritePost(p), edits' \in 0..MaxEdits,
         UNCHANGED schedulerVars, WorkerTypeOK', WorkerShape',
         WritesExist', WritesSent'
  PROVE  SystemInv'
<1>1. /\ StoreTypeOK' /\ RecordsExist' /\ PostedWasSent'
      /\ UNCHANGED <<sent, accounts, token, checked>>
  BY WritePostRows DEF SystemInv
<1>2. SchedulerTypeOK' /\ ApiTypeOK'
  BY <1>1, SameScheduler DEF SystemInv, SystemTypeOK, TypeOK, ApiTypeOK
<1> QED
  BY <1>1, <1>2, WrittenIsLive DEF SystemInv, SystemTypeOK, TypeOK

LEMMA UpdatePostInv ==
  ASSUME SystemInv, NEW p \in Posts, CreatePost(p) \/ UpdatePost(p),
         UNCHANGED schedulerVars
  PROVE  SystemInv'
<1>1. /\ WritePost(p) /\ UNCHANGED workerVars
      /\ edits' \in 0..MaxEdits
  BY EditType DEF CreatePost, UpdatePost, MayUpdate, SystemInv, SystemTypeOK, ApiTypeOK
<1>2. /\ \A q \in Posts \ {p} : attached'[q] = attached[q]
      /\ sent' = sent
  BY <1>1, WritePostRows DEF SystemInv
<1>3. ASSUME NEW v \in Workers, pc[v] \in {"commit", "markcommit"}, tx[v].row # "none"
      PROVE  job[v].account \in attached'[job[v].post]
  <2>1. job[v].post # p
    BY <1>3, NoWriter, NoWriterOfAbsent DEF CreatePost, UpdatePost
  <2>2. job[v].post \in Posts
    BY <1>3, RowFacts
  <2> QED
    BY <1>2, <1>3, <2>1, <2>2 DEF SystemInv, WritesExist
<1>4. WritesExist' /\ WritesSent'
  BY <1>1, <1>2, <1>3 DEF SystemInv, WritesExist, WritesSent, workerVars
<1>5. WorkerTypeOK' /\ WorkerShape'
  BY <1>1, SameWorker DEF SystemInv, SystemTypeOK, TypeOK
<1> QED
  BY <1>1, <1>4, <1>5, WrittenTypes

LEMMA DeadlockInv ==
  ASSUME SystemInv, NEW w \in Workers, NEW p \in Posts, UpdatePostDeadlock(w, p),
         UNCHANGED schedulerVars
  PROVE  SystemInv'
<1>1. WritePost(p) /\ edits' \in 0..MaxEdits
  BY EditType DEF UpdatePostDeadlock, MayUpdate, SystemInv, SystemTypeOK, ApiTypeOK
<1>2. /\ \A q \in Posts \ {p} : attached'[q] = attached[q]
      /\ sent' = sent
  BY <1>1, WritePostRows DEF SystemInv
<1>3. pc[w] # "idle" /\ (Idle(w) \/ ReturnError(w, "transient"))
  BY DEF UpdatePostDeadlock
<1>4. /\ pc'[w] \in {"idle", "error"}
      /\ \A v \in Workers \ {w} : UNCHANGED <<pc[v], job[v], tx[v]>>
  BY <1>3 DEF Idle, ReturnError, SystemInv, SystemTypeOK, TypeOK, WorkerTypeOK
<1>5. ASSUME NEW v \in Workers, pc[v] \in {"commit", "markcommit"}, tx[v].row # "none"
      PROVE  v = w \/ job[v].post # p
  BY <1>5 DEF UpdatePostDeadlock, SystemInv, WorkerShape
<1>6. WritesExist' /\ WritesSent'
  BY <1>2, <1>4, <1>5, WritersElsewhere
<1>7. WorkerTypeOK'
  BY <1>3, IdleType, ReturnErrorType DEF ErrKinds, SystemInv, SystemTypeOK, TypeOK
<1>8. WorkerShape'
  BY <1>3 DEF Idle, ReturnError, SystemInv, SystemTypeOK, TypeOK, WorkerTypeOK, WorkerShape
<1> QED
  BY <1>1, <1>6, <1>7, <1>8, WrittenTypes

LEMMA UnderWorkerInv ==
  ASSUME SystemInv, NEW w \in Workers, NEW p \in Posts, UpdatePostUnderWorker(w, p),
         UNCHANGED schedulerVars
  PROVE  SystemInv'
<1> USE DEF SystemInv, SystemTypeOK, TypeOK
<1>1. WritePost(p) /\ edits' \in 0..MaxEdits
  BY EditType DEF UpdatePostUnderWorker, MayUpdate, ApiTypeOK
<1>2. /\ \A q \in Posts \ {p} : attached'[q] = attached[q]
      /\ sent' = sent
  BY <1>1, WritePostRows
<1>3. pc[w] \in {"record", "error"}
  BY DEF UpdatePostUnderWorker
<1>4. ASSUME NEW v \in Workers, pc[v] \in {"commit", "markcommit"}, tx[v].row # "none"
      PROVE  v = w \/ job[v].post # p
  BY <1>4, NoWriter DEF UpdatePostUnderWorker
<1>5. CASE Idle(w)
  <2>1. /\ pc'[w] = "idle"
        /\ \A v \in Workers \ {w} : UNCHANGED <<pc[v], job[v], tx[v]>>
    BY <1>5 DEF Idle, WorkerTypeOK
  <2>2. WritesExist' /\ WritesSent'
    BY <1>2, <1>4, <2>1, WritersElsewhere
  <2>3. WorkerTypeOK' /\ WorkerShape'
    BY <1>5, IdleType DEF Idle, WorkerTypeOK, WorkerShape
  <2> QED
    BY <1>1, <2>2, <2>3, WrittenTypes
<1>6. CASE ~Idle(w)
  <2>1. PICK v \in {"none", "published", "failed"} :
          /\ pc[w] = "error"
          /\ pc' = [pc EXCEPT ![w] = "markcommit"]
          /\ tx' = [tx EXCEPT ![w] = [row |-> "none", verdict |-> v]]
          /\ UNCHANGED <<job, err>>
    BY <1>6, VerdictType DEF UpdatePostUnderWorker
  <2>2. [row |-> "none", verdict |-> v] \in TxWrites
    BY DEF TxWrites
  <2>3. WorkerTypeOK' /\ WorkerShape'
    BY <2>1, <2>2 DEF WorkerTypeOK, WorkerShape
  <2>4. /\ pc'[w] = "markcommit" /\ tx'[w].row = "none"
        /\ \A u \in Workers \ {w} : UNCHANGED <<pc[u], job[u], tx[u]>>
    BY <2>1 DEF WorkerTypeOK
  <2>5. WritesExist' /\ WritesSent'
    BY <1>2, <1>4, <2>4, WritersElsewhere
  <2> QED
    BY <1>1, <2>3, <2>5, WrittenTypes
<1> QED
  BY <1>5, <1>6

LEMMA DeletePostInv ==
  ASSUME SystemInv, NEW p \in Posts, DeletePost(p), UNCHANGED schedulerVars
  PROVE  SystemInv'
<1> USE DEF SystemInv, SystemTypeOK, TypeOK
<1>1. /\ edits' \in 0..MaxEdits /\ posts[p].row = "live"
      /\ posts' = [posts EXCEPT ![p].row = "deleted"]
      /\ UNCHANGED <<attached, posted, errored, versions, authorized, services, queue, sent,
                     accounts, token, checked, workerVars>>
  BY EditType DEF DeletePost, ApiTypeOK, rowVars
<1>2. ASSUME NEW post \in PostRow
      PROVE  /\ [post EXCEPT !.row = "deleted"] \in PostRow
             /\ [post EXCEPT !.row = "deleted"].row = "deleted"
  BY DEF PostRow
<1>3. /\ posts' \in [Posts -> PostRow]
      /\ posts'[p].row = "deleted"
      /\ \A q \in Posts \ {p} : posts'[q] = posts[q]
  BY <1>1, <1>2 DEF StoreTypeOK
<1>4. StoreTypeOK' /\ ApiTypeOK'
  BY <1>1, <1>3 DEF StoreTypeOK, ApiTypeOK
<1>5. AbsentIsBare'
  BY <1>1, <1>3 DEF AbsentIsBare
<1> QED
  BY <1>1, <1>4, <1>5, SameScheduler, SameWorker, SameRecords, SameWriters

LEMMA AccountRequestInv ==
  ASSUME SystemInv, NEW a \in Accounts, CheckService(a) \/ WriteAccount(a),
         UNCHANGED schedulerVars
  PROVE  SystemInv'
<1> USE DEF SystemInv, SystemTypeOK, TypeOK
<1>1. UNCHANGED <<posts, attached, posted, errored, versions, services, queue, sent, workerVars>>
  BY DEF CheckService, WriteAccount, storeVars, rowVars
<1>2. CASE CheckService(a)
  <2>1. UNCHANGED <<authorized, accounts, token, edits>> /\ checked' = checked \cup {a}
    BY <1>2 DEF CheckService, storeVars
  <2>2. ApiTypeOK' /\ StoreTypeOK'
    BY <1>1, <2>1 DEF ApiTypeOK, StoreTypeOK
  <2> QED
    BY <1>1, <2>1, <2>2, SameScheduler, SameWorker, SameRecords, SameWriters DEF AbsentIsBare
<1>3. CASE WriteAccount(a)
  <2>1. /\ edits' \in 0..MaxEdits
        /\ checked' = checked \ {a}
        /\ accounts' = [accounts EXCEPT ![a] = "live"]
        /\ token' = [token EXCEPT ![a] = edits']
        /\ authorized' \subseteq authorized \cup {a}
    BY <1>3, EditType DEF WriteAccount, ApiTypeOK
  <2>2. ApiTypeOK' /\ StoreTypeOK'
    BY <1>1, <2>1 DEF ApiTypeOK, StoreTypeOK
  <2>3. LiveAccounts' = LiveAccounts \cup {a}
    BY <2>1 DEF LiveAccounts, ApiTypeOK
  <2>4. RecordsExist' /\ PostedWasSent' /\ AbsentIsBare'
    BY <1>1, <2>1, <2>3 DEF RecordsExist, PostedWasSent, AbsentIsBare
  <2> QED
    BY <1>1, <2>2, <2>4, SameScheduler, SameWorker, SameWriters
<1> QED
  BY <1>2, <1>3

LEMMA ImportPagesInv ==
  ASSUME SystemInv, NEW pages \in SUBSET Pages, ImportPages(pages), UNCHANGED schedulerVars
  PROVE  SystemInv'
<1> USE DEF SystemInv, SystemTypeOK, TypeOK
<1>1. /\ edits' \in 0..MaxEdits
      /\ accounts' = [a \in Accounts |-> IF a \in pages THEN "live" ELSE accounts[a]]
      /\ token' = [a \in Accounts |-> IF a \in pages THEN edits' ELSE token[a]]
      /\ authorized' = authorized \cup pages
      /\ UNCHANGED <<posts, attached, posted, errored, versions, services, queue, sent,
                     checked, workerVars>>
  BY EditType DEF ImportPages, ApiTypeOK, rowVars
<1>2. pages \subseteq Accounts
  BY ManagementAssumption
<1>3. ApiTypeOK' /\ StoreTypeOK'
  BY <1>1, <1>2 DEF ApiTypeOK, StoreTypeOK
<1>4. LiveAccounts' = LiveAccounts \cup pages
  BY <1>1, <1>2 DEF LiveAccounts, ApiTypeOK
<1>5. RecordsExist' /\ PostedWasSent' /\ AbsentIsBare'
  BY <1>1, <1>4 DEF RecordsExist, PostedWasSent, AbsentIsBare
<1> QED
  BY <1>1, <1>3, <1>5, SameScheduler, SameWorker, SameWriters

LEMMA DeleteAccountInv ==
  ASSUME SystemInv, NEW a \in Accounts, DeleteAccount(a), UNCHANGED schedulerVars
  PROVE  SystemInv'
<1> USE DEF SystemInv, SystemTypeOK, TypeOK
<1>1. /\ edits' \in 0..MaxEdits
      /\ accounts' = [accounts EXCEPT ![a] = "deleted"]
      /\ authorized' = authorized \ {a}
      /\ attached' = [p \in Posts |-> attached[p] \ {a}]
      /\ posted' = [p \in Posts |-> posted[p] \ {a}]
      /\ errored' = [p \in Posts |-> errored[p] \ {a}]
      /\ checked' = checked \ {a}
      /\ UNCHANGED <<posts, versions, services, queue, sent, token, workerVars>>
      /\ \A p \in Posts : ~RowLocked(p, a)
  BY EditType DEF DeleteAccount, ApiTypeOK
<1>2. StoreTypeOK' /\ ApiTypeOK'
  BY <1>1 DEF StoreTypeOK, ApiTypeOK
<1>3. LiveAccounts' = LiveAccounts \ {a}
  BY <1>1 DEF LiveAccounts, ApiTypeOK
<1>4. RecordsExist' /\ PostedWasSent' /\ AbsentIsBare'
  BY <1>1, <1>3 DEF RecordsExist, PostedWasSent, AbsentIsBare
<1>5. ASSUME NEW v \in Workers, pc[v] \in {"commit", "markcommit"}, tx[v].row # "none"
      PROVE  job[v].account \in attached'[job[v].post]
  <2>1. job[v].post \in Posts /\ job[v].account # a
    BY <1>1, <1>5, RowFacts DEF RowLocked
  <2> QED
    BY <1>1, <1>5, <2>1 DEF WritesExist
<1>6. WritesExist' /\ WritesSent'
  BY <1>1, <1>5 DEF WritesExist, WritesSent, workerVars
<1> QED
  BY <1>1, <1>2, <1>4, <1>6, SameScheduler, SameWorker

LEMMA WriteServiceInv ==
  ASSUME SystemInv, NEW s \in Services, WriteService(s), UNCHANGED schedulerVars
  PROVE  SystemInv'
<1> USE DEF SystemInv, SystemTypeOK, TypeOK
<1>1. /\ edits' \in 0..MaxEdits
      /\ services' \in [Services -> {"missing", "inactive", "active"}]
      /\ UNCHANGED <<posts, attached, posted, errored, versions, authorized, queue, sent,
                     accounts, token, checked, workerVars>>
  BY EditType DEF WriteService, ApiTypeOK, StoreTypeOK, rowVars
<1>2. StoreTypeOK' /\ ApiTypeOK'
  BY <1>1 DEF StoreTypeOK, ApiTypeOK
<1> QED
  BY <1>1, <1>2, SameScheduler, SameWorker, SameRecords, SameWriters DEF AbsentIsBare

(***************************************************************************)
(* The processes neither create posts nor attach accounts.                 *)
(***************************************************************************)
LEMMA FinalizedKeepsRow ==
  ASSUME NEW post \in PostRow, NEW v \in {"none", "published", "failed"}
  PROVE  Finalized(post, v).row = post.row
<1>1. CASE v = "none"
  BY <1>1 DEF Finalized
<1>2. CASE v = "failed"
  BY <1>2 DEF Finalized, PostRow
<1>3. CASE v = "published"
  BY <1>3 DEF Finalized, PostRow
<1> QED
  BY <1>1, <1>2, <1>3

LEMMA ProcessesKeepRows ==
  ASSUME SystemInv, [Next]_vars
  PROVE  /\ \A p \in Posts : posts'[p].row = posts[p].row
         /\ attached' = attached
<1> USE DEF SystemInv, SystemTypeOK, TypeOK, StoreTypeOK
<1>1. ASSUME NEW s \in Schedulers, SchedulerStep(s) \/ SchedulerFault(s)
      PROVE  /\ \A p \in Posts : posts'[p].row = posts[p].row
             /\ attached' = attached
  <2>1. attached' = attached
    BY <1>1 DEF SchedulerStep, SchedulerFault, Scan, SkipClaim, Claim, Push, ClaimFails,
                ClaimUnknown, PushDup, PushFails, SchedulerCrash, storeVars, rowVars
  <2>2. posts' = posts \/ \E p \in Posts : posts' = [posts EXCEPT ![p] = Claimed(p)]
    BY <1>1 DEF SchedulerStep, SchedulerFault, Scan, SkipClaim, Claim, Push, ClaimFails,
                ClaimUnknown, PushDup, PushFails, SchedulerCrash, storeVars
  <2>3. ASSUME NEW p \in Posts PROVE Claimed(p).row = posts[p].row
    <3>1. posts[p] \in PostRow
      OBVIOUS
    <3> QED
      BY <3>1 DEF Claimed, PostRow
  <2> QED
    BY <2>1, <2>2, <2>3
<1>2. ASSUME NEW w \in Workers, WorkerStep(w) \/ WorkerFault(w)
      PROVE  /\ \A p \in Posts : posts'[p].row = posts[p].row
             /\ attached' = attached
  <2>1. CASE pc[w] \in {"commit", "markcommit"} /\ Apply(w)
    <3>1. job[w].post \in Posts
      BY <2>1, RowFacts
    <3>2. tx[w].verdict \in {"none", "published", "failed"}
      BY DEF WorkerTypeOK, TxWrites
    <3>3. posts' = [posts EXCEPT ![job[w].post] = Finalized(posts[job[w].post], tx[w].verdict)]
      BY <2>1 DEF Apply
    <3>4. Finalized(posts[job[w].post], tx[w].verdict).row = posts[job[w].post].row
      BY <3>1, <3>2, FinalizedKeepsRow
    <3> QED
      BY <2>1, <3>1, <3>3, <3>4 DEF Apply
  <2>2. CASE ~(pc[w] \in {"commit", "markcommit"} /\ Apply(w))
    BY <1>2, <2>2 DEF WorkerStep, WorkerFault, BRPop, FetchAccount, FetchService, FetchText, FetchOriginal,
         Publish, RecordResult, Commit, Retry, Mark, CommitMark, CommitUnknown,
         StatementFails, RetryFails, RetryDup, MarkFails, WorkerCrash, storeVars, rowVars
  <2> QED
    BY <2>1, <2>2
<1>3. CASE StoreNext
  <2>1. ASSUME NEW p \in Posts, ComesDue(p)
        PROVE  \A q \in Posts : posts'[q].row = posts[q].row
    <3>1. ASSUME NEW post \in PostRow
          PROVE  [post EXCEPT !.at = "due"].row = post.row
      BY DEF PostRow
    <3> QED
      BY <2>1, <3>1 DEF ComesDue
  <2> QED
    BY <1>3, <2>1 DEF StoreNext, RedisRestart, ComesDue, rowVars
<1>4. CASE UNCHANGED vars
  BY <1>4 DEF vars, storeVars, rowVars
<1> QED
  BY <1>1, <1>2, <1>3, <1>4 DEF Next, SchedulerNext, WorkerNext

LEMMA ProcessesInv ==
  ASSUME SystemInv, [Next]_vars, UNCHANGED apiVars
  PROVE  SystemInv'
<1>1. TypeOK' /\ WorkerShape'
  BY NextType DEF SystemInv, SystemTypeOK
<1>2. ApiTypeOK'
  BY DEF SystemInv, SystemTypeOK, ApiTypeOK, apiVars
<1>3. AbsentIsBare'
  BY ProcessesKeepRows DEF SystemInv, AbsentIsBare
<1>4. RecordsExist' /\ PostedWasSent' /\ WritesExist' /\ WritesSent'
  <2>1. CASE SchedulerNext /\ UNCHANGED workerVars
    BY <2>1, SchedulerRecords DEF SchedulerNext
  <2>2. CASE WorkerNext
    BY <2>2, WorkerRecords DEF WorkerNext
  <2>3. CASE StoreNext /\ UNCHANGED workerVars
    <3>1. UNCHANGED <<attached, posted, errored, authorized, sent>>
      BY <2>3 DEF StoreNext, RedisRestart, ComesDue, rowVars
    <3> QED
      BY <2>3, <3>1, SameRecords, SameWriters DEF SystemInv, apiVars
  <2>4. CASE UNCHANGED vars
    BY <2>4, SameRecords, SameWriters DEF SystemInv, apiVars, vars, storeVars, rowVars
  <2> QED
    BY <2>1, <2>2, <2>3, <2>4 DEF Next
<1> QED
  BY <1>1, <1>2, <1>3, <1>4 DEF SystemInv, SystemTypeOK

LEMMA InitSystem == SystemInit => SystemInv
<1> SUFFICES ASSUME SystemInit PROVE SystemInv
  OBVIOUS
<1>1. AbsentRow \in PostRow
  BY DEF AbsentRow, PostRow, StatusDraft, SchedulePending
<1>2. LiveAccounts \subseteq Accounts
  BY DEF LiveAccounts
<1>3. StoreTypeOK
  BY <1>1, <1>2, RequestedRowType DEF SystemInit, StoreTypeOK
<1>4. SchedulerTypeOK /\ WorkerTypeOK /\ ApiTypeOK
  BY DEF SystemInit, SchedulerTypeOK, SchedulerInit, WorkerTypeOK, WorkerInit, ApiTypeOK,
         NoWrites, TxWrites, ErrKinds
<1>5. WorkerShape /\ WritesExist /\ WritesSent
  BY DEF SystemInit, WorkerInit, WorkerShape, WritesExist, WritesSent
<1>6. RecordsExist /\ PostedWasSent /\ AbsentIsBare
  BY DEF SystemInit, RecordsExist, PostedWasSent, AbsentIsBare
<1> QED
  BY <1>3, <1>4, <1>5, <1>6 DEF SystemInv, SystemTypeOK, TypeOK

LEMMA NextSystem == SystemInv /\ [SystemNext]_systemVars => SystemInv'
<1> SUFFICES ASSUME SystemInv, [SystemNext]_systemVars PROVE SystemInv'
  OBVIOUS
<1>1. CASE [Next]_vars /\ UNCHANGED apiVars
  BY <1>1, ProcessesInv
<1>2. CASE ApiNext /\ UNCHANGED schedulerVars
  BY <1>2, UpdatePostInv, DeadlockInv, UnderWorkerInv, DeletePostInv,
     AccountRequestInv, ImportPagesInv, DeleteAccountInv, WriteServiceInv DEF ApiNext
<1>3. CASE UNCHANGED systemVars
  BY <1>1, <1>3 DEF systemVars
<1> QED
  BY <1>1, <1>2, <1>3 DEF SystemNext

(***************************************************************************)
(* The invariant of the pipeline under edits, for every kind of request    *)
(* and of failure.                                                         *)
(***************************************************************************)
THEOREM SystemInvariant == SystemSpec => []SystemInv
BY InitSystem, NextSystem, PTL DEF SystemSpec

(***************************************************************************)
(* What a row calls posted the provider has accepted.                      *)
(***************************************************************************)
THEOREM Honest == SystemSpec => []PostedWasSent
<1>1. SystemInv => PostedWasSent
  BY DEF SystemInv
<1> QED
  BY <1>1, SystemInvariant, PTL

LEMMA OnlyClaimStarts ==
  ASSUME SystemInv, [Next]_vars, NEW p \in Posts,
         posts[p].sched = SchedulePending, posts'[p].sched = ScheduleRunning
  PROVE  IsClaimable(posts[p])
<1> USE DEF SystemInv, SystemTypeOK, TypeOK, StoreTypeOK
<1>0. SchedulePending # ScheduleRunning /\ ScheduleComplete # ScheduleRunning
  BY DEF SchedulePending, ScheduleRunning, ScheduleComplete
<1>1. ASSUME NEW s \in Schedulers, SchedulerStep(s) \/ SchedulerFault(s)
      PROVE  IsClaimable(posts[p])
  <2>1. PICK q \in Posts : posts' = [posts EXCEPT ![q] = Claimed(q)] /\ IsClaimable(posts[q])
    BY <1>0, <1>1 DEF SchedulerStep, SchedulerFault, Scan, SkipClaim, Claim, Push, ClaimFails,
       ClaimUnknown, PushDup, PushFails, SchedulerCrash, storeVars
  <2> QED
    BY <2>1, <1>0
<1>2. ASSUME NEW w \in Workers, WorkerStep(w) \/ WorkerFault(w)
      PROVE  FALSE
  <2>1. CASE pc[w] \in {"commit", "markcommit"} /\ Apply(w)
    <3>1. job[w].post \in Posts
      BY <2>1, RowFacts
    <3>2. tx[w].verdict \in {"none", "published", "failed"}
      BY DEF WorkerTypeOK, TxWrites
    <3>3. posts' = [posts EXCEPT ![job[w].post] = Finalized(posts[job[w].post], tx[w].verdict)]
      BY <2>1 DEF Apply
    <3> QED
      BY <1>0, <3>1, <3>2, <3>3, FinalizedRow
  <2>2. CASE ~(pc[w] \in {"commit", "markcommit"} /\ Apply(w))
    BY <1>0, <1>2, <2>2 DEF WorkerStep, WorkerFault, BRPop, FetchAccount, FetchService,
         FetchText, FetchOriginal, Publish, RecordResult, Commit, Retry, Mark, CommitMark, CommitUnknown,
         StatementFails, RetryFails, RetryDup, MarkFails, WorkerCrash, storeVars
  <2> QED
    BY <2>1, <2>2
<1>3. CASE StoreNext
  <2>1. ASSUME NEW q \in Posts, ComesDue(q) PROVE posts'[p].sched = posts[p].sched
    <3>1. ASSUME NEW post \in PostRow
          PROVE  [post EXCEPT !.at = "due"].sched = post.sched
      BY DEF PostRow
    <3> QED
      BY <2>1, <3>1 DEF ComesDue
  <2> QED
    BY <1>0, <1>3, <2>1 DEF StoreNext, RedisRestart
<1>4. CASE UNCHANGED vars
  BY <1>0, <1>4 DEF vars, storeVars
<1> QED
  BY <1>1, <1>2, <1>3, <1>4 DEF Next, SchedulerNext, WorkerNext

\* No request sets schedule_status to Running.
LEMMA NoRequestStarts ==
  ASSUME SystemInv, ApiNext, NEW p \in Posts, posts[p].sched = SchedulePending
  PROVE  posts'[p].sched = SchedulePending
<1> USE DEF SystemInv, SystemTypeOK, TypeOK, StoreTypeOK
<1>1. ASSUME NEW q \in Posts, WritePost(q) PROVE posts'[p].sched = SchedulePending
  BY <1>1 DEF WritePost, RequestedRow
<1>2. ASSUME NEW q \in Posts, DeletePost(q) PROVE posts'[p].sched = SchedulePending
  <2>1. ASSUME NEW post \in PostRow
        PROVE  [post EXCEPT !.row = "deleted"].sched = post.sched
    BY DEF PostRow
  <2> QED
    BY <1>2, <2>1 DEF DeletePost
<1> QED
  BY <1>1, <1>2 DEF ApiNext, CreatePost, UpdatePost, UpdatePostDeadlock,
     UpdatePostUnderWorker, CheckService, WriteAccount, ImportPages, DeleteAccount,
     WriteService, storeVars

(***************************************************************************)
(* Whatever clients, schedulers and workers do to the tables at the same   *)
(* time, every row, job and open transaction stays well typed.             *)
(***************************************************************************)
THEOREM SystemTypes == SystemSpec => []SystemTypeOK
<1>1. SystemInv => SystemTypeOK
  BY DEF SystemInv
<1> QED
  BY <1>1, SystemInvariant, PTL

(***************************************************************************)
(* A post withdrawn between the scan and the claim does not start.         *)
(***************************************************************************)
THEOREM Withdrawn == SystemSpec => WithdrawnNeverStarts
<1>1. SystemInv /\ [SystemNext]_systemVars => [WithdrawnStaysBack]_systemVars
  <2> SUFFICES ASSUME SystemInv, SystemNext,
                      NEW p \in Posts, posts[p].sched = SchedulePending,
                      posts[p].row # "live" \/ posts[p].status = StatusDraft
               PROVE  posts'[p].sched # ScheduleRunning
    BY DEF WithdrawnStaysBack
  <2>1. ~IsClaimable(posts[p])
    BY DEF IsClaimable, StatusDraft, StatusScheduled
  <2>2. SchedulePending # ScheduleRunning
    BY DEF SchedulePending, ScheduleRunning
  <2> QED
    BY <2>1, <2>2, OnlyClaimStarts, NoRequestStarts DEF SystemNext
<1> QED
  BY <1>1, SystemInvariant, PTL DEF SystemSpec, WithdrawnNeverStarts

=============================================================================
