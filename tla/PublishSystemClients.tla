------------------------ MODULE PublishSystemClients ------------------------
(***************************************************************************)
(* What holds of the pipeline with clients at the API, and what the        *)
(* clients must refrain from for it.  That no row of a running post is     *)
(* without a job needs nothing of them.  The other guarantees of the       *)
(* pipeline alone carry over as long as no client updates a post that was  *)
(* claimed; some of them need in addition that no account is deleted.      *)
(* Everything else clients may do at any moment: create posts, change,     *)
(* schedule and delete them before the claim, delete running posts, write  *)
(* accounts and services, import pages.                                    *)
(***************************************************************************)
EXTENDS PublishSystemProofs, PublishPipelineDelivery, PublishPipelineJobs

USE ManagementAssumption

NoRearm  == "rearm" \notin Requests
NoUnlink == "unlink" \notin Requests

\* A post that does not exist was not claimed.
AbsentWaits ==
  \A p \in Posts : posts[p].row = "absent" => posts[p].sched = SchedulePending

ClientInv == SystemInv /\ LifeInv /\ AbsentWaits

\* What a request may do to a post that was claimed: take the rows of the
\* accounts gone.
StartedKept(p, gone) ==
  /\ posts'[p].sched = posts[p].sched
  /\ posts'[p].status = posts[p].status
  /\ versions'[p] = versions[p]
  /\ attached'[p] = attached[p] \ gone
  /\ posted'[p] = posted[p] \ gone
  /\ errored'[p] = errored[p] \ gone

\* What it may do to one that was not: rewrite it, still to be claimed.
WaitingKept(p) ==
  /\ posts'[p].sched = SchedulePending
  /\ posts'[p].status \in {posts[p].status, StatusDraft, StatusScheduled}
  /\ posted'[p] = {} /\ errored'[p] = {}

Request(gone) ==
  /\ UNCHANGED <<workerVars, schedulerVars, queue, sent>>
  /\ \A p \in Posts : IF Started(p) THEN StartedKept(p, gone) ELSE WaitingKept(p)
  /\ \A p \in Posts : posts'[p].row = "absent" => posts[p].row = "absent"

LEMMA WrittenPost ==
  ASSUME ClientInv, NEW p \in Posts, ~Started(p), WritePost(p),
         UNCHANGED <<workerVars, schedulerVars>>
  PROVE  Request({})
<1> USE DEF ClientInv, SystemInv, SystemTypeOK, TypeOK, StoreTypeOK
<1>1. /\ posts'[p] \in RequestedRow
      /\ \A q \in Posts \ {p} : posts'[q] = posts[q]
  BY DEF WritePost
<1>2. /\ posted'[p] = {} /\ errored'[p] = {}
      /\ \A q \in Posts \ {p} : UNCHANGED <<attached[q], posted[q], errored[q], versions[q]>>
  BY DEF WritePost, ReplaceRows
<1>3. UNCHANGED <<queue, sent>>
  BY DEF WritePost
<1>4. WaitingKept(p) /\ posts'[p].row # "absent"
  BY <1>1, <1>2 DEF WaitingKept, RequestedRow
<1>5. ASSUME NEW q \in Posts, q # p
      PROVE  /\ IF Started(q) THEN StartedKept(q, {}) ELSE WaitingKept(q)
             /\ posts'[q].row = posts[q].row
  <2>1. ~Started(q) => posted[q] = {} /\ errored[q] = {}
    BY DEF LifeInv, WaitingIsBare
  <2> QED
    BY <1>1, <1>2, <1>5, <2>1 DEF StartedKept, WaitingKept, Started
<1> QED
  BY <1>3, <1>4, <1>5 DEF Request

LEMMA OtherRequest ==
  ASSUME ClientInv, NEW gone \in SUBSET Accounts,
         UNCHANGED <<workerVars, schedulerVars, queue, sent, versions>>,
         \A p \in Posts : /\ posts'[p].sched = posts[p].sched
                          /\ posts'[p].status = posts[p].status
                          /\ posts'[p].row \in {posts[p].row, "deleted"}
                          /\ attached'[p] = attached[p] \ gone
                          /\ posted'[p] = posted[p] \ gone
                          /\ errored'[p] = errored[p] \ gone
  PROVE  Request(gone)
<1>1. \A p \in Posts : ~Started(p) => posted[p] = {} /\ errored[p] = {}
  BY DEF ClientInv, LifeInv, WaitingIsBare
<1> QED
  BY <1>1 DEF Request, StartedKept, WaitingKept, Started

(***************************************************************************)
(* A client that does not update claimed posts does not touch them, except *)
(* by deleting an account.                                                 *)
(***************************************************************************)
LEMMA RequestStep ==
  ASSUME NoRearm, ClientInv, ApiNext, UNCHANGED schedulerVars
  PROVE  \E gone \in SUBSET Accounts : Request(gone) /\ (NoUnlink => gone = {})
<1>0. ASSUME NEW p \in Posts, MayUpdate(p) PROVE ~Started(p)
  BY <1>0 DEF MayUpdate, UpdateKind, Edit, NoRearm, Started
<1>1. ASSUME NEW p \in Posts, CreatePost(p) PROVE Request({})
  <2>1. ~Started(p)
    BY <1>1 DEF CreatePost, ClientInv, AbsentWaits, Started
  <2> QED
    BY <1>1, <2>1, WrittenPost DEF CreatePost
<1>2. ASSUME NEW p \in Posts, UpdatePost(p) PROVE Request({})
  BY <1>0, <1>2, WrittenPost DEF UpdatePost
<1>3. ASSUME NEW p \in Posts, NEW w \in Workers,
             UpdatePostDeadlock(w, p) \/ UpdatePostUnderWorker(w, p)
      PROVE  FALSE
  <2>1. MayUpdate(p) /\ job[w].post = p /\ pc[w] # "idle"
    BY <1>3 DEF UpdatePostDeadlock, UpdatePostUnderWorker, ClientInv, LifeInv, WorkerShape
  <2> QED
    BY <1>0, <2>1, BusyStarted DEF ClientInv
<1>4. ASSUME NEW p \in Posts, DeletePost(p) PROVE Request({})
  <2>1. ASSUME NEW post \in PostRow
        PROVE  LET q == [post EXCEPT !.row = "deleted"]
               IN  q.sched = post.sched /\ q.status = post.status /\ q.row = "deleted"
    BY DEF PostRow
  <2>2. \A q \in Posts : /\ posts'[q].sched = posts[q].sched
                         /\ posts'[q].status = posts[q].status
                         /\ posts'[q].row \in {posts[q].row, "deleted"}
    BY <1>4, <2>1 DEF DeletePost, ClientInv, LifeInv, TypeOK, StoreTypeOK
  <2>3. UNCHANGED <<attached, posted, errored, versions, workerVars, queue, sent>>
    BY <1>4 DEF DeletePost, rowVars
  <2> QED
    BY <2>2, <2>3, OtherRequest
<1>5. CASE UNCHANGED <<posts, rowVars, versions, queue, sent, workerVars>>
  <2>1. Request({})
    BY <1>5, OtherRequest DEF rowVars
  <2> QED
    BY <2>1
<1>6. ASSUME NEW a \in Accounts, DeleteAccount(a)
      PROVE  \E gone \in SUBSET Accounts : Request(gone) /\ (NoUnlink => gone = {})
  <2>1. \A p \in Posts : /\ attached'[p] = attached[p] \ {a}
                         /\ posted'[p] = posted[p] \ {a}
                         /\ errored'[p] = errored[p] \ {a}
    BY <1>6 DEF DeleteAccount
  <2>2. UNCHANGED <<posts, versions, queue, sent, workerVars>>
    BY <1>6 DEF DeleteAccount
  <2>3. Request({a})
    BY <2>1, <2>2, OtherRequest
  <2>4. ~NoUnlink
    BY <1>6 DEF DeleteAccount, Edit, NoUnlink
  <2> QED
    BY <2>3, <2>4
<1> QED
  BY <1>1, <1>2, <1>3, <1>4, <1>5, <1>6
     DEF ApiNext, CheckService, WriteAccount, ImportPages, WriteService, storeVars
-----------------------------------------------------------------------------
(***************************************************************************)
(* The invariant all the guarantees rest on.                               *)
(***************************************************************************)
LEMMA RequestFrame ==
  ASSUME NEW gone \in SUBSET Accounts, Request(gone)
  PROVE  /\ Carried' = Carried /\ Busy' = Busy
         /\ \A p \in Posts : Started(p)' = Started(p)
<1>1. Carried' = Carried /\ Busy' = Busy
  BY DEF Request, Carried, QueuePairs, WorkerPairs, LeftPairs, Busy, JobPair, workerVars,
         schedulerVars
<1>2. ASSUME NEW p \in Posts PROVE Started(p)' = Started(p)
  BY DEF Request, StartedKept, WaitingKept, Started
<1> QED
  BY <1>1, <1>2

LEMMA CarriedPair ==
  ASSUME LifeInv, NEW pair \in Carried
  PROVE  pair[1] \in Posts /\ Started(pair[1])
<1>1. ASSUME pair \in QueuePairs PROVE pair[1] \in Posts
  <2>1. PICK i \in 1..Len(queue) : pair = JobPair(queue[i])
    BY <1>1 DEF QueuePairs
  <2>2. queue[i] \in Jobs
    BY DEF LifeInv, TypeOK, StoreTypeOK
  <2> QED
    BY <2>1, <2>2 DEF JobPair, Jobs
<1>2. ASSUME pair \in WorkerPairs PROVE pair[1] \in Posts
  BY <1>2, BusyJob DEF LifeInv, WorkerPairs, JobPair
<1>3. ASSUME pair \in LeftPairs PROVE pair[1] \in Posts
  BY <1>3 DEF LeftPairs, LifeInv, TypeOK, SchedulerTypeOK
<1> QED
  BY <1>1, <1>2, <1>3 DEF Carried, LifeInv, JobsStarted

LEMMA InitClient == SystemInit => ClientInv
<1> SUFFICES ASSUME SystemInit PROVE ClientInv
  OBVIOUS
<1>1. SystemInv
  BY InitSystem
<1>2. QueuePairs = {} /\ LeftPairs = {} /\ WorkerPairs = {}
  <2>1. Len(queue) = 0 /\ Busy = {} /\ \A s \in Schedulers : left[s] = {}
    BY DEF SystemInit, WorkerInit, SchedulerInit, Busy
  <2> QED
    BY <2>1 DEF QueuePairs, LeftPairs, WorkerPairs
<1>3. WaitingIsBare
  BY DEF SystemInit, WaitingIsBare
<1>4. AbsentWaits
  BY DEF SystemInit, AbsentWaits, AbsentRow, RequestedRow
<1> QED
  BY <1>1, <1>2, <1>3, <1>4
     DEF ClientInv, LifeInv, SystemInv, SystemTypeOK, JobsStarted, Carried

LEMMA RequestClient ==
  ASSUME ClientInv, SystemInv', NEW gone \in SUBSET Accounts, Request(gone)
  PROVE  ClientInv'
<1>1. TypeOK' /\ WorkerShape'
  BY DEF SystemInv, SystemTypeOK
<1>2. JobsStarted'
  <2> SUFFICES ASSUME NEW pair \in Carried PROVE Started(pair[1])'
    BY RequestFrame DEF JobsStarted
  <2> QED
    BY RequestFrame, CarriedPair DEF ClientInv
<1>3. WaitingIsBare'
  BY RequestFrame DEF WaitingIsBare, Request, WaitingKept
<1>4. AbsentWaits'
  BY DEF ClientInv, AbsentWaits, Request, WaitingKept, Started
<1> QED
  BY <1>1, <1>2, <1>3, <1>4 DEF ClientInv, LifeInv

LEMMA ProcessesClient ==
  ASSUME ClientInv, SystemInv', [Next]_vars
  PROVE  ClientInv'
<1>1. LifeInv'
  BY NextLife DEF ClientInv
<1>2. ASSUME NEW p \in Posts, posts'[p].row = "absent"
      PROVE  posts'[p].sched = SchedulePending
  <2>1. posts[p].row = "absent"
    BY <1>2, ProcessesKeepRows DEF ClientInv
  <2>2. ~Started(p) /\ ~IsClaimable(posts[p])
    BY <2>1 DEF ClientInv, AbsentWaits, Started, IsClaimable
  <2> QED
    BY <2>2, StartsByClaim DEF ClientInv, Started
<1> QED
  BY <1>1, <1>2 DEF ClientInv, AbsentWaits

\* A step of the system is one of the processes or one of a client.
LEMMA SystemStep ==
  ASSUME NoRearm, ClientInv, [SystemNext]_systemVars
  PROVE  \/ [Next]_vars
         \/ \E gone \in SUBSET Accounts : Request(gone) /\ (NoUnlink => gone = {})
BY RequestStep DEF SystemNext, systemVars

LEMMA NextClient == NoRearm /\ ClientInv /\ [SystemNext]_systemVars => ClientInv'
<1> SUFFICES ASSUME NoRearm, ClientInv, [SystemNext]_systemVars PROVE ClientInv'
  OBVIOUS
<1>1. SystemInv'
  BY NextSystem DEF ClientInv
<1> QED
  BY <1>1, SystemStep, RequestClient, ProcessesClient

(***************************************************************************)
(* While clients leave claimed posts alone, every job is of a claimed post *)
(* and a post that was not claimed has no outcome, at any moment.          *)
(***************************************************************************)
THEOREM ClientInvariant == ASSUME NoRearm PROVE SystemSpec => []ClientInv
<1>1. ClientInv /\ [SystemNext]_systemVars => ClientInv'
  BY NextClient
<1> QED
  BY <1>1, InitClient, PTL DEF SystemSpec

-----------------------------------------------------------------------------
(***************************************************************************)
(* The invariants of the pipeline under requests.                          *)
(***************************************************************************)
LEMMA RequestRows ==
  ASSUME RowsFinal, LifeInv, LifeInv', Request({})
  PROVE  RowsFinal'
<1>1. ASSUME NEW p \in Posts, Started(p) PROVE SettledPost(p)'
  BY <1>1, RowsFinalPosts, SamePost DEF Request, StartedKept
<1>2. ASSUME NEW p \in Posts, ~Started(p) PROVE SettledPost(p)'
  <2>1. SettledPost(p) /\ WaitingKept(p) /\ posts[p].sched = SchedulePending
    BY <1>2, RowsFinalPosts DEF Request, Started
  <2>2. posts[p].status \notin {StatusPublished, StatusFailed}
    BY <2>1, ScheduleValues DEF SettledPost, StatusRight
  <2>3. posts'[p].status \notin {StatusPublished, StatusFailed}
    BY <2>1, <2>2
       DEF WaitingKept, StatusDraft, StatusScheduled, StatusPublished, StatusFailed
  <2> QED
    BY <2>1, <2>3, ScheduleValues DEF WaitingKept, SettledPost, StatusRight
<1> QED
  BY <1>1, <1>2 DEF RowsFinal, OutcomesAttached, FinalStatusCorrect, SettledIsFinal, SettledPost

LEMMA RequestSettle ==
  ASSUME SettleInv, LifeInv', Request({})
  PROVE  SettleInv'
<1>1. RowsFinal'
  BY RequestRows DEF SettleInv
<1>2. JobsAttached'
  <2> SUFFICES ASSUME NEW pair \in Carried PROVE pair[2] \in attached'[pair[1]]
    BY RequestFrame DEF JobsAttached
  <2>1. attached'[pair[1]] = attached[pair[1]]
    BY CarriedPair DEF SettleInv, Request, StartedKept
  <2> QED
    BY <2>1 DEF SettleInv, JobsAttached
<1>3. VerdictsExact'
  <2> SUFFICES ASSUME NEW w \in Workers, pc[w] \in {"commit", "markcommit"}
               PROVE  LET p == job[w].post
                      IN  tx[w].verdict =
                            Verdict(attached'[p], PostedAfter(w)'[p], ErroredAfter(w)'[p])
    BY DEF VerdictsExact, Request, workerVars
  <2> DEFINE p == job[w].post
  <2>1. p \in Posts /\ Started(p) /\ TypeOK /\ TypeOK'
    BY BusyStarted DEF SettleInv, LifeInv
  <2>2. attached'[p] = attached[p] /\ posted'[p] = posted[p] /\ errored'[p] = errored[p]
    BY <2>1 DEF Request, StartedKept
  <2>3. job'[w] = job[w] /\ tx'[w] = tx[w]
    BY DEF Request, workerVars
  <2>4. PostedAfter(w)'[p] = PostedAfter(w)[p] /\ ErroredAfter(w)'[p] = ErroredAfter(w)[p]
    <3> USE <2>1, <2>2, <2>3 DEF TypeOK, StoreTypeOK, WorkerTypeOK, TxWrites
    <3>1. CASE tx[w].row = "none"
      BY <3>1 DEF PostedAfter, ErroredAfter
    <3>2. CASE tx[w].row = "posted"
      BY <3>2 DEF PostedAfter, ErroredAfter
    <3>3. CASE tx[w].row = "errored"
      BY <3>3 DEF PostedAfter, ErroredAfter
    <3> QED
      BY <3>1, <3>2, <3>3
  <2>5. tx[w].verdict = Verdict(attached[p], PostedAfter(w)[p], ErroredAfter(w)[p])
    BY DEF SettleInv, VerdictsExact
  <2> QED
    BY <2>2, <2>4, <2>5
<1> QED
  BY <1>1, <1>2, <1>3 DEF SettleInv

LEMMA RequestInv ==
  ASSUME Inv, LifeInv, TypeOK', WorkerShape', Request({})
  PROVE  Inv'
<1>1. /\ UNCHANGED <<pc, job, err, tx, left, queue>>
      /\ Busy' = Busy
  BY RequestFrame DEF Request, workerVars, schedulerVars
<1>2. JobsApart'
  BY <1>1 DEF Inv, JobsApart, JobPair
<1>3. JobsOpen'
  <2>1. ASSUME NEW pair \in Carried, Open(pair) PROVE Open(pair)'
    BY <2>1, CarriedPair DEF Request, StartedKept, Open
  <2>2. /\ \A i \in 1..Len(queue) : JobPair(queue[i]) \in Carried
        /\ \A w \in Busy : JobPair(job[w]) \in Carried
        /\ \A s \in Schedulers : \A pair \in left[s] : pair \in Carried
    BY DEF Carried, QueuePairs, WorkerPairs, LeftPairs
  <2>3. /\ \A i \in 1..Len(queue') : Open(JobPair(queue[i]))'
        /\ \A w \in Busy' : Open(JobPair(job[w]))'
        /\ \A s \in Schedulers : \A pair \in left'[s] : Open(pair)'
    <3>1. \A i \in 1..Len(queue) : Open(JobPair(queue[i]))
      BY DEF Inv, JobsOpen
    <3>2. \A w \in Busy : Open(JobPair(job[w]))
      BY DEF Inv, JobsOpen
    <3>3. \A s \in Schedulers : \A pair \in left[s] : Open(pair)
      BY DEF Inv, JobsOpen
    <3>4. \A i \in 1..Len(queue') : Open(JobPair(queue[i]))'
      BY <1>1, <2>1, <2>2, <3>1 DEF Open, JobPair
    <3>5. \A w \in Busy' : Open(JobPair(job[w]))'
      BY <1>1, <2>1, <2>2, <3>2 DEF Open, JobPair
    <3> QED
      BY <1>1, <2>1, <2>2, <3>3, <3>4, <3>5
  <2> QED
    BY <2>3 DEF JobsOpen
<1>4. RowsRight'
  <2> SUFFICES ASSUME NEW p \in Posts
               PROVE  /\ posted'[p] \cup errored'[p] \subseteq attached'[p]
                      /\ posted'[p] \cap errored'[p] = {}
                      /\ posts'[p].sched = SchedulePending => posted'[p] = {} /\ errored'[p] = {}
    BY DEF RowsRight
  <2>1. CASE Started(p)
    BY <2>1 DEF Request, StartedKept, Inv, RowsRight
  <2>2. CASE ~Started(p)
    BY <2>2 DEF Request, WaitingKept
  <2> QED
    BY <2>1, <2>2
<1>5. VerdictsRight'
  <2> SUFFICES ASSUME NEW w \in Workers, pc[w] \in {"commit", "markcommit"}
               PROVE  WriteRight(w)'
    BY <1>1 DEF VerdictsRight, WriteRight
  <2> DEFINE p == job[w].post
  <2>1. p \in Posts /\ Started(p)
    BY BusyStarted
  <2>2. attached'[p] = attached[p] /\ posted'[p] = posted[p] /\ errored'[p] = errored[p]
    BY <2>1 DEF Request, StartedKept
  <2>3. WriteRight(w)
    BY DEF Inv, VerdictsRight
  <2> QED
    BY <1>1, <2>2, <2>3 DEF WriteRight
<1>6. FinalStatusCorrect'
  <2> SUFFICES ASSUME NEW p \in Posts PROVE StatusRight(p)'
    BY DEF FinalStatusCorrect
  <2>1. StatusRight(p)
    BY DEF Inv, FinalStatusCorrect
  <2>2. CASE Started(p)
    BY <2>1, <2>2 DEF Request, StartedKept, StatusRight
  <2>3. CASE ~Started(p)
    <3>1. posts'[p].status \notin {StatusPublished, StatusFailed}
      BY <2>1, <2>3, ScheduleValues
         DEF Request, WaitingKept, StatusRight, Started, StatusDraft, StatusScheduled,
             StatusPublished, StatusFailed
    <3>2. posts'[p].sched # ScheduleComplete
      BY <2>3, ScheduleValues DEF Request, WaitingKept
    <3> QED
      BY <3>1, <3>2 DEF StatusRight
  <2> QED
    BY <2>2, <2>3
<1> QED
  BY <1>2, <1>3, <1>4, <1>5, <1>6 DEF Inv

LEMMA RequestSent ==
  ASSUME SentRight, Request({})
  PROVE  SentRight'
<1>1. UNCHANGED <<sent, queue, left, pc, job, tx>>
  BY DEF Request, workerVars, schedulerVars
<1>2. QueueSent' /\ LeftSent' /\ HeldSent'
  BY <1>1 DEF SentRight, QueueSent, LeftSent, HeldSent, HeldRight, Tried, Sent, JobPair
<1>3. RowsSent'
  <2> SUFFICES ASSUME NEW p \in Posts, NEW a \in Accounts
               PROVE  /\ sent'[p][a] <= MaxAttempts
                      /\ posts'[p].sched = SchedulePending => sent'[p][a] = 0
                      /\ a \in posted'[p] => sent'[p][a] > 0
    BY DEF RowsSent
  <2>1. CASE Started(p)
    BY <1>1, <2>1 DEF Request, StartedKept, SentRight, RowsSent, Started
  <2>2. CASE ~Started(p)
    BY <1>1, <2>2 DEF Request, WaitingKept, SentRight, RowsSent, Started
  <2> QED
    BY <2>1, <2>2
<1> QED
  BY <1>2, <1>3 DEF SentRight

-----------------------------------------------------------------------------
(***************************************************************************)
(* The guarantees.  NoDuplicates, OneWorker and NoLosses are what the      *)
(* pipeline alone needs for them.                                          *)
(***************************************************************************)
\* The invariants of the pipeline at the start of the system.
LEMMA InitSystemInv == SystemInit => Inv /\ SentRight /\ SettleInv /\ CarryInv
<1> SUFFICES ASSUME SystemInit PROVE Inv /\ SentRight /\ SettleInv /\ CarryInv
  OBVIOUS
<1>1. LifeInv /\ TypeOK /\ WorkerShape
  BY InitClient DEF ClientInv, LifeInv
<1>2. /\ Len(queue) = 0 /\ Busy = {} /\ \A s \in Schedulers : left[s] = {}
      /\ \A w \in Workers : pc[w] = "idle"
      /\ \A p \in Posts : posted[p] = {} /\ errored[p] = {}
      /\ \A p \in Posts, a \in Accounts : sent[p][a] = 0
  BY DEF SystemInit, WorkerInit, SchedulerInit, Busy
<1>3. \A p \in Posts : /\ posts[p].sched = SchedulePending
                       /\ posts[p].status \in {StatusDraft, StatusScheduled}
  BY DEF SystemInit, RequestedRow, AbsentRow
<1>4. JobsApart /\ JobsOpen
  BY <1>2 DEF JobsApart, JobsOpen
<1>5. RowsRight /\ VerdictsRight
  BY <1>2 DEF RowsRight, VerdictsRight, WriteRight
<1>6. FinalStatusCorrect
  BY <1>3, ScheduleValues DEF FinalStatusCorrect, StatusRight, StatusDraft, StatusScheduled,
                              StatusPublished, StatusFailed
<1>7. SentRight
  BY <1>2 DEF SentRight, RowsSent, LeftSent, QueueSent, HeldSent, HeldRight, MaxAttempts
<1>8. SettleInv
  <2>1. JobsAttached
    BY <1>2 DEF JobsAttached, Carried, QueuePairs, WorkerPairs, LeftPairs
  <2>2. RowsFinal
    BY <1>2, <1>3, <1>6, ScheduleValues DEF RowsFinal, OutcomesAttached, SettledIsFinal
  <2> QED
    BY <1>1, <1>2, <2>1, <2>2 DEF SettleInv, VerdictsExact
<1>9. CarryInv
  BY <1>1, <1>3, ScheduleValues DEF CarryInv, OpenKept, Open, Pairs
<1> QED
  BY <1>1, <1>4, <1>5, <1>6, <1>7, <1>8, <1>9 DEF Inv

LEMMA NextSystemInv ==
  ASSUME NoDuplicates, NoRearm, NoUnlink, ClientInv, Inv, SentRight, [SystemNext]_systemVars
  PROVE  Inv' /\ SentRight'
<1>1. TypeOK' /\ WorkerShape'
  BY NextClient DEF ClientInv, LifeInv
<1>2. CASE [Next]_vars
  BY <1>2, NextInv, NextSent
<1>3. CASE Request({})
  BY <1>1, <1>3, RequestInv, RequestSent DEF ClientInv
<1> QED
  BY <1>2, <1>3, SystemStep

(***************************************************************************)
(* The invariants of the pipeline and of its deliveries survive such       *)
(* clients, if they delete no account either.                              *)
(***************************************************************************)
THEOREM SystemInvInvariant ==
  ASSUME NoDuplicates, NoRearm, NoUnlink PROVE SystemSpec => [](Inv /\ SentRight)
<1>1. SystemInit => Inv /\ SentRight
  BY InitSystemInv
<1>2. ClientInv /\ Inv /\ SentRight /\ [SystemNext]_systemVars => (Inv /\ SentRight)'
  BY NextSystemInv
<1> QED
  BY <1>1, <1>2, ClientInvariant, PTL DEF SystemSpec

(***************************************************************************)
(* A row's job is in one place at most, and nowhere once the row has its   *)
(* outcome, whatever clients do to posts that were not claimed.            *)
(***************************************************************************)
THEOREM SystemOneJob ==
  ASSUME NoDuplicates, NoRearm, NoUnlink PROVE SystemSpec => []OneJobPerAccount
BY InvOneJob, SystemInvInvariant, PTL

(***************************************************************************)
(* No row costs the reader more publications than it has attempts, though  *)
(* texts, tokens and services change between them.                         *)
(***************************************************************************)
THEOREM SystemDelivery ==
  ASSUME NoDuplicates, NoRearm, NoUnlink PROVE SystemSpec => []DeliveryBounded
<1>1. SentRight => DeliveryBounded
  BY DEF SentRight, RowsSent, DeliveryBounded
<1> QED
  BY <1>1, SystemInvInvariant, PTL

(***************************************************************************)
(* With one worker the post is finalized with its last row, and the way    *)
(* its rows call for, whatever fails or is sent twice.                     *)
(***************************************************************************)
THEOREM SettleInvInvariant ==
  ASSUME OneWorker, NoRearm, NoUnlink PROVE SystemSpec => []SettleInv
<1>1. SystemInit => SettleInv
  BY InitSystemInv
<1>2. ClientInv /\ ClientInv' /\ SettleInv /\ [SystemNext]_systemVars => SettleInv'
  <2> SUFFICES ASSUME ClientInv, ClientInv', SettleInv, [SystemNext]_systemVars
               PROVE  SettleInv'
    OBVIOUS
  <2>1. CASE [Next]_vars
    BY <2>1, NextSettle
  <2>2. CASE Request({})
    BY <2>2, RequestSettle DEF ClientInv
  <2> QED
    BY <2>1, <2>2, SystemStep
<1> QED
  BY <1>1, <1>2, ClientInvariant, PTL DEF SystemSpec

(***************************************************************************)
(* With one worker a running post has a row without an outcome, whatever   *)
(* fails or is sent twice.                                                 *)
(***************************************************************************)
THEOREM SystemSoleWorker ==
  ASSUME OneWorker, NoRearm, NoUnlink PROVE SystemSpec => []SettledIsFinal
<1>1. SettleInv => SettledIsFinal
  BY DEF SettleInv, RowsFinal
<1> QED
  BY <1>1, SettleInvInvariant, PTL

(***************************************************************************)
(* A finalized post has the status its rows call for, with clients that    *)
(* touch neither claimed posts nor the accounts posts have: if no job is   *)
(* duplicated and no commit in doubt, or if there is only one worker.      *)
(***************************************************************************)
THEOREM SystemFinalStatus ==
  ASSUME NoDuplicates \/ OneWorker, NoRearm, NoUnlink
  PROVE  SystemSpec => []FinalStatusCorrect
<1>1. ASSUME NoDuplicates PROVE SystemSpec => []FinalStatusCorrect
  <2>1. Inv => FinalStatusCorrect
    BY DEF Inv
  <2> QED
    BY <1>1, <2>1, SystemInvInvariant, PTL
<1>2. ASSUME OneWorker PROVE SystemSpec => []FinalStatusCorrect
  <2>1. SettleInv => FinalStatusCorrect
    BY DEF SettleInv, RowsFinal
  <2> QED
    BY <1>2, <2>1, SettleInvInvariant, PTL
<1> QED
  BY <1>1, <1>2

(***************************************************************************)
(* A step that publishes a post leaves it with an account and every one of *)
(* its accounts posted to.                                                 *)
(***************************************************************************)
THEOREM SystemPublished ==
  ASSUME NoDuplicates \/ OneWorker, NoRearm, NoUnlink
  PROVE  SystemSpec => PublishedMeansPosted
<1>1. FinalStatusCorrect' => [\A p \in Posts :
         posts[p].status # StatusPublished /\ posts'[p].status = StatusPublished
           => posted'[p] # {} /\ attached'[p] \subseteq posted'[p]]_systemVars
  BY DEF FinalStatusCorrect, StatusRight
<1> QED
  BY <1>1, SystemFinalStatus, PTL DEF SystemSpec, PublishedMeansPosted

-----------------------------------------------------------------------------
(***************************************************************************)
(* Requests strand no row, whatever they do: an update takes its post back *)
(* to pending, so none of its rows waits for a job, and workers it aborts  *)
(* or makes miss their row held jobs of that post only.  Nothing else      *)
(* makes a post run or gives a running post a new row.                     *)
(***************************************************************************)
LEMMA UpdateWorkers ==
  ASSUME SystemInv, NEW w \in Workers, NEW p \in Posts,
         UpdatePostDeadlock(w, p) \/ UpdatePostUnderWorker(w, p)
  PROVE  job[w].post = p /\ OthersRest(w)
<1>1. CASE UpdatePostDeadlock(w, p)
  BY <1>1, IdleLocal, ReturnErrorLocal
     DEF UpdatePostDeadlock, SystemInv, SystemTypeOK, TypeOK
<1>2. CASE UpdatePostUnderWorker(w, p)
  <2>1. Idle(w) \/ (UNCHANGED job /\ \E next, writes :
          pc' = [pc EXCEPT ![w] = next] /\ tx' = [tx EXCEPT ![w] = writes])
    BY <1>2 DEF UpdatePostUnderWorker
  <2> QED
    BY <1>2, <2>1, IdleLocal
       DEF UpdatePostUnderWorker, OthersRest, SystemInv, SystemTypeOK, TypeOK, WorkerTypeOK
<1> QED
  BY <1>1, <1>2

\* A request that writes post p and disturbs at most the workers busy with p.
LEMMA WrittenCarries ==
  ASSUME SystemInv, CarryInv, NEW p \in Posts, WritePost(p), UNCHANGED schedulerVars,
         UNCHANGED workerVars
           \/ \E w \in Workers : UpdatePostDeadlock(w, p) \/ UpdatePostUnderWorker(w, p)
  PROVE  OpenKept'
<1> SUFFICES ASSUME NEW pair \in Pairs, Open(pair)' PROVE pair \in Kept'
  BY DEF OpenKept
<1>0. TypeOK /\ WorkerShape /\ pair[1] \in Posts
  BY DEF CarryInv, Pairs
<1>1. posts'[p].sched = SchedulePending
  BY <1>0 DEF WritePost, RequestedRow, TypeOK, StoreTypeOK
<1>2. pair[1] # p
  BY <1>1, ScheduleValues DEF Open
<1>3. UNCHANGED <<posts[pair[1]], attached[pair[1]], posted[pair[1]], errored[pair[1]]>>
  BY <1>0, <1>2 DEF WritePost, ReplaceRows, TypeOK, StoreTypeOK
<1>4. pair \in Kept
  BY <1>3 DEF Open, CarryInv, OpenKept
<1>5. QueuePairs' = QueuePairs /\ LeftPairs' = LeftPairs
  BY DEF WritePost, QueuePairs, LeftPairs, schedulerVars
<1>6. CASE UNCHANGED workerVars
  BY <1>4, <1>6, SameKept DEF WritePost
<1>7. ASSUME NEW w \in Workers, UpdatePostDeadlock(w, p) \/ UpdatePostUnderWorker(w, p)
      PROVE  pair \in Kept'
  <2>1. job[w].post = p /\ OthersRest(w)
    BY <1>7, UpdateWorkers
  <2>2. pair # JobPair(job[w])
    BY <1>2, <2>1 DEF JobPair
  <2> QED
    BY <1>0, <1>4, <1>5, <2>1, <2>2, SettlingStay DEF Kept
<1> QED
  BY <1>6, <1>7

LEMMA RequestCarries ==
  ASSUME SystemInv, CarryInv, ApiNext, UNCHANGED schedulerVars
  PROVE  OpenKept'
<1>1. ASSUME NEW p \in Posts, WritePost(p), UNCHANGED workerVars
      PROVE  OpenKept'
  BY <1>1, WrittenCarries
<1>2. ASSUME NEW p \in Posts, NEW w \in Workers,
             UpdatePostDeadlock(w, p) \/ UpdatePostUnderWorker(w, p)
      PROVE  OpenKept'
  <2>1. WritePost(p)
    BY <1>2 DEF UpdatePostDeadlock, UpdatePostUnderWorker
  <2> QED
    BY <1>2, <2>1, WrittenCarries
<1>3. ASSUME UNCHANGED <<queue, workerVars>>, NEW gone \in SUBSET Accounts,
             \A p \in Posts : /\ posts'[p].sched = posts[p].sched
                              /\ attached'[p] = attached[p] \ gone
                              /\ posted'[p] = posted[p] \ gone
                              /\ errored'[p] = errored[p] \ gone
      PROVE  OpenKept'
  <2> SUFFICES ASSUME NEW pair \in Pairs, Open(pair)' PROVE pair \in Kept'
    BY DEF OpenKept
  <2>1. Open(pair)
    BY <1>3 DEF Open, Pairs
  <2> QED
    BY <1>3, <2>1, SameKept DEF CarryInv, OpenKept
<1>4. ASSUME NEW p \in Posts, DeletePost(p) PROVE OpenKept'
  <2>1. ASSUME NEW post \in PostRow
        PROVE  [post EXCEPT !.row = "deleted"].sched = post.sched
    BY DEF PostRow
  <2>2. \A q \in Posts : posts'[q].sched = posts[q].sched
    BY <1>4, <2>1 DEF DeletePost, CarryInv, TypeOK, StoreTypeOK
  <2>3. UNCHANGED <<attached, posted, errored, queue, workerVars>>
    BY <1>4 DEF DeletePost, rowVars
  <2>4. \A q \in Posts : /\ attached'[q] = attached[q] \ {}
                         /\ posted'[q] = posted[q] \ {}
                         /\ errored'[q] = errored[q] \ {}
    BY <2>3
  <2> QED
    BY <1>3, <2>2, <2>3, <2>4
<1>5. ASSUME NEW a \in Accounts, DeleteAccount(a) PROVE OpenKept'
  <2>1. \A p \in Posts : /\ posts'[p].sched = posts[p].sched
                         /\ attached'[p] = attached[p] \ {a}
                         /\ posted'[p] = posted[p] \ {a}
                         /\ errored'[p] = errored[p] \ {a}
    BY <1>5 DEF DeleteAccount
  <2>2. UNCHANGED <<queue, workerVars>>
    BY <1>5 DEF DeleteAccount
  <2> QED
    BY <1>3, <2>1, <2>2
<1>6. CASE UNCHANGED <<posts, rowVars, queue, workerVars>>
  <2>1. \A q \in Posts : /\ posts'[q].sched = posts[q].sched
                         /\ attached'[q] = attached[q] \ {}
                         /\ posted'[q] = posted[q] \ {}
                         /\ errored'[q] = errored[q] \ {}
    BY <1>6 DEF rowVars
  <2> QED
    BY <1>3, <1>6, <2>1
<1> QED
  BY <1>1, <1>2, <1>4, <1>5, <1>6
     DEF ApiNext, CreatePost, UpdatePost, CheckService, WriteAccount, ImportPages, WriteService,
         storeVars

(***************************************************************************)
(* While nothing is lost no row of a running post is without its job,      *)
(* whatever clients do meanwhile: update, re-arm or delete the post while  *)
(* it runs, or delete accounts of it.                                      *)
(***************************************************************************)
THEOREM SystemNeverStranded ==
  ASSUME NoLosses PROVE SystemSpec => []RunningHasJobs
<1>1. SystemInit => CarryInv
  BY InitSystemInv
<1>2. SystemInv /\ SystemInv' /\ CarryInv /\ [SystemNext]_systemVars => CarryInv'
  <2> SUFFICES ASSUME SystemInv, SystemInv', CarryInv, [SystemNext]_systemVars
               PROVE  CarryInv'
    OBVIOUS
  <2>1. CASE [Next]_vars
    BY <2>1, NextCarry
  <2>2. CASE ApiNext /\ UNCHANGED schedulerVars
    BY <2>2, RequestCarries DEF CarryInv, SystemInv, SystemTypeOK
  <2> QED
    BY <2>1, <2>2 DEF SystemNext, systemVars
<1> QED
  BY <1>1, <1>2, KeptHasHolder, SystemInvariant, PTL DEF SystemSpec

-----------------------------------------------------------------------------
(***************************************************************************)
(* The two SELECTs of fetchPublishTextTx have snapshots of their own; that *)
(* they agree is owed to the clients.                                      *)
(***************************************************************************)
TextSeen ==
  \A w \in Workers :
    pc[w] = "original" => versions[job[w].post].own[job[w].account] = "none"

LEMMA OnlyTextGoesOn ==
  ASSUME TypeOK, WorkerShape, NEW w \in Workers, WorkerStep(w) \/ WorkerFault(w)
  PROVE  /\ versions' = versions
         /\ pc'[w] = "original" =>
              /\ job'[w] = job[w]
              /\ versions[job[w].post].own[job[w].account] = "none"
         /\ pc[w] \in {"text", "original"} /\ pc'[w] = "error" /\ err'[w] = "permanent"
              => FetchText(w) \/ FetchOriginal(w)
<1> USE DEF TypeOK, WorkerTypeOK
<1>1. versions' = versions
  BY DEF WorkerStep, WorkerFault, BRPop, FetchAccount, FetchService, FetchText, FetchOriginal,
         Publish, RecordResult, Commit, Retry, Mark, CommitMark, CommitUnknown, Apply,
         StatementFails, RetryFails, RetryDup, MarkFails, WorkerCrash, storeVars
<1>2. CASE FetchText(w)
  BY <1>1, <1>2 DEF FetchText, UseContent, Goto, ReturnError
<1>3. CASE FetchOriginal(w)
  BY <1>1, <1>3 DEF FetchOriginal, UseContent, Goto, ReturnError
<1>4. CASE StatementFails(w) \/ CommitUnknown(w)
  BY <1>1, <1>4 DEF StatementFails, CommitUnknown, ReturnError
<1>5. CASE FetchAccount(w) \/ FetchService(w) \/ Publish(w)
  BY <1>1, <1>5 DEF FetchAccount, FetchService, Publish, Goto, ReturnError, Idle
<1>6. CASE \/ BRPop(w) \/ RecordResult(w) \/ Mark(w)
           \/ Commit(w) \/ Retry(w) \/ CommitMark(w)
           \/ RetryFails(w) \/ RetryDup(w) \/ MarkFails(w) \/ WorkerCrash(w)
  <2>1. CASE Idle(w)
    BY <1>1, <2>1 DEF Idle
  <2>2. CASE BRPop(w) \/ RecordResult(w) \/ Mark(w)
    BY <1>1, <2>1, <2>2 DEF BRPop, RecordResult, Mark
  <2> QED
    BY <1>6, <2>1, <2>2 DEF Commit, Retry, CommitMark, RetryFails, RetryDup, MarkFails, WorkerCrash
<1> QED
  BY <1>2, <1>3, <1>4, <1>5, <1>6 DEF WorkerStep, WorkerFault

LEMMA NextText == NoRearm /\ ClientInv /\ TextSeen /\ [SystemNext]_systemVars => TextSeen'
<1> SUFFICES ASSUME NoRearm, ClientInv, TextSeen, [SystemNext]_systemVars PROVE TextSeen'
  OBVIOUS
<1>0. TypeOK /\ WorkerShape
  BY DEF ClientInv, LifeInv
<1>1. ASSUME NEW w \in Workers, WorkerStep(w) \/ WorkerFault(w) PROVE TextSeen'
  <2>1. OthersRest(w)
    BY <1>0, <1>1, OthersStay
  <2> QED
    BY <1>0, <1>1, <2>1, OnlyTextGoesOn DEF TextSeen, OthersRest
<1>2. CASE UNCHANGED <<workerVars, versions>>
  BY <1>2 DEF TextSeen, workerVars
<1>3. CASE [Next]_vars
  <2>1. CASE SchedulerNext /\ UNCHANGED workerVars
    BY <1>2, <2>1
       DEF SchedulerNext, SchedulerStep, SchedulerFault, Scan, SkipClaim, Claim, Push, ClaimFails,
           ClaimUnknown, PushDup, PushFails, SchedulerCrash, storeVars
  <2>2. CASE StoreNext /\ UNCHANGED <<schedulerVars, workerVars>>
    BY <1>2, <2>2 DEF StoreNext, RedisRestart, ComesDue
  <2>3. CASE UNCHANGED vars
    BY <1>2, <2>3 DEF vars, storeVars
  <2> QED
    BY <1>1, <1>3, <2>1, <2>2, <2>3 DEF Next, WorkerNext
<1>4. ASSUME NEW gone \in SUBSET Accounts, Request(gone) PROVE TextSeen'
  <2> SUFFICES ASSUME NEW w \in Workers, pc[w] = "original"
               PROVE  versions'[job[w].post].own[job[w].account] = "none"
    BY <1>4 DEF TextSeen, Request, workerVars
  <2>1. job[w].post \in Posts /\ Started(job[w].post)
    BY BusyStarted DEF ClientInv
  <2>2. versions'[job[w].post] = versions[job[w].post]
    BY <1>4, <2>1 DEF Request, StartedKept
  <2> QED
    BY <2>2 DEF TextSeen
<1> QED
  BY <1>3, <1>4, SystemStep

(***************************************************************************)
(* A worker refuses a publication for want of content only if there is     *)
(* none, whatever fails: a version changes only while nobody reads it.     *)
(***************************************************************************)
THEOREM SystemRefusals == ASSUME NoRearm PROVE SystemSpec => RefusedOnlyWithoutText
<1> DEFINE Refused ==
      \A w \in Workers :
        /\ pc[w] \in {"text", "original"}
        /\ pc'[w] = "error" /\ err'[w] = "permanent"
        => ~HasBody(job[w].post, job[w].account)
<1>1. SystemInit => TextSeen
  BY DEF SystemInit, WorkerInit, TextSeen
<1>2. ClientInv /\ TextSeen /\ [SystemNext]_systemVars => TextSeen'
  BY NextText
<1>3. ClientInv /\ TextSeen /\ [SystemNext]_systemVars => [Refused]_systemVars
  <2> SUFFICES ASSUME ClientInv, TextSeen, [SystemNext]_systemVars,
                      NEW w \in Workers, pc[w] \in {"text", "original"},
                      pc'[w] = "error", err'[w] = "permanent"
               PROVE  ~HasBody(job[w].post, job[w].account)
    OBVIOUS
  <2>0. TypeOK /\ WorkerShape
    BY DEF ClientInv, LifeInv
  <2>1. pc'[w] # pc[w]
    OBVIOUS
  <2>2. ~\E gone \in SUBSET Accounts : Request(gone)
    BY <2>1 DEF Request, workerVars
  <2>3. PICK v \in Workers : WorkerStep(v) \/ WorkerFault(v)
    BY <2>1, <2>2, SystemStep DEF Next, WorkerNext, vars, workerVars
  <2>4. v = w
    BY <2>0, <2>1, <2>3, OthersStay DEF OthersRest
  <2>5. FetchText(w) \/ FetchOriginal(w)
    BY <2>0, <2>3, <2>4, OnlyTextGoesOn
  <2>6. CASE FetchText(w)
    BY <2>0, <2>6 DEF FetchText, UseContent, Goto, TypeOK, WorkerTypeOK, HasBody
  <2>7. CASE FetchOriginal(w)
    BY <2>0, <2>7 DEF FetchOriginal, UseContent, Goto, TypeOK, WorkerTypeOK, HasBody, TextSeen
  <2> QED
    BY <2>5, <2>6, <2>7
<1>4. ClientInv /\ TextSeen /\ [SystemNext]_systemVars => [Refused]_systemVars /\ TextSeen'
  BY <1>2, <1>3
<1> HIDE DEF Refused
<1>5. SystemSpec => [][Refused]_systemVars
  BY <1>1, <1>4, ClientInvariant, PTL DEF SystemSpec
<1> QED
  BY <1>5 DEF Refused, RefusedOnlyWithoutText
=============================================================================
