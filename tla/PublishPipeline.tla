-------------------------- MODULE PublishPipeline --------------------------
(***************************************************************************)
(* Schedulers and workers around the shared store: the life of the posts   *)
(* that exist when the processes start, from "scheduled" to "published" or *)
(* "failed", with nobody editing them meanwhile.                           *)
(***************************************************************************)
EXTENDS Scheduler, Worker

vars == <<storeVars, schedulerVars, workerVars>>

TypeOK == StoreTypeOK /\ SchedulerTypeOK /\ WorkerTypeOK

\* Posts as the API creates them: drafts, or scheduled and pending.
NewPostRow ==
  {post \in PostRow : /\ post.row = "live"
                      /\ post.status \in {StatusDraft, StatusScheduled}
                      /\ post.sched = SchedulePending}

Init ==
  /\ posts \in [Posts -> NewPostRow]
  /\ attached \in [Posts -> SUBSET Accounts]
  /\ posted = [p \in Posts |-> {}]
  /\ errored = [p \in Posts |-> {}]
  /\ versions \in [Posts -> Versions]
  /\ authorized \in SUBSET Accounts
  /\ services \in [Services -> {"missing", "inactive", "active"}]
  /\ queue = <<>>
  /\ sent = [p \in Posts |-> [a \in Accounts |-> 0]]
  /\ SchedulerInit
  /\ WorkerInit

SchedulerNext == \E s \in Schedulers : SchedulerStep(s) \/ SchedulerFault(s)

WorkerNext == \E w \in Workers : WorkerStep(w) \/ WorkerFault(w)

StoreNext == RedisRestart \/ \E p \in Posts : ComesDue(p)

Next ==
  \/ SchedulerNext /\ UNCHANGED workerVars
  \/ WorkerNext /\ UNCHANGED schedulerVars
  \/ StoreNext /\ UNCHANGED <<schedulerVars, workerVars>>

Spec == Init /\ [][Next]_vars

(***************************************************************************)
(* Every process keeps taking its steps: the scheduler's ticker fires, and *)
(* the loops never wait for anything but the queue and row locks.          *)
(***************************************************************************)
Fairness ==
  /\ \A s \in Schedulers : WF_vars(SchedulerStep(s) /\ UNCHANGED workerVars)
  /\ \A w \in Workers : WF_vars(WorkerStep(w) /\ UNCHANGED schedulerVars)

FairSpec == Spec /\ Fairness

-----------------------------------------------------------------------------
Pairs == Posts \X Accounts

JobPair(j) == <<j.post, j.account>>

(***************************************************************************)
(* Who has the job of publishing post pair[1] to account pair[2]: a place  *)
(* in the queue, a worker, or a scheduler that has yet to push it.         *)
(***************************************************************************)
Holders(pair) ==
  {<<"queue", i>> : i \in {k \in DOMAIN queue : JobPair(queue[k]) = pair}}
  \cup {<<"worker", w>> : w \in {v \in Workers : job[v] # NoJob /\ JobPair(job[v]) = pair}}
  \cup {<<"scheduler", s>> : s \in {t \in Schedulers : pair \in left[t]}}

\* The row of pair has no outcome yet, and its post is running.
Open(pair) ==
  /\ posts[pair[1]].sched = ScheduleRunning
  /\ pair[2] \in attached[pair[1]] \ (posted[pair[1]] \cup errored[pair[1]])

(***************************************************************************)
(* One job per post_accounts row: however many schedulers and workers run  *)
(* and whatever is lost, a row's job is in one place at most, and nowhere  *)
(* once the row has its outcome.  Guards the claim (two schedulers with    *)
(* the same post in their scans) and the hand-over of a job from scheduler *)
(* to queue to worker and back.                                            *)
(***************************************************************************)
OneJobPerAccount ==
  \A pair \in Pairs :
    /\ \A x, y \in Holders(pair) : x = y
    /\ Holders(pair) # {} => Open(pair)

StatusRight(p) ==
  /\ posts[p].status = StatusPublished =>
       /\ attached[p] # {}
       /\ attached[p] \subseteq posted[p]
       /\ errored[p] = {}
  /\ posts[p].status = StatusFailed =>
       /\ attached[p] \subseteq posted[p] \cup errored[p]
       /\ attached[p] = {} \/ errored[p] # {}
  /\ posts[p].status \in {StatusPublished, StatusFailed}
       <=> posts[p].sched = ScheduleComplete

(***************************************************************************)
(* A finalized post has the status its rows call for: published when every *)
(* row has a provider_post_id and none has errors, failed when every row   *)
(* is settled and one has errors, or when there is no row.  The count is   *)
(* taken before the commit, on rows other workers are changing.            *)
(***************************************************************************)
FinalStatusCorrect == \A p \in Posts : StatusRight(p)

(***************************************************************************)
(* A row that says posted was really accepted by the provider, and no row  *)
(* ever costs the reader more than one publication per attempt.            *)
(***************************************************************************)
DeliveryBounded ==
  \A p \in Posts, a \in Accounts :
    /\ a \in posted[p] => sent[p][a] > 0
    /\ sent[p][a] <= MaxAttempts

(***************************************************************************)
(* A running post whose rows all have an outcome does not exist: the       *)
(* worker that commits the last outcome finalizes the post in the same     *)
(* transaction.                                                            *)
(***************************************************************************)
SettledIsFinal ==
  \A p \in Posts :
    posts[p].sched = ScheduleRunning =>
      attached[p] \ (posted[p] \cup errored[p]) # {}

(***************************************************************************)
(* A running post is never stranded: each of its rows without an outcome   *)
(* still has a job somewhere.  The scheduler does not look at running      *)
(* posts again, so a lost job is lost for good.                            *)
(***************************************************************************)
RunningHasJobs ==
  \A pair \in Pairs : Open(pair) => Holders(pair) # {}

(***************************************************************************)
(* A retry never posts again what the provider has already accepted.       *)
(***************************************************************************)
NeverDoublePost ==
  \A p \in Posts, a \in Accounts : sent[p][a] <= 1

(***************************************************************************)
(* Each account of a post that is due gets its outcome, whether or not the *)
(* post is finalized after that.                                           *)
(***************************************************************************)
EventuallySettled ==
  \A p \in Posts :
    IsDue(posts[p]) ~> attached[p] \subseteq posted[p] \cup errored[p]

(***************************************************************************)
(* Why FinalStatusCorrect and OneJobPerAccount hold while no job is        *)
(* duplicated and no commit is in doubt.                                   *)
(***************************************************************************)

\* A worker holds a job exactly from BRPOP to the end of the loop body, and
\* has written something exactly when it is about to commit.
WorkerShape ==
  \A w \in Workers :
    /\ pc[w] = "idle" <=> job[w] = NoJob
    /\ pc[w] \notin {"commit", "markcommit"} => tx[w] = NoWrites
    /\ pc[w] = "commit" => tx[w].row = "posted"

Busy == {w \in Workers : pc[w] # "idle"}

\* No two holders have the job of the same pair.
JobsApart ==
  /\ \A i, j \in 1..Len(queue) : JobPair(queue[i]) = JobPair(queue[j]) => i = j
  /\ \A v, w \in Busy : JobPair(job[v]) = JobPair(job[w]) => v = w
  /\ \A s, t \in Schedulers : \A pair \in left[s] : pair \in left[t] => s = t
  /\ \A i \in 1..Len(queue), w \in Busy : JobPair(queue[i]) # JobPair(job[w])
  /\ \A i \in 1..Len(queue), s \in Schedulers : JobPair(queue[i]) \notin left[s]
  /\ \A w \in Busy, s \in Schedulers : JobPair(job[w]) \notin left[s]

\* A job exists only for a row that still needs one.
JobsOpen ==
  /\ \A i \in 1..Len(queue) : Open(JobPair(queue[i]))
  /\ \A w \in Busy : Open(JobPair(job[w]))
  /\ \A s \in Schedulers : \A pair \in left[s] : Open(pair)

\* Outcomes belong to rows that exist, one per row, none before the claim.
RowsRight ==
  \A p \in Posts :
    /\ posted[p] \cup errored[p] \subseteq attached[p]
    /\ posted[p] \cap errored[p] = {}
    /\ posts[p].sched = SchedulePending => posted[p] = {} /\ errored[p] = {}

\* The verdict a worker has written agrees with the rows as they will be
\* when it commits: all the others are settled already, for good.
WriteRight(w) ==
  LET p == job[w].post
      a == job[w].account
  IN  pc[w] \in {"commit", "markcommit"} =>
        /\ tx[w].row # "none"
        /\ tx[w].verdict # "none" => attached[p] \ {a} \subseteq posted[p] \cup errored[p]
        /\ tx[w].verdict = "published" => tx[w].row = "posted" /\ errored[p] = {}
        /\ tx[w].verdict = "failed" => tx[w].row = "errored" \/ errored[p] # {}

VerdictsRight == \A w \in Workers : WriteRight(w)

Inv == /\ TypeOK
       /\ WorkerShape
       /\ JobsApart
       /\ JobsOpen
       /\ RowsRight
       /\ VerdictsRight
       /\ FinalStatusCorrect

(***************************************************************************)
(* The pipeline implements the contract: phase and outcome are read off    *)
(* the committed rows.                                                     *)
(***************************************************************************)
PhaseOf(post) ==
  IF post.sched = SchedulePending THEN "waiting"
  ELSE IF post.sched = ScheduleRunning THEN "running"
  ELSE IF post.status = StatusPublished THEN "published"
  ELSE "failed"

OutcomeOf(p, a) ==
  IF a \in errored[p] THEN "errored"
  ELSE IF a \in posted[p] THEN "posted"
  ELSE "pending"

phaseBar   == [p \in Posts |-> PhaseOf(posts[p])]
outcomeBar == [p \in Posts |-> [a \in Accounts |-> OutcomeOf(p, a)]]

Contract == INSTANCE PublishContract
              WITH targets <- attached, phase <- phaseBar, outcome <- outcomeBar

ImplementsContract == Contract!Spec
=============================================================================
