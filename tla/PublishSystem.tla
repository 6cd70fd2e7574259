--------------------------- MODULE PublishSystem ---------------------------
(***************************************************************************)
(* The pipeline with clients at the API: posts are created, changed and    *)
(* deleted, accounts linked, authorized and unlinked and services switched *)
(* while schedulers and workers are at work on the same rows.              *)
(***************************************************************************)
EXTENDS PublishPipeline, ManagementApi

systemVars == <<vars, apiVars>>

SystemTypeOK == TypeOK /\ ApiTypeOK

AbsentRow == [row |-> "absent", status |-> StatusDraft,
              sched |-> SchedulePending, at |-> "null"]

\* The database before any post was ever claimed.
SystemInit ==
  /\ accounts \in [Accounts -> {"absent", "live"}]
  /\ token = [a \in Accounts |-> 0]
  /\ checked = {}
  /\ edits = 0
  /\ posts \in [Posts -> RequestedRow \cup {AbsentRow}]
  /\ attached \in [Posts -> SUBSET LiveAccounts]
  /\ \A p \in Posts : posts[p].row = "absent" => attached[p] = {}
  /\ posted = [p \in Posts |-> {}]
  /\ errored = [p \in Posts |-> {}]
  /\ versions \in [Posts -> Versions]
  /\ authorized \in SUBSET LiveAccounts
  /\ services \in [Services -> {"missing", "inactive", "active"}]
  /\ queue = <<>>
  /\ sent = [p \in Posts |-> [a \in Accounts |-> 0]]
  /\ SchedulerInit
  /\ WorkerInit

SystemNext ==
  \/ Next /\ UNCHANGED apiVars
  \/ ApiNext /\ UNCHANGED schedulerVars

SystemSpec == SystemInit /\ [][SystemNext]_systemVars

-----------------------------------------------------------------------------
(***************************************************************************)
(* A row says posted only after the provider has accepted that post for    *)
(* that account, whoever replaced the rows in between.                     *)
(***************************************************************************)
PostedWasSent ==
  \A p \in Posts : \A a \in posted[p] : sent[p][a] > 0

(***************************************************************************)
(* Why it holds, whatever clients do.  Outcomes, rows and authorizations   *)
(* are about rows that exist, as the schema has it; what a worker is about *)
(* to commit concerns a row that exists, because requests wait for its     *)
(* lock or abort it; a post that does not exist has no rows; and a         *)
(* publication is recorded only after it was accepted.                     *)
(***************************************************************************)
RecordsExist ==
  /\ \A p \in Posts : /\ posted[p] \cup errored[p] \subseteq attached[p]
                      /\ attached[p] \subseteq LiveAccounts
  /\ authorized \subseteq LiveAccounts

WritesExist ==
  \A w \in Workers :
    pc[w] \in {"commit", "markcommit"} /\ tx[w].row # "none"
      => job[w].account \in attached[job[w].post]

AbsentIsBare ==
  \A p \in Posts : posts[p].row = "absent" => attached[p] = {}

WritesSent ==
  \A w \in Workers :
    /\ pc[w] \in {"record", "commit"} => sent[job[w].post][job[w].account] > 0
    /\ pc[w] = "markcommit" => tx[w].row # "posted"

SystemInv == /\ SystemTypeOK
             /\ WorkerShape
             /\ RecordsExist
             /\ AbsentIsBare
             /\ WritesExist
             /\ PostedWasSent
             /\ WritesSent

(***************************************************************************)
(* A post starts only when it is scheduled, due and not deleted, though    *)
(* the claim works from a list read earlier (README "Scheduler scans due   *)
(* posts where ... scheduled_at <= NOW()").                                *)
(***************************************************************************)
OnlyDueStart ==
  [][\A p \in Posts :
       posts[p].sched = SchedulePending /\ posts'[p].sched # SchedulePending
         => posts[p].at = "due"]_systemVars

(***************************************************************************)
(* The claim never takes a post that a client has deleted or turned back   *)
(* into a draft since the scan listed it.                                  *)
(***************************************************************************)
WithdrawnStaysBack ==
  \A p \in Posts :
    /\ posts[p].sched = SchedulePending
    /\ posts[p].row # "live" \/ posts[p].status = StatusDraft
    => posts'[p].sched # ScheduleRunning

WithdrawnNeverStarts == [][WithdrawnStaysBack]_systemVars

(***************************************************************************)
(* A post becomes published only when every account it has was posted to,  *)
(* and there is at least one.                                              *)
(***************************************************************************)
PublishedMeansPosted ==
  [][\A p \in Posts :
       posts[p].status # StatusPublished /\ posts'[p].status = StatusPublished
         => posted'[p] # {} /\ attached'[p] \subseteq posted'[p]]_systemVars

(***************************************************************************)
(* A worker refuses a publication for want of content only if the rows of  *)
(* post_versions, as they are, have none for the account: neither one of   *)
(* its own nor, for lack of that, an original one.                         *)
(***************************************************************************)
HasBody(p, a) ==
  LET own == versions[p].own[a]
  IN  \/ own = "body"
      \/ own = "none" /\ versions[p].original = "body"

RefusedOnlyWithoutText ==
  [][\A w \in Workers :
       /\ pc[w] \in {"text", "original"}
       /\ pc'[w] = "error" /\ err'[w] = "permanent"
       => ~HasBody(job[w].post, job[w].account)]_systemVars

(***************************************************************************)
(* A due post ends published or failed unless a client withdraws it.       *)
(***************************************************************************)
EventuallyFinalOrWithdrawn ==
  \A p \in Posts :
    IsDue(posts[p]) ~>
      \/ posts[p].status \in {StatusPublished, StatusFailed, StatusDraft}
      \/ posts[p].row = "deleted"
      \/ posts[p].sched = SchedulePending /\ posts[p].at # "due"
=============================================================================
