--------------------------- MODULE ManagementApi ---------------------------
(***************************************************************************)
(* The part of the HTTP API that writes the tables the pipeline works on:  *)
(* posts_handlers.go, accounts_handlers.go, services_handlers.go and the   *)
(* last transaction of an import in facebook_handlers.go.  A               *)
(* request is one transaction or one statement; requests that are refused  *)
(* (400, 404, 409, 422) or fail (500) change nothing and have no action.   *)
(*                                                                         *)
(* Row locks order the requests and the workers.  A worker that has        *)
(* written a row of post_accounts holds it until it commits, so a request  *)
(* that deletes the row waits.  The lock of a post needs no guard: the     *)
(* worker's UPDATE posts and COMMIT are one step here, and one that has    *)
(* done the first but not the second looks like one that has done neither. *)
(***************************************************************************)
EXTENDS Worker

CONSTANTS
  Pages,     \* the accounts whose provider is facebook_page
  Requests,  \* the kinds of request the clients send
  Texts,     \* what the versions of a request may offer
  MaxEdits   \* bound: how many requests change something

(***************************************************************************)
(* "create", "update", "delete": of posts; "rearm": an update of a post    *)
(* that is running or finished; "account": create or update an account;    *)
(* "unlink": delete an account; "service": create, update, delete one;      *)
(* "import": an import of Facebook pages (AccountImport has its steps).     *)
(***************************************************************************)
RequestKinds == {"create", "update", "rearm", "delete", "account", "unlink", "service",
                 "import"}

ASSUME ManagementAssumption ==
  /\ Pages \subseteq Accounts
  /\ Requests \subseteq RequestKinds
  /\ Texts \subseteq Versions
  /\ MaxEdits \in Nat

VARIABLES
  accounts,  \* accounts[a]: whether the row with id a exists; ids are not reused
  token,     \* token[a]: which access_token a has, numbered as they are stored
  checked,   \* accounts with a request past ensureProviderServiceReady
  edits      \* number of requests that have changed something

apiVars == <<accounts, token, checked, edits>>

ApiTypeOK ==
  /\ accounts \in [Accounts -> {"absent", "live", "deleted"}]
  /\ token \in [Accounts -> 0..MaxEdits]
  /\ checked \subseteq Accounts
  /\ edits \in 0..MaxEdits

LiveAccounts == {a \in Accounts : accounts[a] = "live"}

Edit(kind) ==
  /\ kind \in Requests
  /\ edits < MaxEdits
  /\ edits' = edits + 1

\* The columns clients send: drafts, or posts to be scheduled.  The handlers
\* take any numbers; these are the ones with a meaning to a client.
RequestedRow ==
  {post \in PostRow : /\ post.row = "live"
                      /\ post.status \in {StatusDraft, StatusScheduled}
                      /\ post.sched = SchedulePending}

(***************************************************************************)
(* replacePostAccountsTx and replacePostVersionsTx: the rows of p are      *)
(* deleted and inserted anew, without outcome.  An account that does not   *)
(* exist fails the foreign key and with it the request.                    *)
(***************************************************************************)
ReplaceRows(p) ==
  /\ \E ids \in SUBSET LiveAccounts : attached' = [attached EXCEPT ![p] = ids]
  /\ \E rows \in Texts : versions' = [versions EXCEPT ![p] = rows]
  /\ posted' = [posted EXCEPT ![p] = {}]
  /\ errored' = [errored EXCEPT ![p] = {}]


WritePost(p) ==
  /\ \E post \in RequestedRow : posts' = [posts EXCEPT ![p] = post]
  /\ ReplaceRows(p)
  /\ UNCHANGED <<authorized, services, queue, sent, accounts, token, checked>>

CreatePost(p) ==
  /\ Edit("create")
  /\ posts[p].row = "absent"
  /\ WritePost(p)
  /\ UNCHANGED workerVars

\* The kind of an update of post p.
UpdateKind(p) == IF posts[p].sched = SchedulePending THEN "update" ELSE "rearm"

MayUpdate(p) == Edit(UpdateKind(p)) /\ posts[p].row = "live"

UpdatePost(p) ==
  /\ MayUpdate(p)
  /\ \A a \in attached[p] : ~RowLocked(p, a)
  /\ WritePost(p)
  /\ UNCHANGED workerVars

(***************************************************************************)
(* The handler locks the post and then its rows; a worker that finalizes   *)
(* locks its row and then the post.  If they meet Postgres aborts one of   *)
(* them: here the worker, whose statement returns an error.                *)
(***************************************************************************)
UpdatePostDeadlock(w, p) ==
  /\ MayUpdate(p)
  /\ pc[w] \in {"commit", "markcommit"}
  /\ job[w].post = p /\ tx[w].row # "none" /\ tx[w].verdict # "none"
  /\ \A v \in Workers \ {w} : job[v] # NoJob /\ job[v].post = p => tx[v].row = "none"
  /\ IF pc[w] = "commit" THEN ReturnError(w, "transient") ELSE Idle(w)
  /\ WritePost(p)

(***************************************************************************)
(* The UPDATE of a worker starts while the handler has deleted the row but *)
(* not committed: it waits, then finds no row, though the account has a    *)
(* new one.  A worker with a publication to record returns nil; one with   *)
(* an error goes on and counts the new rows.                               *)
(***************************************************************************)
UpdatePostUnderWorker(w, p) ==
  /\ MayUpdate(p)
  /\ \A a \in attached[p] : ~RowLocked(p, a)
  /\ job[w] # NoJob /\ job[w].post = p /\ job[w].account \in attached[p]
  /\ WritePost(p)
  /\ \/ pc[w] = "record" /\ Idle(w)
     \/ /\ pc[w] = "error" /\ ~MayRetry(w)
        /\ err[w] = "unauthorized" => ~AccountLocked(job[w].account)
        /\ pc' = [pc EXCEPT ![w] = "markcommit"]
        /\ tx' = [tx EXCEPT ![w] =
             [row |-> "none", verdict |-> Verdict(attached'[p], {}, {})]]
        /\ UNCHANGED <<job, err>>

\* Soft delete: the rows, the jobs and schedule_status stay.
DeletePost(p) ==
  /\ Edit("delete")
  /\ posts[p].row = "live"
  /\ posts' = [posts EXCEPT ![p].row = "deleted"]
  /\ UNCHANGED <<rowVars, versions, authorized, services, queue, sent,
                 accounts, token, checked, workerVars>>

\* ensureProviderServiceReady, a statement of its own before the write.
ServiceReady(a) ==
  ServiceOf[a] \in Required => services[ServiceOf[a]] = "active"

CheckService(a) ==
  /\ "account" \in Requests /\ edits < MaxEdits
  /\ a \notin checked /\ accounts[a] # "deleted"
  /\ ServiceReady(a)
  /\ checked' = checked \cup {a}
  /\ UNCHANGED <<storeVars, accounts, token, edits, workerVars>>

\* The INSERT or UPDATE of a request that passed the check.
WriteAccount(a) ==
  /\ Edit("account")
  /\ a \in checked
  /\ ~AccountLocked(a)
  /\ checked' = checked \ {a}
  /\ accounts' = [accounts EXCEPT ![a] = "live"]
  /\ token' = [token EXCEPT ![a] = edits']
  /\ authorized' \in {authorized \cup {a}, authorized \ {a}}
  /\ UNCHANGED <<posts, rowVars, versions, services, queue, sent, workerVars>>

(***************************************************************************)
(* importFacebookPagesTx and its COMMIT: every page becomes a live,        *)
(* authorized account, whatever became of the service since the handler    *)
(* has looked at it.  A page whose account was deleted gets a new id.      *)
(***************************************************************************)
ImportPages(pages) ==
  /\ Edit("import")
  /\ \A a \in pages : accounts[a] # "deleted" /\ ~AccountLocked(a)
  /\ accounts' = [a \in Accounts |-> IF a \in pages THEN "live" ELSE accounts[a]]
  /\ token' = [a \in Accounts |-> IF a \in pages THEN edits' ELSE token[a]]
  /\ authorized' = authorized \cup pages
  /\ UNCHANGED <<posts, rowVars, versions, services, queue, sent, checked, workerVars>>

\* DELETE of an account takes its rows of post_accounts with it (CASCADE);
\* versions stay, and so do the jobs of the account.
DeleteAccount(a) ==
  /\ Edit("unlink")
  /\ accounts[a] = "live"
  /\ ~AccountLocked(a)
  /\ \A p \in Posts : ~RowLocked(p, a)
  /\ accounts' = [accounts EXCEPT ![a] = "deleted"]
  /\ authorized' = authorized \ {a}
  /\ attached' = [p \in Posts |-> attached[p] \ {a}]
  /\ posted' = [p \in Posts |-> posted[p] \ {a}]
  /\ errored' = [p \in Posts |-> errored[p] \ {a}]
  /\ checked' = checked \ {a}
  /\ UNCHANGED <<posts, versions, services, queue, sent, token, workerVars>>

WriteService(s) ==
  /\ Edit("service")
  /\ \E state \in {"missing", "inactive", "active"} \ {services[s]} :
       services' = [services EXCEPT ![s] = state]
  /\ UNCHANGED <<posts, rowVars, versions, authorized, queue, sent,
                 accounts, token, checked, workerVars>>

ApiNext ==
  \/ \E p \in Posts : CreatePost(p) \/ UpdatePost(p) \/ DeletePost(p)
  \/ \E p \in Posts, w \in Workers :
       UpdatePostDeadlock(w, p) \/ UpdatePostUnderWorker(w, p)
  \/ \E a \in Accounts : CheckService(a) \/ WriteAccount(a) \/ DeleteAccount(a)
  \/ \E pages \in (SUBSET Pages) \ {{}} : ImportPages(pages)
  \/ \E s \in Services : WriteService(s)
=============================================================================
