--------------------------- MODULE AccountTokens ---------------------------
(***************************************************************************)
(* PublishSystem with the access tokens in sight: which token a worker     *)
(* publishes with and which tokens the connectors have refused.  A worker  *)
(* reads the token once, at the start of a job, and a client may store a   *)
(* new one before the worker records what became of the old.               *)
(***************************************************************************)
EXTENDS PublishSystem

VARIABLES
  held,    \* held[w]: the token of the account that worker w has read
  refused  \* the <<account, token>> pairs that workers found bad (history)

tokenVars == <<systemVars, held, refused>>

TokenInit ==
  /\ SystemInit
  /\ held = [w \in Workers |-> 0]
  /\ refused = {}

\* fetchAccountForPostTx reads access_token with the rest of the account.
HeldAfter ==
  [w \in Workers |->
     IF pc'[w] = "idle" THEN 0
     ELSE IF pc[w] = "fetch" THEN token[job[w].account]
     ELSE held[w]]

\* The tokens found bad in this step: refused by the connector they were sent
\* to, or read with authorized = FALSE.
FoundBad ==
  {<<job[w].account, IF pc[w] = "fetch" THEN token[job[w].account] ELSE held[w]>> :
     w \in {v \in Workers : pc[v] \in {"fetch", "publish"} /\ err'[v] = "unauthorized"}}

TokenStep == held' = HeldAfter /\ refused' = refused \cup FoundBad

TokenNext == SystemNext /\ TokenStep

TokenSpec == TokenInit /\ [][TokenNext]_tokenVars

\* The processes keep running; clients owe nothing.
TokenFairness ==
  /\ \A s \in Schedulers :
       WF_tokenVars(SchedulerStep(s) /\ UNCHANGED <<workerVars, apiVars>> /\ TokenStep)
  /\ \A w \in Workers :
       WF_tokenVars(WorkerStep(w) /\ UNCHANGED <<schedulerVars, apiVars>> /\ TokenStep)

-----------------------------------------------------------------------------
(***************************************************************************)
(* A worker takes the authorization of an account only if it has itself    *)
(* found the token bad that it read for its job.  That may be an older     *)
(* token than the account has by now: nothing in the code compares them.   *)
(***************************************************************************)
DeauthorizedForCause ==
  [][\A a \in authorized \ authorized' :
       accounts'[a] = "live" /\ token'[a] = token[a]
         => \E w \in Workers : /\ job[w] # NoJob /\ job'[w] = NoJob
                               /\ job[w].account = a
                               /\ <<a, held[w]>> \in refused]_tokenVars

(***************************************************************************)
(* An account does not stay authorized with a token that was refused:      *)
(* unless it gets another, the worker that met the refusal takes its flag  *)
(* (README: the worker marks an account unauthorized when the connector    *)
(* returns unauthorized).                                                  *)
(***************************************************************************)
EventuallyDeauthorized ==
  \A a \in Accounts :
    a \in authorized /\ <<a, token[a]>> \in refused
      ~> a \notin authorized \/ <<a, token[a]>> \notin refused
=============================================================================
