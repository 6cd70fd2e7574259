-------------------------- MODULE PublishContract --------------------------
(***************************************************************************)
(* What scheduling and publishing promise about a post, without processes, *)
(* queue, transactions or failures: a post waits, runs once it is claimed, *)
(* settles each of its target accounts at most once, and ends published or *)
(* failed by what became of all of them.  The README states this contract  *)
(* under "Current scheduler/worker behavior".                              *)
(***************************************************************************)
EXTENDS FiniteSets

CONSTANTS Posts, Accounts

VARIABLES
  targets,  \* targets[p]: the accounts post p is to be published to
  phase,    \* phase[p]: "waiting", "running", "published" or "failed"
  outcome   \* outcome[p][a]: "pending", "posted" or "errored"

vars == <<targets, phase, outcome>>

Init ==
  /\ targets \in [Posts -> SUBSET Accounts]
  /\ phase = [p \in Posts |-> "waiting"]
  /\ outcome = [p \in Posts |-> [a \in Accounts |-> "pending"]]

\* Post p starts running; one without targets has failed at once.
Start(p) ==
  /\ phase[p] = "waiting"
  /\ phase' = [phase EXCEPT ![p] = IF targets[p] = {} THEN "failed" ELSE "running"]
  /\ UNCHANGED <<targets, outcome>>

Settled(p, results) == \A a \in targets[p] : results[a] # "pending"

\* The final phase that results, one per target account, entail.
FinalPhase(p, results) ==
  IF \E a \in targets[p] : results[a] = "errored" THEN "failed" ELSE "published"

(***************************************************************************)
(* Account a of post p gets its one outcome.  If it was the last one the   *)
(* post may take its final phase with it, and takes no other.              *)
(***************************************************************************)
Settle(p, a, result) ==
  /\ phase[p] = "running"
  /\ a \in targets[p]
  /\ outcome[p][a] = "pending"
  /\ outcome' = [outcome EXCEPT ![p][a] = result]
  /\ \/ UNCHANGED phase
     \/ /\ Settled(p, outcome'[p])
        /\ phase' = [phase EXCEPT ![p] = FinalPhase(p, outcome'[p])]
  /\ UNCHANGED targets

Next ==
  \E p \in Posts :
    \/ Start(p)
    \/ \E a \in Accounts, result \in {"posted", "errored"} : Settle(p, a, result)

Spec == Init /\ [][Next]_vars
=============================================================================
