------------------------- MODULE MCPublishPipeline -------------------------
(***************************************************************************)
(* Small instances of PublishPipeline.  MCInit starts the posts due or     *)
(* about to be, and narrows the tables to the rows that matter to a run.   *)
(***************************************************************************)
EXTENDS PublishPipeline, TLC

CONSTANTS a1, a2, facebook,
  Lossless   \* TRUE: accounts, services and texts are all in order

MCServiceOf == [a \in Accounts |-> IF a = a1 THEN facebook ELSE NoService]

\* One original version for all; one of its own for a1 besides; a1 has none.
MCOriginal == [own |-> [a \in Accounts |-> "none"], original |-> "body"]
MCOwn == [MCOriginal EXCEPT !.own[a1] = "body"]
MCNone == [own |-> [a \in Accounts |-> IF a = a1 THEN "none" ELSE "body"],
           original |-> "none"]

\* Posts that matter start scheduled; one of them may not be due yet.
MCInit ==
  /\ posts \in [Posts -> {post \in NewPostRow :
                            post.status = StatusScheduled /\ post.at # "null"}]
  /\ Cardinality({p \in Posts : posts[p].at = "future"}) <= 1
  /\ attached \in [Posts -> SUBSET Accounts]
  /\ Cardinality({p \in Posts : attached[p] # Accounts}) <= 1
  /\ versions \in [Posts -> {MCOriginal, MCOwn, MCNone}]
  /\ authorized \in {Accounts, Accounts \ {a2}}
  /\ services \in [Services -> {"missing", "inactive", "active"}]
  /\ Lossless => /\ \A p \in Posts : versions[p] = MCOriginal
                 /\ authorized = Accounts
                 /\ \A s \in Services : services[s] = "active"
  /\ Init

MCSpec == MCInit /\ [][Next]_vars
MCFairSpec == MCSpec /\ Fairness

(***************************************************************************)
(* Bounds for the runs that duplicate jobs: how many jobs are queued and   *)
(* how often a pair is published.                                          *)
(***************************************************************************)
CONSTANT MaxQueue, MaxSent
MCBound ==
  /\ Len(queue) <= MaxQueue
  /\ \A p \in Posts, a \in Accounts : sent[p][a] <= MaxSent

Symmetry == Permutations(Workers) \cup Permutations(Schedulers)
=============================================================================
