-------------------------- MODULE MCPublishSystem --------------------------
(***************************************************************************)
(* Small instances of PublishSystem.                                       *)
(***************************************************************************)
EXTENDS PublishSystem, TLC

CONSTANTS a1, a2, facebook

MCServiceOf == [a \in Accounts |-> IF a = a1 THEN facebook ELSE NoService]

\* One original version for all; one of its own for a1 only; a blank one for
\* a1 and an original for the others.
MCOriginal == [own |-> [a \in Accounts |-> "none"], original |-> "body"]
MCOwn == [own |-> [a \in Accounts |-> IF a = a1 THEN "body" ELSE "none"],
          original |-> "none"]
MCBlank == [MCOriginal EXCEPT !.own[a1] = "blank"]

(***************************************************************************)
(* A live post about to be scheduled with both accounts, or one still to   *)
(* be created; texts and authorizations in order unless a client changes   *)
(* them.                                                                   *)
(***************************************************************************)
MCSystemInit ==
  /\ accounts = [a \in Accounts |-> "live"]
  /\ token = [a \in Accounts |-> 0]
  /\ checked = {}
  /\ edits = 0
  /\ posts \in [Posts -> {post \in RequestedRow : post.at # "null"} \cup {AbsentRow}]
  /\ attached = [p \in Posts |-> IF posts[p].row = "live" THEN Accounts ELSE {}]
  /\ versions = [p \in Posts |-> MCOriginal]
  /\ authorized = Accounts
  /\ services = [s \in Services |-> "active"]
  /\ SystemInit

MCSystemSpec == MCSystemInit /\ [][SystemNext]_systemVars

MCTexts == {MCOriginal}
MCTextsOrNone == {MCOriginal, MCOwn, MCBlank}

Symmetry == Permutations(Workers) \cup Permutations(Schedulers)
=============================================================================
