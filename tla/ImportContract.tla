--------------------------- MODULE ImportContract ---------------------------
(***************************************************************************)
(* What an import of Facebook pages promises about the accounts, without   *)
(* requests, locks or statements: the pages Facebook has listed become     *)
(* accounts all at once, each with the page token of that listing, or the  *)
(* import comes to nothing.  Between imports accounts are unlinked.        *)
(***************************************************************************)
CONSTANTS Pages, Requests, Imports

VARIABLES
  account,  \* account[g]: 0, or the number of the import whose token g has
  offer     \* offer[r]: the pages request r is about to import, as a number

vars == <<account, offer>>

NoOffer == [number |-> 0, pages |-> {}]

Init ==
  /\ account = [g \in Pages |-> 0]
  /\ offer = [r \in Requests |-> NoOffer]

\* Request r has the whole list of pages.
Listed(r) ==
  /\ offer[r] = NoOffer
  /\ \E n \in Imports, pages \in SUBSET Pages :
       offer' = [offer EXCEPT ![r] = [number |-> n, pages |-> pages]]
  /\ UNCHANGED account

\* All of them become accounts.
Import(r) ==
  /\ offer[r] # NoOffer
  /\ account' = [g \in Pages |-> IF g \in offer[r].pages THEN offer[r].number
                                 ELSE account[g]]
  /\ offer' = [offer EXCEPT ![r] = NoOffer]

\* The import fails and leaves nothing behind.
Drop(r) ==
  /\ offer' = [offer EXCEPT ![r] = NoOffer]
  /\ UNCHANGED account

Unlink(g) ==
  /\ account' = [account EXCEPT ![g] = 0]
  /\ UNCHANGED offer

Next ==
  \/ \E r \in Requests : Listed(r) \/ Import(r) \/ Drop(r)
  \/ \E g \in Pages : Unlink(g)

Spec == Init /\ [][Next]_vars
=============================================================================
