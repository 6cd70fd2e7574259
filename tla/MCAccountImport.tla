-------------------------- MODULE MCAccountImport --------------------------
(***************************************************************************)
(* A small instance of AccountImport.  Some of its behaviours begin with   *)
(* an empty database, others with users who have logged in, or who have    *)
(* issued a token, configured the service, perhaps started an              *)
(* authorization and logged out, so that few requests are enough to see    *)
(* imports meet.                                                           *)
(***************************************************************************)
EXTENDS AccountImport, TLC

\* Refused, granted, and too many: the life of the last wraps around.
MCDays == {-4, 1, 4}

\* One that obeys the rules of every service, and one that only a service
\* may have that is switched off and not Facebook's: no keys, and a version
\* that is not vNN.N.
MCConfigurations ==
  {[keys |-> TRUE, version |-> "absent", redirect |-> TRUE],
   [keys |-> FALSE, version |-> "bad", redirect |-> TRUE]}

Facebook == [name |-> "facebook", active |-> TRUE,
             config |-> [keys |-> TRUE, version |-> "absent", redirect |-> TRUE]]

AllAre(S, what) == [c \in S |-> what]

SetUp ==
  /\ users = Users
  /\ \/ /\ credential = AllAre(Sessions, "live") @@ AllAre(Tokens, "unissued")
        /\ row = AllAre(ServiceIds, NoRow)
        /\ state = AllAre(States, "unissued")
     \/ /\ credential = AllAre(Sessions, "deleted") @@ AllAre(Tokens, "live")
        /\ row = [AllAre(ServiceIds, NoRow) EXCEPT ![1] = Facebook]
        /\ state \in [States -> {"unissued", "open"}]
  /\ owner \in [Credentials -> Users \cup {Nobody}]
  /\ \A c \in Credentials : owner[c] = Nobody <=> credential[c] = "unissued"
  /\ granted = [t \in Tokens |-> [days |-> 0, life |-> 0]]
  /\ arrivals = 0
  /\ request = [r \in Requests |-> NoRequest]
  /\ redeemed = [s \in States |-> 0]
  /\ account = [g \in Pages |-> 0]
  /\ work = [r \in Requests |-> NoWork]

MCSpec == (Init \/ SetUp) /\ [][Next]_vars /\ Fairness

=============================================================================
