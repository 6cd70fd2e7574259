-------------------------- MODULE MCAccountTokens --------------------------
(***************************************************************************)
(* Small instances of AccountTokens.                                       *)
(***************************************************************************)
EXTENDS MCPublishSystem, AccountTokens

\* One post is due from the start, the others are in any state.
MCLiveInit ==
  /\ MCSystemInit
  /\ IsDue(posts[CHOOSE p \in Posts : TRUE])
  /\ TokenInit

MCTokenFairSpec == MCLiveInit /\ [][TokenNext]_tokenVars /\ TokenFairness
=============================================================================
