------------------------ MODULE AccountTokensProofs ------------------------
(***************************************************************************)
(* What AccountTokens says of the authorized flag, for any number of       *)
(* workers and accounts, every kind of request and every failure.          *)
(***************************************************************************)
EXTENDS AccountTokens, PublishSystemProofs

USE ManagementAssumption

\* Tokens are numbered as they are stored: none is from the future.
TokensStored == \A a \in Accounts : token[a] <= edits

\* A worker that is to report an unauthorized account has found the token
\* that it read, and still holds, to be bad.
RefusalsKnown ==
  \A w \in Workers :
    pc[w] \in {"error", "markcommit"} /\ err[w] = "unauthorized"
      => <<job[w].account, held[w]>> \in refused

TokenInv == SystemInv /\ TokensStored /\ RefusalsKnown

LEMMA InitTokens == TokenInit => TokenInv
<1> SUFFICES ASSUME TokenInit PROVE TokenInv
  OBVIOUS
<1>1. SystemInv
  BY InitSystem DEF TokenInit
<1>2. TokensStored
  BY DEF TokenInit, SystemInit, TokensStored
<1>3. RefusalsKnown
  BY DEF TokenInit, SystemInit, WorkerInit, RefusalsKnown
<1> QED
  BY <1>1, <1>2, <1>3 DEF TokenInv

-----------------------------------------------------------------------------
(***************************************************************************)
(* Where tokens and the authorized flag change.                            *)
(***************************************************************************)
LEMMA WrittenToken ==
  ASSUME SystemInv, ApiNext
  PROVE  /\ edits' >= edits
         /\ \A a \in Accounts :
              \/ token'[a] = token[a]
              \/ token'[a] = edits' /\ edits' > edits
         /\ \A a \in authorized \ authorized' :
              accounts'[a] = "deleted" \/ (token'[a] = edits' /\ edits' > edits)
<1> USE DEF SystemInv, SystemTypeOK, TypeOK, StoreTypeOK, ApiTypeOK
<1>0. ASSUME NEW kind, Edit(kind) PROVE edits' > edits /\ edits' >= edits
  BY <1>0 DEF Edit
<1>1. ASSUME NEW p \in Posts, CreatePost(p) \/ UpdatePost(p) \/ DeletePost(p)
      PROVE  edits' >= edits /\ UNCHANGED <<token, authorized>>
  BY <1>0, <1>1 DEF CreatePost, UpdatePost, DeletePost, MayUpdate, WritePost
<1>2. ASSUME NEW p \in Posts, NEW w \in Workers,
             UpdatePostDeadlock(w, p) \/ UpdatePostUnderWorker(w, p)
      PROVE  edits' >= edits /\ UNCHANGED <<token, authorized>>
  BY <1>0, <1>2 DEF UpdatePostDeadlock, UpdatePostUnderWorker, MayUpdate, WritePost
<1>3. ASSUME NEW a \in Accounts, CheckService(a)
      PROVE  UNCHANGED <<edits, token, authorized>>
  BY <1>3 DEF CheckService, storeVars
<1>4. ASSUME NEW a \in Accounts, WriteAccount(a)
      PROVE  /\ edits' > edits /\ edits' >= edits
             /\ token' = [token EXCEPT ![a] = edits']
             /\ authorized \ authorized' \subseteq {a}
  BY <1>0, <1>4 DEF WriteAccount
<1>5. ASSUME NEW a \in Accounts, DeleteAccount(a)
      PROVE  /\ edits' > edits /\ edits' >= edits
             /\ token' = token /\ accounts'[a] = "deleted"
             /\ authorized \ authorized' \subseteq {a}
  BY <1>0, <1>5 DEF DeleteAccount
<1>6. ASSUME NEW pages \in SUBSET Pages, ImportPages(pages)
      PROVE  /\ edits' > edits /\ edits' >= edits
             /\ authorized \subseteq authorized'
             /\ \A a \in Accounts : token'[a] \in {token[a], edits'}
  BY <1>0, <1>6 DEF ImportPages
<1>7. ASSUME NEW s \in Services, WriteService(s)
      PROVE  edits' >= edits /\ UNCHANGED <<token, authorized>>
  BY <1>0, <1>7 DEF WriteService
<1>8. ASSUME NEW a \in Accounts, WriteAccount(a) \/ DeleteAccount(a)
      PROVE  /\ edits' >= edits
             /\ \A b \in Accounts :
                  \/ token'[b] = token[b]
                  \/ token'[b] = edits' /\ edits' > edits
             /\ \A b \in authorized \ authorized' :
                  accounts'[b] = "deleted" \/ (token'[b] = edits' /\ edits' > edits)
  <2>1. CASE WriteAccount(a)
    BY <1>4, <2>1
  <2>2. CASE DeleteAccount(a)
    BY <1>5, <2>2
  <2> QED
    BY <1>8, <2>1, <2>2
<1>9. ASSUME NEW pages \in SUBSET Pages, ImportPages(pages)
      PROVE  /\ edits' >= edits
             /\ \A b \in Accounts :
                  \/ token'[b] = token[b]
                  \/ token'[b] = edits' /\ edits' > edits
             /\ authorized \ authorized' = {}
  BY <1>6, <1>9
<1> QED
  BY <1>1, <1>2, <1>3, <1>7, <1>8, <1>9 DEF ApiNext

\* The processes store no token; only a mark takes a flag.
LEMMA TakenFlag ==
  ASSUME SystemInv, [Next]_vars, NEW a \in authorized \ authorized'
  PROVE  \E w \in Workers : /\ CommitMark(w) /\ err[w] = "unauthorized"
                            /\ job[w].account = a
<1>1. ASSUME NEW w \in Workers, WorkerStep(w) \/ WorkerFault(w)
      PROVE  CommitMark(w)
  BY <1>1 DEF WorkerStep, WorkerFault, BRPop, FetchAccount, FetchService, FetchText,
              FetchOriginal, Publish, RecordResult, Commit, Retry, Mark, CommitUnknown,
              StatementFails, RetryFails, RetryDup, MarkFails, WorkerCrash, storeVars
<1>2. ~\E s \in Schedulers : SchedulerStep(s) \/ SchedulerFault(s)
  BY DEF SchedulerStep, SchedulerFault, Scan, SkipClaim, Claim, Push, ClaimFails,
         ClaimUnknown, PushDup, PushFails, SchedulerCrash, storeVars
<1>3. ~StoreNext /\ ~UNCHANGED vars
  BY DEF StoreNext, RedisRestart, ComesDue, vars, storeVars
<1>4. PICK w \in Workers : CommitMark(w)
  BY <1>1, <1>2, <1>3 DEF Next, SchedulerNext, WorkerNext
<1> QED
  BY <1>4 DEF CommitMark

-----------------------------------------------------------------------------
(***************************************************************************)
(* Where an error is found and how long it is remembered.                  *)
(***************************************************************************)
\* w keeps its job and, if it has met a refusal, has met it in this step.
Remembers(w) ==
  /\ job'[w] = job[w]
  /\ \/ pc[w] \in {"fetch", "publish"}
     \/ pc[w] \in {"error", "markcommit"} /\ err[w] = "unauthorized"

Reports(w) == pc'[w] \in {"error", "markcommit"} /\ err'[w] = "unauthorized"

LEMMA WorkerRemembers ==
  ASSUME TypeOK, WorkerShape, NEW w \in Workers, WorkerStep(w) \/ WorkerFault(w),
         NEW v \in Workers, Reports(v)
  PROVE  Remembers(v)
<1> USE DEF TypeOK, WorkerTypeOK, Reports, Remembers
<1>1. CASE Idle(w)
  BY <1>1 DEF Idle
<1>2. CASE BRPop(w)
  BY <1>2 DEF BRPop
<1>3. CASE \E next \in {"service", "text", "original", "publish", "record"} : Goto(w, next)
  BY <1>3 DEF Goto
<1>4. CASE FetchService(w) \/ FetchText(w) \/ FetchOriginal(w) \/ CommitUnknown(w)
           \/ StatementFails(w)
  <2>1. \/ \E next \in {"text", "original", "publish"} : Goto(w, next)
        \/ \E kind \in {"permanent", "transient"} : ReturnError(w, kind)
    BY <1>4 DEF FetchService, FetchText, FetchOriginal, UseContent, CommitUnknown,
                StatementFails
  <2>2. ASSUME NEW kind \in {"permanent", "transient"}, ReturnError(w, kind)
        PROVE  Remembers(v)
    BY <2>2 DEF ReturnError
  <2> QED
    BY <1>3, <2>1, <2>2
<1>5. CASE FetchAccount(w) \/ Publish(w)
  <2>1. pc[w] \in {"fetch", "publish"}
    BY <1>5 DEF FetchAccount, Publish
  <2>2. \/ Idle(w)
        \/ \E next \in {"service", "record"} : Goto(w, next)
        \/ \E kind : ReturnError(w, kind)
    BY <1>5 DEF FetchAccount, Publish
  <2>3. ASSUME NEW kind, ReturnError(w, kind) PROVE Remembers(v)
    BY <2>1, <2>3 DEF ReturnError
  <2> QED
    BY <1>1, <1>3, <2>2, <2>3
<1>6. CASE RecordResult(w) \/ Mark(w)
  BY <1>1, <1>6 DEF RecordResult, Mark
<1>7. CASE \/ Commit(w) \/ Retry(w) \/ CommitMark(w)
           \/ RetryFails(w) \/ RetryDup(w) \/ MarkFails(w) \/ WorkerCrash(w)
  BY <1>1, <1>7 DEF Commit, Retry, CommitMark, RetryFails, RetryDup, MarkFails, WorkerCrash
<1> QED
  BY <1>2, <1>4, <1>5, <1>6, <1>7 DEF WorkerStep, WorkerFault

LEMMA SystemRemembers ==
  ASSUME SystemInv, SystemNext, NEW v \in Workers, Reports(v)
  PROVE  Remembers(v)
<1> USE DEF SystemInv, SystemTypeOK, TypeOK, WorkerTypeOK
<1>1. CASE UNCHANGED workerVars
  BY <1>1 DEF Reports, Remembers, workerVars
<1>2. CASE Next
  BY <1>1, <1>2, WorkerRemembers DEF Next, WorkerNext
<1>3. ASSUME NEW w \in Workers, NEW p \in Posts, UpdatePostDeadlock(w, p)
      PROVE  Remembers(v)
  <2>1. Idle(w) \/ ReturnError(w, "transient")
    BY <1>3 DEF UpdatePostDeadlock
  <2> QED
    BY <2>1 DEF Idle, ReturnError, Reports, Remembers
<1>4. ASSUME NEW w \in Workers, NEW p \in Posts, UpdatePostUnderWorker(w, p)
      PROVE  Remembers(v)
  BY <1>4 DEF UpdatePostUnderWorker, Idle, Reports, Remembers
<1> QED
  BY <1>1, <1>2, <1>3, <1>4
     DEF SystemNext, ApiNext, CreatePost, UpdatePost, DeletePost, CheckService, WriteAccount,
         DeleteAccount, ImportPages, WriteService

LEMMA NextTokens == TokenInv /\ [TokenNext]_tokenVars => TokenInv'
<1> SUFFICES ASSUME TokenInv, [TokenNext]_tokenVars PROVE TokenInv'
  OBVIOUS
<1>1. SystemInv'
  BY NextSystem DEF TokenInv, TokenNext, tokenVars
<1>2. CASE UNCHANGED tokenVars
  BY <1>1, <1>2 DEF TokenInv, TokensStored, RefusalsKnown, tokenVars, systemVars, vars, apiVars,
                    workerVars
<1>3. CASE SystemNext /\ TokenStep
  <2>1. TokensStored'
    <3>1. CASE UNCHANGED <<token, edits>>
      BY <3>1 DEF TokenInv, TokensStored
    <3>2. CASE ApiNext
      <4>1. edits \in Int /\ edits' \in Int /\ \A a \in Accounts : token[a] \in Int
        BY <1>1 DEF TokenInv, SystemInv, SystemTypeOK, ApiTypeOK
      <4>2. /\ edits' >= edits
            /\ \A a \in Accounts : token'[a] = token[a] \/ token'[a] = edits'
        BY <3>2, WrittenToken DEF TokenInv
      <4> QED
        BY <4>1, <4>2 DEF TokenInv, TokensStored
    <3> QED
      BY <1>3, <3>1, <3>2 DEF SystemNext, apiVars
  <2>2. RefusalsKnown'
    <3> SUFFICES ASSUME NEW w \in Workers, Reports(w)
                 PROVE  <<job'[w].account, held'[w]>> \in refused'
      BY DEF RefusalsKnown, Reports
    <3>1. Remembers(w)
      BY <1>3, SystemRemembers DEF TokenInv
    <3>2. /\ held'[w] = IF pc[w] = "fetch" THEN token[job[w].account] ELSE held[w]
          /\ refused' = refused \cup FoundBad
      BY <1>3 DEF TokenStep, HeldAfter, Reports
    <3>3. CASE pc[w] \in {"fetch", "publish"}
      <4>1. <<job[w].account, IF pc[w] = "fetch" THEN token[job[w].account] ELSE held[w]>>
              \in FoundBad
        BY <3>3 DEF FoundBad, Reports
      <4> QED
        BY <3>1, <3>2, <4>1 DEF Remembers
    <3>4. CASE pc[w] \in {"error", "markcommit"} /\ err[w] = "unauthorized"
      <4>1. <<job[w].account, held[w]>> \in refused
        BY <3>4 DEF TokenInv, RefusalsKnown
      <4> QED
        BY <3>1, <3>2, <3>4, <4>1 DEF Remembers
    <3> QED
      BY <3>1, <3>3, <3>4 DEF Remembers
  <2> QED
    BY <1>1, <2>1, <2>2 DEF TokenInv
<1> QED
  BY <1>2, <1>3 DEF TokenNext

(***************************************************************************)
(* Tokens, and the errors workers report about them, are always so: no     *)
(* request and no failure between the reading of a token and the mark      *)
(* gives a worker an unauthorized error about a token it did not try.      *)
(***************************************************************************)
THEOREM TokenInvariant == TokenSpec => []TokenInv
BY InitTokens, NextTokens, PTL DEF TokenSpec

(***************************************************************************)
(* An account that keeps its token loses its flag only to a worker that    *)
(* found the token bad which it had read for its job.  Nothing shows that  *)
(* it is the token the account has now, and the code does not look.        *)
(***************************************************************************)
THEOREM Deauthorized == TokenSpec => DeauthorizedForCause
<1> DEFINE ForCause ==
      \A a \in authorized \ authorized' :
        accounts'[a] = "live" /\ token'[a] = token[a]
          => \E w \in Workers : /\ job[w] # NoJob /\ job'[w] = NoJob
                                /\ job[w].account = a
                                /\ <<a, held[w]>> \in refused
<1>1. TokenInv /\ [TokenNext]_tokenVars => [ForCause]_tokenVars
  <2> SUFFICES ASSUME TokenInv, SystemNext,
                      NEW a \in authorized \ authorized',
                      accounts'[a] = "live", token'[a] = token[a]
               PROVE  \E w \in Workers : /\ job[w] # NoJob /\ job'[w] = NoJob
                                         /\ job[w].account = a
                                         /\ <<a, held[w]>> \in refused
    BY DEF TokenNext
  <2>1. CASE ApiNext
    <3>1. a \in Accounts /\ token[a] \in Int /\ edits \in Int
      BY DEF TokenInv, SystemInv, SystemTypeOK, TypeOK, StoreTypeOK, ApiTypeOK
    <3>2. token'[a] > edits
      BY <2>1, WrittenToken DEF TokenInv
    <3> QED
      BY <3>1, <3>2 DEF TokenInv, TokensStored
  <2>2. CASE Next
    <3>1. PICK w \in Workers : /\ CommitMark(w) /\ err[w] = "unauthorized"
                              /\ job[w].account = a
      BY <2>2, TakenFlag DEF TokenInv
    <3>2. job[w] # NoJob /\ job'[w] = NoJob
      BY <3>1 DEF CommitMark, Idle, TokenInv, SystemInv, WorkerShape, SystemTypeOK, TypeOK,
                  WorkerTypeOK
    <3>3. <<a, held[w]>> \in refused
      BY <3>1 DEF CommitMark, TokenInv, RefusalsKnown
    <3> QED
      BY <3>1, <3>2, <3>3
  <2> QED
    BY <2>1, <2>2 DEF SystemNext
<1> HIDE DEF ForCause
<1>2. TokenSpec => [][ForCause]_tokenVars
  BY <1>1, TokenInvariant, PTL DEF TokenSpec
<1> QED
  BY <1>2 DEF ForCause, DeauthorizedForCause
=============================================================================
