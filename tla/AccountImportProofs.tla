------------------------ MODULE AccountImportProofs ------------------------
(***************************************************************************)
(* What holds of AccountImport for every number of users, credentials,     *)
(* requests, services, states and pages: ImportInv is inductive; dead      *)
(* credentials stay out, a state is redeemed once, the service an import   *)
(* loads is valid, and an import is all or nothing.                        *)
(***************************************************************************)
EXTENDS AccountImport, TLAPS

USE AccessAssumption, RegistryAssumption, ImportAssumption

\* The steps that hand a request its answer or move it on keep its type.
LEMMA IdleTyped == NoRequest \in RequestStates /\ NoWork \in Work
BY DEF NoRequest, RequestStates, RequestSteps, NoWork, Work, Kinds

LEMMA AnsweredTyped ==
  ASSUME TypeOK, NEW r \in Requests, Answered(r)
  PROVE  request' \in [Requests -> RequestStates]
BY IdleTyped DEF TypeOK, AccessTypeOK, Answered

LEMMA EndedTyped ==
  ASSUME TypeOK, NEW r \in Requests, Ended(r)
  PROVE  request' \in [Requests -> RequestStates] /\ work' \in [Requests -> Work]
BY IdleTyped, AnsweredTyped DEF TypeOK, Ended

LEMMA GoOnTyped ==
  ASSUME TypeOK, NEW r \in Requests, NEW pc \in RequestSteps, GoOn(r, pc)
  PROVE  request' \in [Requests -> RequestStates]
<1>1. request[r] \in RequestStates
  BY DEF TypeOK, AccessTypeOK
<1>2. [request[r] EXCEPT !.pc = pc] \in RequestStates
  BY <1>1 DEF RequestStates
<1> QED
  BY <1>2 DEF TypeOK, AccessTypeOK, GoOn

LEMMA ArrivesTyped ==
  ASSUME TypeOK, NEW r \in Requests, NEW kind \in Kinds, NEW pc \in RequestSteps,
         NEW cred \in Credentials \cup {NoCredential}, NEW user \in Users \cup {Nobody},
         NEW dead \in BOOLEAN, Arrives(r, kind, pc, cred, user, dead)
  PROVE  request' \in [Requests -> RequestStates] /\ arrivals' \in 0..MaxRequests
<1>1. arrivals' \in 0..MaxRequests
  BY DEF TypeOK, AccessTypeOK, Arrives
<1>2. [pc |-> pc, kind |-> kind, cred |-> cred, user |-> user, dead |-> dead,
       number |-> arrivals'] \in RequestStates
  BY <1>1 DEF RequestStates
<1> QED
  BY <1>1, <1>2 DEF TypeOK, AccessTypeOK, Arrives

\* A duration that wraps around is a number, and none grows by it.
LEMMA WrapBound ==
  ASSUME NEW n \in Int
  PROVE  Wrap(n) \in Int /\ (n \in Nat => Wrap(n) <= n)
<1> DEFINE m == 2 * HalfRange
           k == n + HalfRange
<1>1. m \in Nat /\ m > 0 /\ k \in Int
  OBVIOUS
<1>2. k % m \in 0..(m - 1)
  BY <1>1
<1>3. k \in Nat => k % m <= k
  BY <1>1, <1>2
<1> QED
  BY <1>1, <1>2, <1>3 DEF Wrap

LEMMA InitTyped == Init => TypeOK
BY IdleTyped DEF Init, AccessInit, RegistryInit, TypeOK, AccessTypeOK, RegistryTypeOK

-----------------------------------------------------------------------------
LEMMA AccessTyped ==
  ASSUME TypeOK, CredentialsHold, AccessNext, UNCHANGED <<row, importVars>>
  PROVE  TypeOK'
<1> USE DEF TypeOK, AccessTypeOK, RegistryTypeOK, importVars
<1>1. ASSUME NEW r \in Requests, Register(r) PROVE TypeOK'
  <2>1. PICK u \in Users : Arrives(r, "register", "session", NoCredential, u, FALSE)
                           /\ users' = users \cup {u}
    BY <1>1 DEF Register
  <2> QED BY <1>1, <2>1, ArrivesTyped DEF Register, Kinds, OpenKinds, RequestSteps
<1>2. ASSUME NEW r \in Requests, Login(r) PROVE TypeOK'
  <2>1. PICK u \in Users : Arrives(r, "login", "session", NoCredential, u, FALSE)
    BY <1>2 DEF Login
  <2> QED BY <1>2, <2>1, ArrivesTyped DEF Login, Kinds, OpenKinds, RequestSteps
<1>3. ASSUME NEW r \in Requests, Arrive(r) PROVE TypeOK'
  <2>1. PICK kind \in SessionKinds \cup TokenKinds, c \in Credentials :
          Arrives(r, kind, "lookup", c, Nobody, credential[c] # "live")
    BY <1>3 DEF Arrive
  <2>2. request' \in [Requests -> RequestStates] /\ arrivals' \in 0..MaxRequests
    BY <2>1, ArrivesTyped DEF Kinds, RequestSteps
  <2> QED BY <1>3, <2>2 DEF Arrive
<1>4. ASSUME NEW r \in Requests, CreateSession(r) PROVE TypeOK'
  BY <1>4, AnsweredTyped DEF CreateSession, RequestStates, Credentials
<1>5. ASSUME NEW r \in Requests, CreateSessionFails(r) PROVE TypeOK'
  BY <1>5, AnsweredTyped DEF CreateSessionFails
<1>6. ASSUME NEW r \in Requests, LookUp(r) PROVE TypeOK'
  <2>1. CASE Answered(r)
    BY <1>6, <2>1, AnsweredTyped DEF LookUp
  <2>2. CASE request' = [request EXCEPT ![r] = [@ EXCEPT !.pc = "serve",
                                                        !.user = owner[request[r].cred]]]
    <3>1. request[r] \in RequestStates /\ request[r].cred \in Credentials
      BY <1>6 DEF LookUp, CredentialsHold
    <3>2. [request[r] EXCEPT !.pc = "serve", !.user = owner[request[r].cred]]
            \in RequestStates
      BY <3>1 DEF RequestStates, RequestSteps
    <3> QED BY <1>6, <2>2, <3>2 DEF LookUp
  <2> QED BY <1>6, <2>1, <2>2 DEF LookUp
<1>7. ASSUME NEW r \in Requests, Logout(r) PROVE TypeOK'
  BY <1>7, AnsweredTyped DEF Logout
<1>8. ASSUME NEW r \in Requests, CreateToken(r) PROVE TypeOK'
  <2>1. request' \in [Requests -> RequestStates]
    BY <1>8, AnsweredTyped DEF CreateToken
  <2>2. request[r] \in RequestStates
    OBVIOUS
  <2>3. PICK t \in Tokens : CreatesToken(r, t)
    BY <1>8 DEF CreateToken
  <2>4. owner' \in [Credentials -> Users \cup {Nobody}]
    BY <2>2, <2>3 DEF CreatesToken, RequestStates, Credentials
  <2>5. CASE UNCHANGED granted
    BY <1>8, <2>1, <2>3, <2>4, <2>5 DEF CreateToken, CreatesToken
  <2>6. ASSUME NEW days \in Days,
               credential' = [credential EXCEPT ![t] =
                                IF Wrap(days * Day) > 0 THEN "live" ELSE "expired"],
               granted' = [granted EXCEPT ![t] = [days |-> days, life |-> Wrap(days * Day)]]
        PROVE  TypeOK'
    <3>1. days \in Int /\ Wrap(days * Day) \in Int
      BY WrapBound
    <3>2. granted' \in [Tokens -> [days: Int, life: Int]]
      BY <2>6, <3>1
    <3>3. credential' \in [Credentials -> {"unissued", "live", "expired", "deleted"}]
      BY <2>6
    <3> QED BY <1>8, <2>1, <2>4, <3>2, <3>3 DEF CreateToken
  <2> QED BY <2>3, <2>5, <2>6 DEF CreatesToken
<1>9. ASSUME NEW r \in Requests, DeleteToken(r) PROVE TypeOK'
  BY <1>9, AnsweredTyped DEF DeleteToken
<1>10. ASSUME NEW r \in Requests, Refuse(r) PROVE TypeOK'
  BY <1>10, AnsweredTyped DEF Refuse
<1>11. ASSUME NEW c \in Credentials, Expire(c) PROVE TypeOK'
  BY <1>11 DEF Expire
<1> QED
  BY <1>1, <1>2, <1>3, <1>4, <1>5, <1>6, <1>7, <1>8, <1>9, <1>10, <1>11
     DEF AccessNext, AccessStep

LEMMA ServiceTyped ==
  ASSUME TypeOK, NEW r \in Requests, ServiceStep(r), UNCHANGED importVars
  PROVE  TypeOK'
<1>1. request' \in [Requests -> RequestStates]
  BY AnsweredTyped DEF ServiceStep, CreateService, UpdateService, DeleteService
<1>2. row' \in [ServiceIds -> ServiceRows \cup {NoRow}]
  <2>1. ASSUME NEW i \in ServiceIds, NEW name \in ServiceNames,
               NEW config \in Configurations, NEW active \in BOOLEAN,
               row' = [row EXCEPT ![i] = [name |-> name, config |-> config, active |-> active]]
        PROVE  row' \in [ServiceIds -> ServiceRows \cup {NoRow}]
    BY <2>1 DEF ServiceRows, TypeOK, RegistryTypeOK
  <2>2. ASSUME NEW i \in ServiceIds, row' = [row EXCEPT ![i] = NoRow]
        PROVE  row' \in [ServiceIds -> ServiceRows \cup {NoRow}]
    BY <2>2 DEF TypeOK, RegistryTypeOK
  <2> QED BY <2>1, <2>2 DEF ServiceStep, CreateService, UpdateService, DeleteService
<1>3. UNCHANGED <<users, credential, owner, granted, arrivals>>
  BY DEF ServiceStep, CreateService, UpdateService, DeleteService
<1> QED
  BY <1>1, <1>2, <1>3 DEF TypeOK, AccessTypeOK, RegistryTypeOK, importVars

\* An answer of Facebook as one step with what it makes of the list.
Lists(r, todo, answers, pc) ==
  /\ work' = [work EXCEPT ![r] = [work[r] EXCEPT !.todo = todo, !.answers = answers]]
  /\ GoOn(r, pc)

LEMMA AnswerEffect ==
  ASSUME TypeOK, NEW r \in Requests, PageAnswer(r)
  PROVE  \E todo \in Seq(Pages), answers \in 0..(PageCap - 1), pc \in {"list", "upsert"} :
           Lists(r, todo, answers, pc)
<1>1. work[r] \in Work
  BY DEF TypeOK
<1>2. PICK more \in {<<>>} \cup {<<g>> : g \in Pages \ ToSet(work[r].todo)},
           n \in {0, NextAnswer(work[r].answers)}, pc \in {"list", "upsert"} :
        /\ n = 0 \/ AsksAgain(n)
        /\ work' = [work EXCEPT ![r] = [work[r] EXCEPT !.todo = work[r].todo \o more,
                                                         !.answers = n]]
        /\ GoOn(r, pc)
  BY DEF PageAnswer, TypeOK, Work
<1>3. more \in Seq(Pages)
  <2>1. CASE more = <<>>
    BY <2>1
  <2>2. ASSUME NEW g \in Pages, more = <<g>>
        PROVE  more \in Seq(Pages)
    BY <2>2
  <2> QED BY <2>1, <2>2
<1>4. work[r].todo \o more \in Seq(Pages)
  BY <1>1, <1>3 DEF Work
<1>5. n \in 0..(PageCap - 1)
  BY <1>1, <1>2 DEF Work, AsksAgain, NextAnswer
<1> QED
  BY <1>2, <1>4, <1>5 DEF Lists

\* The list has pages only, and the loop counter stays below the cap.
LEMMA AnswerTyped ==
  ASSUME TypeOK, NEW r \in Requests, PageAnswer(r)
  PROVE  /\ work' \in [Requests -> Work]
         /\ request' \in [Requests -> RequestStates]
         /\ work'[r].wrote \cup ToSet(work'[r].todo) \subseteq Pages
<1>1. PICK todo \in Seq(Pages), answers \in 0..(PageCap - 1), pc \in {"list", "upsert"} :
        Lists(r, todo, answers, pc)
  BY AnswerEffect
<1>2. [work[r] EXCEPT !.todo = todo, !.answers = answers] \in Work
  BY DEF TypeOK, Work
<1>3. work' \in [Requests -> Work]
  BY <1>1, <1>2 DEF TypeOK, Lists
<1>4. request' \in [Requests -> RequestStates]
  BY <1>1, GoOnTyped DEF Lists, RequestSteps
<1>5. work'[r].todo \in Seq(Pages) /\ work'[r].wrote \subseteq Pages
  BY <1>3 DEF Work
<1> QED
  BY <1>3, <1>4, <1>5 DEF ToSet

LEMMA ImportTyped ==
  ASSUME TypeOK, TicketsHold, NEW r \in Requests, Callback(r) \/ ImportStep(r)
  PROVE  TypeOK'
<1> USE DEF TypeOK, AccessTypeOK, RegistryTypeOK, restVars, importVars
<1>1. CASE StartOAuth(r)
  BY <1>1, EndedTyped DEF StartOAuth
<1>2. CASE SelectState(r)
  BY <1>2, EndedTyped, GoOnTyped DEF SelectState, RequestSteps
<1>3. CASE ConsumeState(r)
  <2>1. request' \in [Requests -> RequestStates] /\ work' \in [Requests -> Work]
    BY <1>3, EndedTyped, GoOnTyped DEF ConsumeState, RequestSteps
  <2> QED BY <1>3, <2>1, TicketsHold DEF ConsumeState, TicketsHold
<1>4. CASE ConsumeUnknown(r)
  BY <1>4, EndedTyped DEF ConsumeUnknown
<1>5. CASE StartImport(r)
  BY <1>5, GoOnTyped DEF StartImport, RequestSteps
<1>6. CASE LoadConfiguration(r)
  BY <1>6, GoOnTyped DEF LoadConfiguration, RequestSteps
<1>7. CASE ExchangeCode(r)
  BY <1>7, GoOnTyped DEF ExchangeCode, RequestSteps
<1>8. CASE ExchangeToken(r)
  BY <1>8, GoOnTyped DEF ExchangeToken, RequestSteps
<1>9. CASE AskPages(r)
  BY <1>9, GoOnTyped DEF AskPages, RequestSteps
<1>10. CASE PageAnswer(r)
  BY <1>10, AnswerTyped DEF PageAnswer
<1>11. CASE UpsertPage(r)
  <2>1. work[r] \in Work /\ Head(work[r].todo) \in Pages /\ Tail(work[r].todo) \in Seq(Pages)
    BY <1>11 DEF UpsertPage, Work
  <2>2. [work[r] EXCEPT !.todo = Tail(work[r].todo),
                        !.wrote = work[r].wrote \cup {Head(work[r].todo)}] \in Work
    BY <2>1 DEF Work
  <2>3. work' = [work EXCEPT ![r] = [work[r] EXCEPT
                   !.todo = Tail(work[r].todo),
                   !.wrote = work[r].wrote \cup {Head(work[r].todo)}]]
    BY <1>11 DEF UpsertPage
  <2> QED BY <1>11, <2>2, <2>3 DEF UpsertPage
<1>12. CASE CommitImport(r)
  <2>1. request[r].number \in 0..MaxRequests
    BY DEF RequestStates
  <2> QED BY <1>12, <2>1, EndedTyped DEF CommitImport
<1>13. CASE Fail(r)
  BY <1>13, EndedTyped DEF Fail
<1>14. CASE Unlink(r)
  BY <1>14, EndedTyped DEF Unlink
<1>15. CASE Callback(r)
  <2>1. request' \in [Requests -> RequestStates] /\ arrivals' \in 0..MaxRequests
    BY <1>15, ArrivesTyped DEF Callback, Kinds, OpenKinds, RequestSteps
  <2>2. PICK s \in States : work' = [work EXCEPT ![r] = [@ EXCEPT !.state = s]]
    BY <1>15 DEF Callback
  <2>3. [work[r] EXCEPT !.state = s] \in Work
    BY DEF Work
  <2> QED BY <1>15, <2>1, <2>2, <2>3 DEF Callback
<1> QED
  BY <1>1, <1>2, <1>3, <1>4, <1>5, <1>6, <1>7, <1>8, <1>9, <1>10, <1>11, <1>12, <1>13,
     <1>14, <1>15 DEF ImportStep

LEMMA TypeStep ==
  ASSUME TypeOK, CredentialsHold, TicketsHold, [Next]_vars
  PROVE  TypeOK'
<1>1. ASSUME NEW s \in States, ExpireState(s) PROVE TypeOK'
  BY <1>1 DEF ExpireState, TypeOK, AccessTypeOK, RegistryTypeOK, accessVars
<1>2. CASE UNCHANGED vars
  BY <1>2 DEF vars, accessVars, importVars, TypeOK, AccessTypeOK, RegistryTypeOK
<1> QED
  BY <1>1, <1>2, AccessTyped, ServiceTyped, ImportTyped DEF Next

-----------------------------------------------------------------------------
\* The handler of a request that was admitted, or needs no credential, goes on.
Advances(r) ==
  /\ request[r].pc \notin {"idle", "lookup"}
  /\ \E pc \in {"consume", "config", "code", "exchange", "list", "answer", "upsert"} :
       GoOn(r, pc)

\* A request arrives: with a credential to be looked up, or needing none.
Comes(r) ==
  \E kind \in Kinds, pc \in RequestSteps, cred \in Credentials \cup {NoCredential},
     user \in Users \cup {Nobody}, dead \in BOOLEAN :
       /\ Arrives(r, kind, pc, cred, user, dead)
       /\ pc # "consume"
       /\ \/ /\ kind \in SessionKinds \cup TokenKinds /\ pc = "lookup"
             /\ cred \in Credentials /\ credential[cred] # "unissued"
             /\ dead = (credential[cred] # "live")
             /\ UNCHANGED <<credential, owner>>
          \/ kind \in {"register", "login"} /\ pc = "session"
          \/ kind = "callback" /\ pc = "select" /\ work'[r].state \in States

\* What a step of ApiAccess does to the requests.
LEMMA AccessMoves ==
  ASSUME TypeOK, AccessNext
  PROVE  UNCHANGED request \/ \E r \in Requests : Comes(r) \/ Answered(r) \/ LookUp(r)
<1>1. ASSUME NEW r \in Requests, Register(r) PROVE Comes(r)
  BY <1>1 DEF Register, Comes, Kinds, OpenKinds, RequestSteps
<1>2. ASSUME NEW r \in Requests, Login(r) PROVE Comes(r)
  BY <1>2 DEF Login, Comes, Kinds, OpenKinds, RequestSteps, TypeOK, AccessTypeOK
<1>3. ASSUME NEW r \in Requests, Arrive(r) PROVE Comes(r)
  <2>1. PICK kind \in SessionKinds \cup TokenKinds, c \in Credentials :
          /\ credential[c] # "unissued"
          /\ Arrives(r, kind, "lookup", c, Nobody, credential[c] # "live")
    BY <1>3 DEF Arrive
  <2>2. UNCHANGED <<credential, owner>>
    BY <1>3 DEF Arrive
  <2>3. kind \in Kinds /\ "lookup" \in RequestSteps
    BY DEF Kinds, RequestSteps
  <2> QED BY <2>1, <2>2, <2>3, Zenon DEF Comes
<1>4. ASSUME NEW r \in Requests, AccessStep(r) PROVE Answered(r) \/ LookUp(r)
  BY <1>4 DEF AccessStep, CreateSession, CreateSessionFails, Logout, CreateToken,
     DeleteToken, Refuse
<1>5. ASSUME NEW c \in Credentials, Expire(c) PROVE UNCHANGED request
  BY <1>5 DEF Expire
<1> QED
  BY <1>1, <1>2, <1>3, <1>4, <1>5 DEF AccessNext

\* All that can happen to the requests in a step.
LEMMA RequestMoves ==
  ASSUME TypeOK, [Next]_vars
  PROVE  \/ UNCHANGED request
         \/ \E r \in Requests : Comes(r) \/ Answered(r) \/ Advances(r) \/ LookUp(r)
<1>1. ASSUME NEW r \in Requests, Callback(r) PROVE Comes(r)
  <2>1. work'[r].state \in States
    <3>1. PICK s \in States : work' = [work EXCEPT ![r] = [work[r] EXCEPT !.state = s]]
      BY <1>1 DEF Callback
    <3>2. work[r] \in Work
      BY DEF TypeOK
    <3> QED BY <3>1, <3>2 DEF TypeOK, Work
  <2>2. Arrives(r, "callback", "select", NoCredential, Nobody, FALSE)
    BY <1>1 DEF Callback
  <2> QED BY <2>1, <2>2 DEF Comes, Kinds, OpenKinds, RequestSteps
<1>2. ASSUME NEW r \in Requests, ServiceStep(r) PROVE Answered(r)
  BY <1>2 DEF ServiceStep, CreateService, UpdateService, DeleteService
<1>3. ASSUME NEW r \in Requests, ImportStep(r)
      PROVE  UNCHANGED request \/ Answered(r) \/ Advances(r)
  BY <1>3 DEF ImportStep, StartOAuth, SelectState, ConsumeState, ConsumeUnknown, StartImport,
     LoadConfiguration, ExchangeCode, ExchangeToken, AskPages, PageAnswer, UpsertPage,
     CommitImport, Fail, Unlink, Ended, Advances, At, restVars
<1>4. ASSUME (\E s \in States : ExpireState(s)) \/ UNCHANGED vars
      PROVE  UNCHANGED request
  BY <1>4 DEF ExpireState, vars, accessVars
<1> QED
  BY <1>1, <1>2, <1>3, <1>4, AccessMoves DEF Next

LEMMA NumberedStep ==
  ASSUME TypeOK, Numbered, [Next]_vars
  PROVE  Numbered'
<1>1. CASE UNCHANGED request
  BY <1>1 DEF Numbered
<1>2. ASSUME NEW r \in Requests, Comes(r) PROVE Numbered'
  <2>1. PICK kind \in Kinds, pc \in RequestSteps, cred \in Credentials \cup {NoCredential},
             user \in Users \cup {Nobody}, dead \in BOOLEAN :
          Arrives(r, kind, pc, cred, user, dead)
    BY <1>2 DEF Comes
  <2>2. arrivals' # 0
    BY <2>1 DEF Arrives, TypeOK, AccessTypeOK
  <2> QED BY <2>1, <2>2 DEF Arrives, Numbered, TypeOK, AccessTypeOK
<1>3. ASSUME NEW r \in Requests, Answered(r) PROVE Numbered'
  BY <1>3 DEF Answered, Numbered, NoRequest, TypeOK, AccessTypeOK
<1>4. ASSUME NEW r \in Requests, Advances(r) PROVE Numbered'
  BY <1>4 DEF Advances, GoOn, Numbered, TypeOK, AccessTypeOK, RequestStates
<1>5. ASSUME NEW r \in Requests, LookUp(r) PROVE Numbered'
  <2>1. CASE request' = [request EXCEPT ![r] = [@ EXCEPT !.pc = "serve",
                                                        !.user = owner[request[r].cred]]]
    BY <1>5, <2>1 DEF LookUp, Numbered, TypeOK, AccessTypeOK, RequestStates
  <2> QED BY <1>3, <1>5, <2>1 DEF LookUp
<1> QED
  BY <1>1, <1>2, <1>3, <1>4, <1>5, RequestMoves

\* An issued credential keeps its owner, stays issued, and stays dead.
LEMMA CredentialFrame ==
  ASSUME TypeOK, [Next]_vars, NEW c \in Credentials, credential[c] # "unissued"
  PROVE  /\ credential'[c] # "unissued" /\ owner'[c] = owner[c]
         /\ credential[c] # "live" => credential'[c] # "live"
<1> USE DEF TypeOK, AccessTypeOK, Credentials
<1>1. CASE UNCHANGED <<credential, owner>>
  BY <1>1
<1>2. ASSUME NEW r \in Requests, CreateSession(r) \/ CreateToken(r) \/ Logout(r) \/ DeleteToken(r)
      PROVE  /\ credential'[c] # "unissued" /\ owner'[c] = owner[c]
             /\ credential[c] # "live" => credential'[c] # "live"
  BY <1>2 DEF CreateSession, CreateToken, CreatesToken, Logout, DeleteToken
<1>3. ASSUME NEW d \in Credentials, Expire(d)
      PROVE  /\ credential'[c] # "unissued" /\ owner'[c] = owner[c]
             /\ credential[c] # "live" => credential'[c] # "live"
  BY <1>3 DEF Expire
<1>4. \/ UNCHANGED <<credential, owner>>
      \/ \E r \in Requests : CreateSession(r) \/ CreateToken(r) \/ Logout(r) \/ DeleteToken(r)
      \/ \E d \in Credentials : Expire(d)
  <2>1. ASSUME NEW r \in Requests, ServiceStep(r) PROVE UNCHANGED <<credential, owner>>
    BY <2>1 DEF ServiceStep, CreateService, UpdateService, DeleteService
  <2>2. ASSUME NEW r \in Requests, Callback(r) \/ ImportStep(r)
        PROVE  UNCHANGED <<credential, owner>>
    BY <2>2 DEF Callback, ImportStep, StartOAuth, SelectState, ConsumeState, ConsumeUnknown,
       StartImport, LoadConfiguration, ExchangeCode, ExchangeToken, AskPages, PageAnswer,
       UpsertPage, CommitImport, Fail, Unlink, restVars
  <2>3. ASSUME NEW r \in Requests,
               Register(r) \/ Login(r) \/ Arrive(r) \/ CreateSessionFails(r) \/ LookUp(r) \/ Refuse(r)
        PROVE  UNCHANGED <<credential, owner>>
    BY <2>3 DEF Register, Login, Arrive, CreateSessionFails, LookUp, Refuse
  <2>4. ASSUME NEW s \in States, ExpireState(s) PROVE UNCHANGED <<credential, owner>>
    BY <2>4 DEF ExpireState, accessVars
  <2>5. CASE UNCHANGED vars
    BY <2>5 DEF vars, accessVars
  <2> QED BY <2>1, <2>2, <2>3, <2>4, <2>5 DEF Next, AccessNext, AccessStep
<1> QED
  BY <1>1, <1>2, <1>3, <1>4

LEMMA CredentialsStep ==
  ASSUME TypeOK, CredentialsHold, DeadStaysOut, [Next]_vars
  PROVE  CredentialsHold' /\ DeadStaysOut'
<1> USE DEF Admitted, SessionKinds, TokenKinds, OpenKinds
<1> DEFINE Fine(q) ==
      /\ request[q].pc = "lookup" => request[q].kind \in SessionKinds \cup TokenKinds
      /\ request[q].kind \in SessionKinds \cup TokenKinds =>
           /\ request[q].cred \in Credentials
           /\ credential[request[q].cred] # "unissued"
           /\ request[q].dead => credential[request[q].cred] # "live"
      /\ Admitted(q) => ~request[q].dead /\ request[q].user = owner[request[q].cred]
<1>1. ASSUME NEW q \in Requests PROVE Fine(q)
  BY DEF CredentialsHold, DeadStaysOut
<1>2. ASSUME NEW q \in Requests, request'[q] = request[q] PROVE Fine(q)'
  BY <1>1, <1>2, CredentialFrame
<1>3. ASSUME NEW q \in Requests, request'[q] = NoRequest PROVE Fine(q)'
  BY <1>3 DEF NoRequest
<1>4. ASSUME NEW r \in Requests, Comes(r) PROVE Fine(r)'
  <2>1. PICK kind \in Kinds, pc \in RequestSteps, cred \in Credentials \cup {NoCredential},
             user \in Users \cup {Nobody}, dead \in BOOLEAN :
          /\ Arrives(r, kind, pc, cred, user, dead)
          /\ \/ /\ kind \in SessionKinds \cup TokenKinds /\ pc = "lookup"
                /\ cred \in Credentials /\ credential[cred] # "unissued"
                /\ dead = (credential[cred] # "live")
                /\ UNCHANGED <<credential, owner>>
             \/ kind \in OpenKinds /\ pc \in {"session", "select"}
    BY <1>4 DEF Comes
  <2>2. request'[r] = [pc |-> pc, kind |-> kind, cred |-> cred, user |-> user, dead |-> dead,
                       number |-> arrivals']
    BY <2>1 DEF Arrives, TypeOK, AccessTypeOK
  <2> QED BY <2>1, <2>2
<1>5. ASSUME NEW r \in Requests, Advances(r) PROVE Fine(r)'
  <2>1. PICK pc \in {"consume", "config", "code", "exchange", "list", "answer", "upsert"} :
          /\ request'[r] = [request[r] EXCEPT !.pc = pc]
          /\ request[r].pc # "lookup"
    BY <1>5 DEF Advances, GoOn, TypeOK, AccessTypeOK
  <2>2. request[r] \in RequestStates
    BY DEF TypeOK, AccessTypeOK
  <2> QED BY <1>1, <2>1, <2>2, CredentialFrame DEF RequestStates
<1>6. ASSUME NEW r \in Requests, LookUp(r) PROVE Fine(r)'
  <2>1. CASE Answered(r)
    BY <1>3, <2>1 DEF Answered, TypeOK, AccessTypeOK
  <2>2. CASE /\ credential[request[r].cred] = "live"
             /\ request' = [request EXCEPT ![r] = [@ EXCEPT !.pc = "serve",
                                                          !.user = owner[request[r].cred]]]
    <3>1. request[r] \in RequestStates
      BY DEF TypeOK, AccessTypeOK
    <3>2. request'[r] = [request[r] EXCEPT !.pc = "serve", !.user = owner[request[r].cred]]
      BY <2>2 DEF TypeOK, AccessTypeOK
    <3> QED BY <1>1, <1>6, <2>2, <3>1, <3>2 DEF LookUp, RequestStates
  <2> QED BY <1>6, <2>1, <2>2 DEF LookUp
<1>7. ASSUME NEW q \in Requests PROVE Fine(q)'
  <2>1. ASSUME NEW r \in Requests, Comes(r) \/ Answered(r) \/ Advances(r) \/ LookUp(r)
        PROVE  q # r => request'[q] = request[q]
    BY <2>1 DEF Comes, Arrives, Answered, Advances, GoOn, LookUp, TypeOK, AccessTypeOK
  <2>2. ASSUME NEW r \in Requests, Answered(r) PROVE request'[r] = NoRequest
    BY <2>2 DEF Answered, TypeOK, AccessTypeOK
  <2> QED BY <1>2, <1>3, <1>4, <1>5, <1>6, <2>1, <2>2, RequestMoves
<1> QED
  BY <1>7 DEF CredentialsHold, DeadStaysOut

-----------------------------------------------------------------------------
LEMMA RowsStep ==
  ASSUME TypeOK, RowsValid, [Next]_vars
  PROVE  RowsValid'
<1> USE DEF TypeOK, RegistryTypeOK
<1>1. CASE UNCHANGED row
  BY <1>1 DEF RowsValid
<1>2. ASSUME NEW i \in ServiceIds, NEW name \in ServiceNames,
             NEW config \in Configurations, NEW active \in BOOLEAN,
             Valid(name, config, active), Free(name, i),
             row' = [row EXCEPT ![i] = [name |-> name, config |-> config, active |-> active]]
      PROVE  RowsValid'
  BY <1>2 DEF RowsValid, Free
<1>3. ASSUME NEW i \in ServiceIds, row' = [row EXCEPT ![i] = NoRow]
      PROVE  RowsValid'
  BY <1>3 DEF RowsValid, NoRow, ServiceRows, ServiceNames
<1>4. ASSUME NEW r \in Requests, Callback(r) \/ ImportStep(r) PROVE UNCHANGED row
  BY <1>4 DEF Callback, ImportStep, StartOAuth, SelectState, ConsumeState, ConsumeUnknown,
     StartImport, LoadConfiguration, ExchangeCode, ExchangeToken, AskPages, PageAnswer,
     UpsertPage, CommitImport, Fail, Unlink, restVars
<1>5. ASSUME (\E s \in States : ExpireState(s)) \/ UNCHANGED vars PROVE UNCHANGED row
  BY <1>5 DEF ExpireState, vars
<1>6. ASSUME NEW r \in Requests, ServiceStep(r) PROVE RowsValid'
  BY <1>2, <1>3, <1>6 DEF ServiceStep, CreateService, UpdateService, DeleteService
<1> QED
  BY <1>1, <1>4, <1>5, <1>6 DEF Next

LEMMA RowsLoadValid == ASSUME TypeOK, RowsValid PROVE LoadedIsValid
<1> SUFFICES ASSUME NEW name \in ServiceNames,
                    NEW i \in ActiveRows(name), NEW j \in ActiveRows(name)
             PROVE  i = j /\ Valid(name, row[i].config, TRUE)
  BY DEF LoadedIsValid
<1>1. /\ i \in ServiceIds /\ row[i].name = name /\ row[i].active
      /\ j \in ServiceIds /\ row[j].name = name
  BY DEF ActiveRows
<1>2. row[i] # NoRow /\ row[i].active = TRUE
  BY <1>1 DEF NoRow, ServiceNames, TypeOK, RegistryTypeOK, ServiceRows
<1> QED
  BY <1>1, <1>2 DEF RowsValid

-----------------------------------------------------------------------------
\* What request q may do without touching a state.
Keeps(q) ==
  \/ request'[q] = request[q] /\ work'[q].state = work[q].state
  \/ request'[q].kind # "callback" /\ request'[q].pc \notin {"select", "consume"}
  \/ /\ request'[q].kind = "callback" /\ request'[q].pc = "select"
     /\ work'[q].state \in States
  \/ /\ Redeeming(q) /\ Redeeming(q)'
     /\ work'[q].state = work[q].state

LEMMA KeepsTickets ==
  ASSUME TypeOK, TicketsHold, OneRedemption, UNCHANGED <<state, redeemed>>,
         \A q \in Requests : Keeps(q)
  PROVE  TicketsHold' /\ OneRedemption'
<1>1. TicketsHold'
  BY DEF TicketsHold, Keeps, Redeeming
<1>2. \A q \in Requests : Redeeming(q)' => Redeeming(q) /\ work'[q].state = work[q].state
  BY DEF Keeps, Redeeming
<1> QED
  BY <1>1, <1>2 DEF OneRedemption

LEMMA EndedKeeps ==
  ASSUME TypeOK, NEW r \in Requests, Ended(r)
  PROVE  \A q \in Requests : Keeps(q)
BY DEF Ended, Answered, NoRequest, Keeps, TypeOK, AccessTypeOK

\* The steps that neither open, expire nor consume a state.
LEMMA PlainKeeps ==
  ASSUME TypeOK, CredentialsHold, NEW r \in Requests,
         \/ UNCHANGED work /\ (Comes(r) \/ Answered(r) \/ LookUp(r))
         \/ Callback(r)
         \/ StartImport(r) \/ LoadConfiguration(r) \/ ExchangeCode(r) \/ ExchangeToken(r)
         \/ AskPages(r) \/ PageAnswer(r) \/ UpsertPage(r) \/ CommitImport(r)
         \/ Fail(r) \/ Unlink(r)
  PROVE  \A q \in Requests : Keeps(q)
<1> USE DEF TypeOK, AccessTypeOK
<1>0. request[r] \in RequestStates /\ work[r] \in Work
  OBVIOUS
<1>1. CASE UNCHANGED work /\ Comes(r)
  <2>1. PICK kind \in Kinds, pc \in RequestSteps, cred \in Credentials \cup {NoCredential},
             user \in Users \cup {Nobody}, dead \in BOOLEAN :
          /\ Arrives(r, kind, pc, cred, user, dead)
          /\ \/ kind # "callback" /\ pc \notin {"select", "consume"}
             \/ kind = "callback" /\ pc = "select" /\ work'[r].state \in States
    BY <1>1 DEF Comes, SessionKinds, TokenKinds, OpenKinds
  <2>2. /\ request'[r].kind = kind /\ request'[r].pc = pc
        /\ \A q \in Requests : q # r => request'[q] = request[q]
    BY <2>1 DEF Arrives
  <2> QED BY <1>1, <2>1, <2>2 DEF Keeps
<1>2. CASE UNCHANGED work /\ Answered(r)
  BY <1>2 DEF Answered, NoRequest, Keeps
<1>3. CASE UNCHANGED work /\ LookUp(r)
  <2>1. CASE request' = [request EXCEPT ![r] = [@ EXCEPT !.pc = "serve",
                                                        !.user = owner[request[r].cred]]]
    BY <1>0, <1>3, <2>1 DEF LookUp, Keeps, RequestStates, CredentialsHold, SessionKinds, TokenKinds
  <2> QED BY <1>2, <1>3, <2>1 DEF LookUp
<1>4. CASE Callback(r)
  BY <1>0, <1>4 DEF Callback, Arrives, Keeps, Work
<1>5. CASE StartImport(r)
  BY <1>0, <1>5 DEF StartImport, At, GoOn, Keeps, RequestStates, importVars
<1>6. CASE LoadConfiguration(r)
  BY <1>0, <1>6 DEF LoadConfiguration, GoOn, Keeps, Redeeming, RequestStates, importVars
<1>7. CASE ExchangeCode(r) \/ ExchangeToken(r) \/ AskPages(r)
  BY <1>0, <1>7 DEF ExchangeCode, ExchangeToken, AskPages, GoOn, Keeps, Redeeming,
     RequestStates, importVars
<1>8. CASE PageAnswer(r)
  <2>1. PICK todo \in Seq(Pages), answers \in 0..(PageCap - 1), pc \in {"list", "upsert"} :
          Lists(r, todo, answers, pc)
    BY <1>8, AnswerEffect
  <2>2. \A q \in Requests : work'[q].state = work[q].state
    BY <1>0, <2>1 DEF Work, Lists
  <2>3. /\ request'[r] = [request[r] EXCEPT !.pc = pc]
        /\ \A q \in Requests : q # r => request'[q] = request[q]
    BY <2>1 DEF GoOn, Lists
  <2>4. Keeps(r)
    BY <1>0, <1>8, <2>2, <2>3 DEF PageAnswer, Keeps, Redeeming, RequestStates
  <2> QED BY <2>2, <2>3, <2>4 DEF Keeps
<1>9. CASE UpsertPage(r)
  <2>1. \A q \in Requests : work'[q].state = work[q].state
    BY <1>0, <1>9 DEF UpsertPage, Work
  <2> QED BY <1>9, <2>1 DEF UpsertPage, Keeps
<1>10. CASE CommitImport(r) \/ Fail(r) \/ Unlink(r)
  BY <1>10, EndedKeeps DEF CommitImport, Fail, Unlink
<1> QED
  BY <1>1, <1>2, <1>3, <1>4, <1>5, <1>6, <1>7, <1>8, <1>9, <1>10

LEMMA TicketsStep ==
  ASSUME TypeOK, CredentialsHold, TicketsHold, OneRedemption, [Next]_vars
  PROVE  TicketsHold' /\ OneRedemption'
<1> DEFINE Goal == TicketsHold' /\ OneRedemption'
<1>1. ASSUME NEW r \in Requests,
             Callback(r) \/ StartImport(r) \/ LoadConfiguration(r) \/ ExchangeCode(r)
               \/ ExchangeToken(r) \/ AskPages(r) \/ PageAnswer(r) \/ UpsertPage(r)
               \/ CommitImport(r) \/ Fail(r) \/ Unlink(r)
      PROVE  Goal
  <2>1. UNCHANGED <<state, redeemed>>
    BY <1>1 DEF Callback, StartImport, LoadConfiguration, ExchangeCode, ExchangeToken,
       AskPages, PageAnswer, UpsertPage, CommitImport, Fail, Unlink, importVars
  <2> QED BY <1>1, <2>1, KeepsTickets, PlainKeeps
<1>2. CASE UNCHANGED <<state, redeemed, work>> /\ \E r \in Requests : Comes(r) \/ Answered(r) \/ LookUp(r)
  BY <1>2, KeepsTickets, PlainKeeps
<1>3. CASE UNCHANGED <<state, redeemed, work, request>>
  BY <1>3, KeepsTickets DEF Keeps
<1>4. ASSUME NEW r \in Requests, StartOAuth(r) PROVE Goal
  <2>1. PICK s \in States : state[s] = "unissued" /\ state' = [state EXCEPT ![s] = "open"]
    BY <1>4 DEF StartOAuth
  <2>2. UNCHANGED redeemed /\ \A q \in Requests : Keeps(q)
    BY <1>4, EndedKeeps DEF StartOAuth
  <2>3. \A z \in States : state[z] # "unissued" => state'[z] = state[z]
    BY <2>1 DEF TypeOK
  <2> QED BY <2>2, <2>3 DEF TicketsHold, OneRedemption, Keeps, Redeeming
<1>5. ASSUME NEW s \in States, ExpireState(s) PROVE Goal
  BY <1>5 DEF ExpireState, TicketsHold, OneRedemption, Redeeming, TypeOK, accessVars
<1>6. ASSUME NEW r \in Requests, SelectState(r) PROVE Goal
  <2>1. CASE Ended(r)
    BY <1>6, <2>1, EndedKeeps, KeepsTickets DEF SelectState
  <2>2. CASE /\ state[work[r].state] \in {"open", "expired"}
             /\ ~StateLocked(work[r].state)
             /\ GoOn(r, "consume") /\ UNCHANGED work
    <3>1. request'[r] = [request[r] EXCEPT !.pc = "consume"] /\ request[r] \in RequestStates
      BY <2>2 DEF GoOn, TypeOK, AccessTypeOK
    <3>2. \A q \in Requests : q # r => request'[q] = request[q]
      BY <2>2 DEF GoOn, TypeOK, AccessTypeOK
    <3>3. request'[r].pc = "consume" /\ request'[r].kind = "callback"
      BY <1>6, <3>1 DEF SelectState, TicketsHold, RequestStates
    <3>4. UNCHANGED <<state, redeemed, work>>
      BY <1>6, <2>2 DEF SelectState
    <3>5. TicketsHold'
      <4>1. \A q \in Requests : request[q].pc = "consume" => work[q].state # work[r].state
        BY <2>2 DEF StateLocked
      <4> QED BY <1>6, <2>2, <3>2, <3>3, <3>4, <4>1 DEF TicketsHold, SelectState
    <3>6. \A q \in Requests : Redeeming(q)' => Redeeming(q)
      BY <3>2, <3>3 DEF Redeeming
    <3> QED BY <3>4, <3>5, <3>6 DEF OneRedemption
  <2> QED BY <1>6, <2>1, <2>2 DEF SelectState
<1>7. ASSUME NEW r \in Requests, ConsumeState(r) \/ ConsumeUnknown(r) PROVE Goal
  <2> DEFINE s == work[r].state
  <2>1. s \in States /\ state[s] \in {"open", "expired"} /\ request[r].kind = "callback"
    BY <1>7 DEF ConsumeState, ConsumeUnknown, TicketsHold
  <2>2. state' = [state EXCEPT ![s] = "consumed"]
    BY <1>7 DEF ConsumeState, ConsumeUnknown
  <2>3. \A z \in States : state'[z] = IF z = s THEN "consumed" ELSE state[z]
    BY <2>1, <2>2 DEF TypeOK
  <2>4. redeemed[s] = 0 /\ \A q \in Requests : Redeeming(q) => work[q].state # s
    BY <2>1 DEF TicketsHold, OneRedemption
  <2>5. \A q \in Requests : q # r =>
          /\ request'[q] = request[q] /\ work'[q] = work[q]
          /\ request[q].pc = "consume" => work[q].state # s
    BY <1>7 DEF ConsumeState, ConsumeUnknown, Ended, Answered, GoOn, TicketsHold,
       TypeOK, AccessTypeOK
  <2>6. CASE Ended(r) /\ UNCHANGED redeemed
    <3>1. request'[r] = NoRequest
      BY <2>6 DEF Ended, Answered, TypeOK, AccessTypeOK
    <3>2. TicketsHold'
      BY <2>3, <2>5, <2>6, <3>1 DEF TicketsHold, NoRequest
    <3>3. \A q \in Requests : Redeeming(q)' => q # r /\ Redeeming(q)
      BY <2>5, <3>1 DEF Redeeming, NoRequest
    <3>4. \A q \in Requests : Redeeming(q) => work[q].state \in States
      BY DEF Redeeming, TicketsHold
    <3>5. \A q \in Requests : Redeeming(q)' =>
            state'[work'[q].state] = "consumed" /\ redeemed'[work'[q].state] = 1
      BY <2>3, <2>5, <2>6, <3>3, <3>4 DEF OneRedemption
    <3>6. \A p, q \in Requests :
            Redeeming(p)' /\ Redeeming(q)' /\ work'[p].state = work'[q].state => p = q
      BY <2>5, <3>3 DEF OneRedemption
    <3>7. \A z \in States : redeemed'[z] <= 1
      BY <2>6 DEF OneRedemption
    <3> QED BY <3>2, <3>5, <3>6, <3>7 DEF OneRedemption
  <2>7. CASE redeemed' = [redeemed EXCEPT ![s] = @ + 1] /\ GoOn(r, "config") /\ UNCHANGED work
    <3>1. /\ request[r] \in RequestStates
          /\ request'[r] = [request[r] EXCEPT !.pc = "config"]
      BY <2>7 DEF GoOn, TypeOK, AccessTypeOK
    <3>2. request'[r].pc = "config" /\ request'[r].kind = "callback"
      BY <2>1, <3>1 DEF RequestStates
    <3>3. \A z \in States : redeemed'[z] = IF z = s THEN 1 ELSE redeemed[z]
      BY <2>1, <2>4, <2>7 DEF TypeOK
    <3>4. TicketsHold'
      BY <2>1, <2>3, <2>5, <2>7, <3>2, <3>3 DEF TicketsHold
    <3>5. \A q \in Requests : q # r /\ Redeeming(q)' => Redeeming(q)
      BY <2>5 DEF Redeeming
    <3>6. \A q \in Requests : Redeeming(q) => work[q].state \in States
      BY DEF Redeeming, TicketsHold
    <3>7. \A q \in Requests : Redeeming(q)' =>
            state'[work'[q].state] = "consumed" /\ redeemed'[work'[q].state] = 1
      BY <2>1, <2>3, <2>4, <2>5, <2>7, <3>3, <3>5, <3>6 DEF OneRedemption
    <3>8. \A p, q \in Requests :
            Redeeming(p)' /\ Redeeming(q)' /\ work'[p].state = work'[q].state => p = q
      BY <2>4, <2>7, <3>5 DEF OneRedemption
    <3>9. \A z \in States : redeemed'[z] <= 1
      BY <3>3 DEF OneRedemption
    <3> QED BY <3>4, <3>7, <3>8, <3>9 DEF OneRedemption
  <2> QED BY <1>7, <2>6, <2>7 DEF ConsumeState, ConsumeUnknown
<1>8. ASSUME AccessNext, UNCHANGED <<row, importVars>> PROVE Goal
  <2>1. UNCHANGED <<state, redeemed, work>>
    BY <1>8 DEF importVars
  <2>2. UNCHANGED request \/ \E r \in Requests : Comes(r) \/ Answered(r) \/ LookUp(r)
    BY <1>8, AccessMoves
  <2> QED BY <1>2, <1>3, <2>1, <2>2
<1>9. ASSUME NEW r \in Requests, ServiceStep(r), UNCHANGED importVars PROVE Goal
  <2>1. Answered(r) /\ UNCHANGED <<state, redeemed, work>>
    BY <1>9 DEF ServiceStep, CreateService, UpdateService, DeleteService, importVars
  <2> QED BY <1>2, <2>1
<1>10. CASE UNCHANGED vars
  BY <1>3, <1>10 DEF vars, accessVars, importVars
<1> QED
  BY <1>1, <1>4, <1>5, <1>6, <1>7, <1>8, <1>9, <1>10 DEF Next, ImportStep

-----------------------------------------------------------------------------
\* Spec => []ImportInv: for every number of everything, with every failure.
THEOREM ImportInvariant == Spec => []ImportInv
<1>1. Init => ImportInv
  <2> SUFFICES ASSUME Init PROVE ImportInv
    OBVIOUS
  <2>1. \A r \in Requests : request[r] = NoRequest
    BY DEF Init, AccessInit
  <2>2. CredentialsHold /\ DeadStaysOut /\ Numbered
    BY <2>1 DEF CredentialsHold, DeadStaysOut, Admitted, Numbered, NoRequest, SessionKinds,
       TokenKinds
  <2>3. TicketsHold /\ OneRedemption
    BY <2>1 DEF TicketsHold, OneRedemption, Redeeming, NoRequest, Init
  <2>4. RowsValid
    BY DEF RowsValid, Init, RegistryInit
  <2> QED BY <2>2, <2>3, <2>4, InitTyped DEF ImportInv
<1>2. ImportInv /\ [Next]_vars => ImportInv'
  BY TypeStep, CredentialsStep, TicketsStep, RowsStep, NumberedStep DEF ImportInv
<1> QED
  BY <1>1, <1>2, PTL DEF Spec

\* Spec => []OneRedemption: a state is good for one import.
THEOREM Redemption == Spec => []OneRedemption
<1>1. ImportInv => OneRedemption
  BY DEF ImportInv
<1> QED BY <1>1, ImportInvariant, PTL

\* Spec => []DeadStaysOut: a dead credential is never admitted.
THEOREM DeadCredentials == Spec => []DeadStaysOut
<1>1. ImportInv => DeadStaysOut
  BY DEF ImportInv
<1> QED BY <1>1, ImportInvariant, PTL

\* Spec => []LoadedIsValid: the service an import loads is one, and valid.
THEOREM LoadedService == Spec => []LoadedIsValid
<1>1. ImportInv => LoadedIsValid
  BY RowsLoadValid DEF ImportInv
<1> QED BY <1>1, ImportInvariant, PTL

\* Spec => []NeverOutlives: a wrap-around only shortens the life of a token.
THEOREM ShortLives == Spec => []NeverOutlives
<1>1. Init => NeverOutlives
  BY DEF Init, AccessInit, NeverOutlives
<1>2. ASSUME TypeOK, NeverOutlives, [Next]_vars PROVE NeverOutlives'
  <2>1. CASE UNCHANGED granted
    BY <1>2, <2>1, Zenon DEF NeverOutlives
  <2>2. ASSUME NEW r \in Requests, CreateToken(r) PROVE NeverOutlives'
    <3>1. PICK t \in Tokens : CreatesToken(r, t)
      BY <2>2 DEF CreateToken
    <3>2. ASSUME NEW days \in Days, Accepts(days),
                 granted' = [granted EXCEPT ![t] = [days |-> days, life |-> Wrap(days * Day)]]
          PROVE  NeverOutlives'
      <4>1. days * Day \in Nat
        BY <3>2 DEF Accepts
      <4>2. Wrap(days * Day) <= days * Day
        BY <4>1, WrapBound
      <4>3. granted'[t] = [days |-> days, life |-> Wrap(days * Day)]
        BY <1>2, <3>2 DEF TypeOK, AccessTypeOK
      <4>4. granted'[t].life <= granted'[t].days * Day
        BY <4>2, <4>3
      <4>5. \A z \in Tokens : z # t => granted'[z] = granted[z]
        BY <1>2, <3>2 DEF TypeOK, AccessTypeOK
      <4> QED BY <1>2, <4>4, <4>5, Zenon DEF NeverOutlives
    <3> QED BY <2>1, <3>1, <3>2 DEF CreatesToken
  <2>3. ASSUME NEW r \in Requests, ServiceStep(r) PROVE UNCHANGED granted
    BY <2>3 DEF ServiceStep, CreateService, UpdateService, DeleteService
  <2>4. ASSUME NEW r \in Requests, Callback(r) \/ ImportStep(r) PROVE UNCHANGED granted
    BY <2>4 DEF Callback, ImportStep, StartOAuth, SelectState, ConsumeState, ConsumeUnknown,
       StartImport, LoadConfiguration, ExchangeCode, ExchangeToken, AskPages, PageAnswer,
       UpsertPage, CommitImport, Fail, Unlink, restVars
  <2>5. ASSUME AccessNext PROVE UNCHANGED granted \/ \E r \in Requests : CreateToken(r)
    BY <2>5 DEF AccessNext, AccessStep, Register, Login, Arrive, CreateSession,
       CreateSessionFails, LookUp, Logout, DeleteToken, Refuse, Expire
  <2>6. ASSUME (\E z \in States : ExpireState(z)) \/ UNCHANGED vars PROVE UNCHANGED granted
    BY <2>6 DEF ExpireState, vars, accessVars
  <2>7. UNCHANGED granted \/ \E r \in Requests : CreateToken(r)
    BY <1>2, <2>3, <2>4, <2>5, <2>6 DEF Next
  <2> QED BY <2>1, <2>2, <2>7
<1>3. ImportInv => TypeOK
  BY DEF ImportInv
<1> QED
  BY <1>1, <1>2, <1>3, ImportInvariant, PTL DEF Spec

-----------------------------------------------------------------------------
\* Where requests come from and go to outside of a transaction nothing is offered.
LEMMA NoOfferMoved ==
  ASSUME TypeOK, NEW r \in Requests, request[r].pc # "upsert", request'[r].pc # "upsert",
         \A q \in Requests : q # r => request'[q] = request[q] /\ work'[q] = work[q]
  PROVE  UNCHANGED offerBar
BY DEF offerBar

LEMMA OfferDropped ==
  ASSUME TypeOK, NEW r \in Requests, Ended(r)
  PROVE  offerBar' = [offerBar EXCEPT ![r] = Contract!NoOffer]
<1>1. /\ request'[r].pc = "idle"
      /\ \A q \in Requests : q # r => request'[q] = request[q] /\ work'[q] = work[q]
  BY DEF Ended, Answered, NoRequest, TypeOK, AccessTypeOK
<1> QED
  BY <1>1 DEF offerBar, Contract!NoOffer

\* Writing a page moves it from one part of the offer to the other.
LEMMA UpsertStutters ==
  ASSUME TypeOK, NEW r \in Requests, UpsertPage(r)
  PROVE  UNCHANGED offerBar
<1> DEFINE s == work[r].todo
<1>1. work[r] \in Work /\ s \in Seq(Pages) /\ s # <<>>
  BY DEF TypeOK, Work, UpsertPage
<1>2. /\ work'[r].todo = Tail(s) /\ work'[r].wrote = work[r].wrote \cup {Head(s)}
      /\ \A q \in Requests : q # r => work'[q] = work[q]
      /\ UNCHANGED request
  BY <1>1 DEF UpsertPage, TypeOK, Work
<1>3. ToSet(s) = {Head(s)} \cup ToSet(Tail(s))
  <2> HIDE DEF s
  <2>1. Head(s) = s[1] /\ 1 \in 1..Len(s) /\ DOMAIN s = 1..Len(s)
    BY <1>1
  <2>2. /\ DOMAIN Tail(s) = 1..(Len(s) - 1)
        /\ \A i \in 1..(Len(s) - 1) : Tail(s)[i] = s[i + 1]
    BY <1>1
  <2>3. \A i \in 1..Len(s) : i = 1 \/ (i - 1 \in 1..(Len(s) - 1) /\ s[i] = Tail(s)[i - 1])
    BY <1>1, <2>2
  <2>4. \A i \in 1..(Len(s) - 1) : i + 1 \in 1..Len(s)
    BY <1>1
  <2>5. ToSet(s) \subseteq {Head(s)} \cup ToSet(Tail(s))
    <3> SUFFICES ASSUME NEW i \in 1..Len(s)
                 PROVE  s[i] \in {Head(s)} \cup ToSet(Tail(s))
      BY <2>1 DEF ToSet
    <3>1. CASE i = 1
      BY <2>1, <3>1
    <3>2. CASE i # 1
      <4>1. i - 1 \in DOMAIN Tail(s) /\ s[i] = Tail(s)[i - 1]
        BY <2>2, <2>3, <3>2
      <4> QED BY <4>1 DEF ToSet
    <3> QED BY <3>1, <3>2
  <2>6. {Head(s)} \cup ToSet(Tail(s)) \subseteq ToSet(s)
    BY <2>1, <2>2, <2>4 DEF ToSet
  <2> QED BY <2>5, <2>6
<1> QED
  BY <1>2, <1>3 DEF offerBar

LEMMA ContractStep ==
  ASSUME ImportInv, [Next]_vars
  PROVE  [Contract!Next]_(Contract!vars)
<1> USE DEF Contract!vars
<1>0. TypeOK /\ TicketsHold /\ Numbered
  BY DEF ImportInv
<1>1. ASSUME UNCHANGED <<account, offerBar>> PROVE UNCHANGED Contract!vars
  BY <1>1
<1>2. ASSUME NEW r \in Requests, Ended(r), UNCHANGED account PROVE Contract!Next
  BY <1>0, <1>2, OfferDropped DEF Contract!Next, Contract!Drop
<1>3. ASSUME NEW r \in Requests, CommitImport(r) PROVE Contract!Next
  <2>1. offerBar[r] = [number |-> request[r].number, pages |-> work[r].wrote]
    <3>1. ToSet(work[r].todo) = {}
      BY <1>3 DEF CommitImport, ToSet
    <3> QED BY <1>3, <3>1 DEF CommitImport, offerBar
  <2>2. request[r].number # 0
    BY <1>0, <1>3 DEF Numbered, CommitImport
  <2>3. offerBar' = [offerBar EXCEPT ![r] = Contract!NoOffer]
    BY <1>0, <1>3, OfferDropped DEF CommitImport
  <2>4. account' = [g \in Pages |-> IF g \in work[r].wrote THEN request[r].number
                                   ELSE account[g]]
    BY <1>3 DEF CommitImport
  <2>5. offerBar[r] # Contract!NoOffer
    BY <2>1, <2>2 DEF Contract!NoOffer
  <2>6. account' = [g \in Pages |-> IF g \in offerBar[r].pages THEN offerBar[r].number
                                   ELSE account[g]]
    BY <2>1, <2>4
  <2> QED BY <2>3, <2>5, <2>6 DEF Contract!Next, Contract!Import
<1>4. ASSUME NEW r \in Requests, PageAnswer(r) PROVE [Contract!Next]_(Contract!vars)
  <2>1. \A q \in Requests : q # r => request'[q] = request[q] /\ work'[q] = work[q]
    <3>1. PICK todo \in Seq(Pages), answers \in 0..(PageCap - 1), pc \in {"list", "upsert"} :
            Lists(r, todo, answers, pc)
      BY <1>0, <1>4, AnswerEffect
    <3> QED BY <1>0, <3>1 DEF Lists, GoOn, TypeOK, AccessTypeOK
  <2>2. request[r].pc = "answer" /\ UNCHANGED account
    BY <1>4 DEF PageAnswer
  <2>3. CASE request'[r].pc # "upsert"
    BY <1>0, <2>1, <2>2, <2>3, NoOfferMoved
  <2>4. CASE request'[r].pc = "upsert"
    <3> DEFINE pages == work'[r].wrote \cup ToSet(work'[r].todo)
    <3>1. pages \in SUBSET Pages
      BY <1>0, <1>4, AnswerTyped
    <3>2. request'[r].number = request[r].number /\ request[r].number \in 1..MaxRequests
      BY <1>0, <1>4 DEF PageAnswer, GoOn, TypeOK, AccessTypeOK, RequestStates, Numbered
    <3>3. offerBar[r] = Contract!NoOffer
      BY <2>2 DEF offerBar, Contract!NoOffer
    <3>4. offerBar' = [offerBar EXCEPT ![r] = [number |-> request[r].number, pages |-> pages]]
      BY <2>1, <2>4, <3>2 DEF offerBar
    <3> HIDE DEF pages
    <3> QED BY <2>2, <3>1, <3>2, <3>3, <3>4 DEF Contract!Next, Contract!Listed
  <2> QED BY <2>3, <2>4
<1>5. ASSUME NEW r \in Requests, Unlink(r) PROVE Contract!Next
  <2>1. PICK g \in Pages : account' = [account EXCEPT ![g] = 0]
    BY <1>5 DEF Unlink
  <2>2. offerBar' = [offerBar EXCEPT ![r] = Contract!NoOffer]
    BY <1>0, <1>5, OfferDropped DEF Unlink
  <2>3. offerBar[r] = Contract!NoOffer
    BY <1>5 DEF Unlink, At, offerBar, Contract!NoOffer
  <2>4. UNCHANGED offerBar
    BY <2>2, <2>3 DEF offerBar
  <2> QED BY <2>1, <2>4 DEF Contract!Next, Contract!Unlink
<1>6. ASSUME NEW r \in Requests, StartOAuth(r) \/ Fail(r) PROVE Contract!Next
  BY <1>2, <1>6 DEF StartOAuth, Fail
<1>7. ASSUME NEW r \in Requests, SelectState(r) \/ ConsumeState(r) \/ ConsumeUnknown(r)
      PROVE  [Contract!Next]_(Contract!vars)
  <2>1. UNCHANGED account
    BY <1>7 DEF SelectState, ConsumeState, ConsumeUnknown
  <2>2. CASE Ended(r)
    BY <1>2, <2>1, <2>2
  <2>3. ASSUME NEW pc \in {"consume", "config"}, GoOn(r, pc), UNCHANGED work
        PROVE  UNCHANGED offerBar
    <3>1. request'[r].pc = pc /\ \A q \in Requests : q # r => request'[q] = request[q]
      BY <1>0, <2>3 DEF GoOn, TypeOK, AccessTypeOK, RequestStates
    <3>2. request[r].pc # "upsert"
      BY <1>7 DEF SelectState, ConsumeState, ConsumeUnknown
    <3> QED BY <1>0, <2>3, <3>1, <3>2, NoOfferMoved
  <2> QED BY <1>7, <2>1, <2>2, <2>3 DEF SelectState, ConsumeState, ConsumeUnknown
<1>8. ASSUME NEW r \in Requests,
             StartImport(r) \/ LoadConfiguration(r) \/ ExchangeCode(r) \/ ExchangeToken(r)
               \/ AskPages(r)
      PROVE  UNCHANGED Contract!vars
  <2>1. UNCHANGED <<account, work>>
    BY <1>8 DEF StartImport, LoadConfiguration, ExchangeCode, ExchangeToken, AskPages, importVars
  <2>2. PICK pc \in {"config", "code", "exchange", "list", "answer"} : GoOn(r, pc)
    BY <1>8 DEF StartImport, LoadConfiguration, ExchangeCode, ExchangeToken, AskPages
  <2>3. request[r].pc # "upsert"
    BY <1>8 DEF StartImport, LoadConfiguration, ExchangeCode, ExchangeToken, AskPages, At
  <2>4. request'[r].pc = pc /\ \A q \in Requests : q # r => request'[q] = request[q]
    BY <1>0, <2>2 DEF GoOn, TypeOK, AccessTypeOK, RequestStates
  <2> QED BY <1>0, <2>1, <2>3, <2>4, NoOfferMoved
<1>9. ASSUME NEW r \in Requests, UpsertPage(r) PROVE UNCHANGED Contract!vars
  BY <1>0, <1>9, UpsertStutters DEF UpsertPage
<1>10. ASSUME NEW r \in Requests, Callback(r) PROVE UNCHANGED Contract!vars
  <2>1. /\ request[r].pc # "upsert" /\ request'[r].pc # "upsert"
        /\ \A q \in Requests : q # r => request'[q] = request[q] /\ work'[q] = work[q]
    BY <1>0, <1>10 DEF Callback, Arrives, NoRequest, TypeOK, AccessTypeOK
  <2> QED BY <1>0, <1>10, <2>1, NoOfferMoved DEF Callback
<1>11. ASSUME UNCHANGED importVars, UNCHANGED request \/ \E r \in Requests :
                request[r].pc # "upsert" /\ request'[r].pc # "upsert"
                /\ \A q \in Requests : q # r => request'[q] = request[q]
       PROVE  UNCHANGED Contract!vars
  BY <1>0, <1>11, NoOfferMoved DEF importVars, offerBar
<1>12. ASSUME NEW r \in Requests, ServiceStep(r) \/ AccessStep(r)
       PROVE  /\ request[r].pc # "upsert" /\ request'[r].pc # "upsert"
              /\ \A q \in Requests : q # r => request'[q] = request[q]
  <2>1. request[r].pc # "upsert" /\ (Answered(r) \/ LookUp(r))
    BY <1>12 DEF ServiceStep, CreateService, UpdateService, DeleteService, AccessStep,
       CreateSession, CreateSessionFails, LookUp, Logout, CreateToken, DeleteToken, Refuse, At
  <2>2. CASE Answered(r)
    BY <1>0, <2>1, <2>2 DEF Answered, NoRequest, TypeOK, AccessTypeOK
  <2>3. CASE request' = [request EXCEPT ![r] = [@ EXCEPT !.pc = "serve",
                                                        !.user = owner[request[r].cred]]]
    BY <1>0, <2>1, <2>3 DEF TypeOK, AccessTypeOK, RequestStates
  <2> QED BY <2>1, <2>2, <2>3 DEF LookUp
<1>13. ASSUME NEW r \in Requests, Register(r) \/ Login(r) \/ Arrive(r)
       PROVE  /\ request[r].pc # "upsert" /\ request'[r].pc # "upsert"
              /\ \A q \in Requests : q # r => request'[q] = request[q]
  BY <1>0, <1>13 DEF Register, Login, Arrive, Arrives, NoRequest, TypeOK, AccessTypeOK
<1>14. ASSUME NEW c \in Credentials, Expire(c) PROVE UNCHANGED request
  BY <1>14 DEF Expire
<1>15. ASSUME (\E s \in States : ExpireState(s)) \/ UNCHANGED vars
       PROVE  UNCHANGED Contract!vars
  BY <1>15 DEF ExpireState, vars, accessVars, importVars, offerBar
<1>16. ASSUME AccessNext, UNCHANGED <<row, importVars>> PROVE UNCHANGED Contract!vars
  BY <1>11, <1>12, <1>13, <1>14, <1>16 DEF AccessNext
<1>17. ASSUME NEW r \in Requests, ServiceStep(r), UNCHANGED importVars
       PROVE  UNCHANGED Contract!vars
  BY <1>11, <1>12, <1>17
<1>18. ASSUME NEW r \in Requests, Callback(r) \/ ImportStep(r)
       PROVE  [Contract!Next]_(Contract!vars)
  BY <1>3, <1>4, <1>5, <1>6, <1>7, <1>8, <1>9, <1>10, <1>18 DEF ImportStep
<1> QED
  BY <1>15, <1>16, <1>17, <1>18 DEF Next

\* Spec => ImplementsImportContract: an import is all or nothing.
THEOREM ImportRefinement == Spec => ImplementsImportContract
<1>1. Init => Contract!Init
  BY DEF Init, AccessInit, NoRequest, Contract!Init, Contract!NoOffer, offerBar
<1>2. ImportInv /\ [Next]_vars => [Contract!Next]_(Contract!vars)
  BY ContractStep
<1> QED
  BY <1>1, <1>2, ImportInvariant, PTL DEF Spec, ImplementsImportContract, Contract!Spec
=============================================================================
