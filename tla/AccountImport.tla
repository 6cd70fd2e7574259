--------------------------- MODULE AccountImport ---------------------------
(***************************************************************************)
(* facebook_handlers.go and facebook_graph.go: linking Facebook pages as   *)
(* accounts.  An authenticated request starts an authorization and gets a  *)
(* one-time state; Facebook sends the browser back to the callback, which  *)
(* anybody may call and which trusts the state alone: it consumes it,      *)
(* exchanges the code twice for a user token, lists the pages of the user  *)
(* and imports them in one transaction.  A request that brings a user      *)
(* token of its own skips the state and the code.                          *)
(***************************************************************************)
EXTENDS ServiceRegistry, Sequences, SequencesExt

CONSTANTS
  States,     \* the random values createOAuthState may draw
  Pages,      \* Facebook pages, by their ids
  PageCap,    \* after so many answers ListManagedPages stops asking
  NoState

ASSUME ImportAssumption ==
  /\ NoState \notin States
  /\ PageCap \in Nat \ {0}

VARIABLES
  state,     \* state[s]: "unissued", "open", "expired" or "consumed"
  redeemed,  \* redeemed[s]: how many callbacks went on with state s (history)
  account,   \* account[g]: 0, or the number of the request whose token g has
  work       \* work[r]: what the import r is at

importVars == <<state, redeemed, account, work>>
vars == <<accessVars, row, importVars>>

(***************************************************************************)
(* The state the callback has brought; the pages with a token that were    *)
(* listed and not written yet; the answers of Facebook so far; the pages   *)
(* written but not committed.                                              *)
(***************************************************************************)
Work == [state: States \cup {NoState}, todo: Seq(Pages), answers: 0..(PageCap - 1),
         wrote: SUBSET Pages]

NoWork == [state |-> NoState, todo |-> <<>>, answers |-> 0, wrote |-> {}]

TypeOK ==
  /\ AccessTypeOK
  /\ RegistryTypeOK
  /\ state \in [States -> {"unissued", "open", "expired", "consumed"}]
  /\ redeemed \in [States -> Nat]
  /\ account \in [Pages -> 0..MaxRequests]
  /\ work \in [Requests -> Work]

Init ==
  /\ AccessInit
  /\ RegistryInit
  /\ state = [s \in States |-> "unissued"]
  /\ redeemed = [s \in States |-> 0]
  /\ account = [g \in Pages |-> 0]
  /\ work = [r \in Requests |-> NoWork]

restVars == <<users, credential, owner, granted, arrivals, row>>

\* Request r has its answer; an open transaction of r is rolled back.
Ended(r) ==
  /\ Answered(r)
  /\ work' = [work EXCEPT ![r] = NoWork]

-----------------------------------------------------------------------------
(***************************************************************************)
(* handleStartFacebookOAuth: with an active, valid configuration that has  *)
(* a redirect_uri a state is drawn for the user.                           *)
(***************************************************************************)
StartOAuth(r) ==
  /\ At(r, "start", "serve")
  /\ \E c \in LoadedConfigurations("facebook") : Valid("facebook", c, TRUE) /\ c.redirect
  /\ \E s \in States :
       /\ state[s] = "unissued"
       /\ state' = [state EXCEPT ![s] = "open"]
  /\ Ended(r)
  /\ UNCHANGED <<restVars, redeemed, account>>

ExpireState(s) ==
  /\ state[s] = "open"
  /\ state' = [state EXCEPT ![s] = "expired"]
  /\ UNCHANGED <<accessVars, row, redeemed, account, work>>

\* The callback is called with a state and a code; again, if someone does.
Callback(r) ==
  /\ Arrives(r, "callback", "select", NoCredential, Nobody, FALSE)
  /\ \E s \in States :
       /\ state[s] # "unissued"
       /\ work' = [work EXCEPT ![r] = [work[r] EXCEPT !.state = s]]
  /\ UNCHANGED <<users, credential, owner, granted, row, state, redeemed, account>>

\* Mutant of StateLocked: FOR UPDATE is missing.
StateNeverLocked(s) == FALSE

\* Another callback holds the lock of the row of state s.
StateLocked(s) == \E q \in Requests : request[q].pc = "consume" /\ work[q].state = s

(***************************************************************************)
(* SELECT ... FOR UPDATE of consumeOAuthState: it waits for a callback     *)
(* that holds the row and then looks at consumed_at as it is now.          *)
(***************************************************************************)
SelectState(r) ==
  /\ request[r].pc = "select"
  /\ \/ /\ state[work[r].state] \in {"open", "expired"}
        /\ ~StateLocked(work[r].state)
        /\ GoOn(r, "consume") /\ UNCHANGED work
     \/ state[work[r].state] = "consumed" /\ Ended(r)
  /\ UNCHANGED <<restVars, state, redeemed, account>>

\* The state is consumed either way; an expired one ends the request.
ConsumeState(r) ==
  /\ request[r].pc = "consume"
  /\ LET s == work[r].state
     IN  /\ state' = [state EXCEPT ![s] = "consumed"]
         /\ \/ /\ state[s] = "expired"
               /\ Ended(r) /\ UNCHANGED redeemed
            \/ /\ state[s] # "expired"
               /\ redeemed' = [redeemed EXCEPT ![s] = @ + 1]
               /\ GoOn(r, "config") /\ UNCHANGED work
  /\ UNCHANGED <<restVars, account>>

\* COMMIT is applied but the callback is told it failed: 500.
ConsumeUnknown(r) ==
  /\ "db" \in Failures
  /\ request[r].pc = "consume"
  /\ state' = [state EXCEPT ![work[r].state] = "consumed"]
  /\ Ended(r)
  /\ UNCHANGED <<restVars, redeemed, account>>

-----------------------------------------------------------------------------
\* handleImportFacebookPages begins.
StartImport(r) ==
  /\ At(r, "import", "serve")
  /\ GoOn(r, "config")
  /\ UNCHANGED <<restVars, importVars>>

\* A callback goes on to exchange its code, the other its token, if it wants.
LoadConfiguration(r) ==
  /\ request[r].pc = "config"
  /\ \E c \in LoadedConfigurations("facebook") : Valid("facebook", c, TRUE)
  /\ \/ request[r].kind = "callback" /\ GoOn(r, "code")
     \/ request[r].kind = "import" /\ (GoOn(r, "exchange") \/ GoOn(r, "list"))
  /\ UNCHANGED <<restVars, importVars>>

\* ExchangeAuthorizationCode
ExchangeCode(r) ==
  /\ request[r].pc = "code"
  /\ GoOn(r, "exchange")
  /\ UNCHANGED <<restVars, importVars>>

\* ExchangeUserAccessToken
ExchangeToken(r) ==
  /\ request[r].pc = "exchange"
  /\ GoOn(r, "list")
  /\ UNCHANGED <<restVars, importVars>>

\* ListManagedPages sends the request for the next answer.
AskPages(r) ==
  /\ request[r].pc = "list"
  /\ GoOn(r, "answer")
  /\ UNCHANGED <<restVars, importVars>>

\* Mutant of NextAnswer: the loop counter stands still.
SameAnswer(n) == n

NextAnswer(n) == n + 1

\* Mutant of AsksAgain: one answer too many.
AsksOnceMore(n) == n <= PageCap

AsksAgain(n) == n < PageCap

(***************************************************************************)
(* An answer of Facebook in the loop of ListManagedPages: it adds a page,  *)
(* or none that has an id and a token, and names a next one or not.  The   *)
(* loop ends without a next one, or silently after PageCap answers.        *)
(***************************************************************************)
PageAnswer(r) ==
  /\ request[r].pc = "answer"
  /\ LET n == NextAnswer(work[r].answers)
     IN  \E more \in {<<>>} \cup {<<g>> : g \in Pages \ ToSet(work[r].todo)} :
           \/ /\ AsksAgain(n)
              /\ work' = [work EXCEPT ![r] = [work[r] EXCEPT !.todo = @ \o more, !.answers = n]]
              /\ GoOn(r, "list")
           \/ /\ work' = [work EXCEPT ![r] = [work[r] EXCEPT !.todo = @ \o more, !.answers = 0]]
              /\ GoOn(r, "upsert")
  /\ UNCHANGED <<restVars, state, redeemed, account>>

-----------------------------------------------------------------------------
\* An open import of another request has written page g: its row is locked.
PageLocked(r, g) ==
  \E q \in Requests \ {r} : request[q].pc = "upsert" /\ g \in work[q].wrote

\* Mutant of UpsertPage: it runs outside the transaction and takes effect at once.
UpsertPageAtOnce(r) ==
  /\ request[r].pc = "upsert"
  /\ work[r].todo # <<>>
  /\ LET g == Head(work[r].todo)
     IN  /\ ~PageLocked(r, g)
         /\ account' = [account EXCEPT ![g] = request[r].number]
         /\ work' = [work EXCEPT ![r] = [work[r] EXCEPT !.todo = Tail(@), !.wrote = @ \cup {g}]]
  /\ UNCHANGED <<restVars, request, state, redeemed>>

\* INSERT ... ON CONFLICT DO UPDATE of the next page: it waits for the row.
UpsertPage(r) ==
  /\ request[r].pc = "upsert"
  /\ work[r].todo # <<>>
  /\ LET g == Head(work[r].todo)
     IN  /\ ~PageLocked(r, g)
         /\ work' = [work EXCEPT ![r] = [work[r] EXCEPT !.todo = Tail(@), !.wrote = @ \cup {g}]]
  /\ UNCHANGED <<restVars, request, state, redeemed, account>>

CommitImport(r) ==
  /\ request[r].pc = "upsert"
  /\ work[r].todo = <<>>
  /\ account' = [g \in Pages |-> IF g \in work[r].wrote THEN request[r].number
                                 ELSE account[g]]
  /\ Ended(r)
  /\ UNCHANGED <<restVars, state, redeemed>>

(***************************************************************************)
(* The request ends with an error: no usable configuration, an answer of   *)
(* Facebook that is an error or does not come, a statement or COMMIT that  *)
(* fails, the deadline of the request while it waits for a row, or         *)
(* Postgres choosing it as the victim of a deadlock between two imports.   *)
(***************************************************************************)
Fail(r) ==
  /\ request[r].pc \in {"select", "consume", "config", "code", "exchange", "list",
                        "answer", "upsert"}
  /\ Ended(r)
  /\ UNCHANGED <<restVars, state, redeemed, account>>

\* DELETE of the account of page g.
Unlink(r) ==
  /\ At(r, "unlink", "serve")
  /\ \E g \in Pages :
       /\ account[g] # 0 /\ ~PageLocked(r, g)
       /\ account' = [account EXCEPT ![g] = 0]
  /\ Ended(r)
  /\ UNCHANGED <<restVars, state, redeemed>>

-----------------------------------------------------------------------------
ImportStep(r) ==
  \/ StartOAuth(r)
  \/ SelectState(r) \/ ConsumeState(r) \/ ConsumeUnknown(r)
  \/ StartImport(r) \/ LoadConfiguration(r)
  \/ ExchangeCode(r) \/ ExchangeToken(r) \/ AskPages(r) \/ PageAnswer(r)
  \/ UpsertPage(r) \/ CommitImport(r)
  \/ Fail(r)
  \/ Unlink(r)

\* The steps of a request once it is there.
RequestStep(r) ==
  \/ AccessStep(r) /\ UNCHANGED <<row, importVars>>
  \/ ServiceStep(r) /\ UNCHANGED importVars
  \/ ImportStep(r)

Next ==
  \/ AccessNext /\ UNCHANGED <<row, importVars>>
  \/ \E r \in Requests : ServiceStep(r) /\ UNCHANGED importVars
  \/ \E r \in Requests : Callback(r) \/ ImportStep(r)
  \/ \E s \in States : ExpireState(s)

Spec == Init /\ [][Next]_vars

(***************************************************************************)
(* A goroutine runs on until it has answered: every statement and every    *)
(* call of Facebook returns, if only because the deadline of the request   *)
(* has passed.                                                             *)
(***************************************************************************)
Fairness == \A r \in Requests : WF_vars(RequestStep(r))

-----------------------------------------------------------------------------
\* Callback r has consumed its state and is on its way to import pages.
Redeeming(r) ==
  /\ request[r].kind = "callback"
  /\ request[r].pc \in {"config", "code", "exchange", "list", "answer", "upsert"}

(***************************************************************************)
(* An authorization is good for one import: of all callbacks that bring    *)
(* the same state, however they overlap and whether or not the import      *)
(* succeeds, at most one goes on with it, and it has consumed the state.   *)
(***************************************************************************)
OneRedemption ==
  /\ \A s \in States : redeemed[s] <= 1
  /\ \A r \in Requests : Redeeming(r) =>
       /\ state[work[r].state] = "consumed"
       /\ redeemed[work[r].state] = 1
  /\ \A q, r \in Requests :
       Redeeming(q) /\ Redeeming(r) /\ work[q].state = work[r].state => q = r

(***************************************************************************)
(* What the properties rest on.  A request that presents a credential      *)
(* presents an issued one, still dead if it was dead on arrival.           *)
(***************************************************************************)
CredentialsHold ==
  \A r \in Requests :
    /\ request[r].pc = "lookup" => request[r].kind \in SessionKinds \cup TokenKinds
    /\ request[r].kind \in SessionKinds \cup TokenKinds =>
         /\ request[r].cred \in Credentials
         /\ credential[request[r].cred] # "unissued"
         /\ request[r].dead => credential[request[r].cred] # "live"

(***************************************************************************)
(* A callback has a state; it holds the row of one not yet consumed, alone,*)
(* while it consumes it, and no state is redeemed but a consumed one.      *)
(***************************************************************************)
TicketsHold ==
  /\ \A r \in Requests :
       /\ request[r].kind = "callback" => work[r].state \in States
       /\ request[r].pc \in {"select", "consume"} => request[r].kind = "callback"
       /\ request[r].pc = "consume" => state[work[r].state] \in {"open", "expired"}
  /\ \A q, r \in Requests :
       request[q].pc = "consume" /\ request[r].pc = "consume" /\ work[q].state = work[r].state
         => q = r
  /\ \A s \in States : redeemed[s] # 0 => state[s] = "consumed"

(***************************************************************************)
(* Every row of services obeys the rules of its name, which is its own.    *)
(***************************************************************************)
RowsValid ==
  /\ \A i \in ServiceIds : row[i] # NoRow => Valid(row[i].name, row[i].config, row[i].active)
  /\ \A i, j \in ServiceIds : row[i].name = row[j].name /\ row[i] # NoRow => i = j

\* A request that is under way has its number.
Numbered == \A r \in Requests : request[r].pc # "idle" => request[r].number # 0

(***************************************************************************)
(* The inductive invariant: the types, and that credentials, states,       *)
(* services and numbers are used as the handlers rely on.                  *)
(***************************************************************************)
ImportInv ==
  /\ TypeOK
  /\ CredentialsHold
  /\ DeadStaysOut
  /\ TicketsHold
  /\ OneRedemption
  /\ RowsValid
  /\ Numbered

(***************************************************************************)
(* An import is all or nothing: the accounts of all pages of the list get  *)
(* their token in one step, or none does, also when imports of the same    *)
(* pages in another order and deletions of accounts overlap.               *)
(***************************************************************************)
offerBar ==
  [r \in Requests |->
     IF request[r].pc = "upsert"
       THEN [number |-> request[r].number, pages |-> work[r].wrote \cup ToSet(work[r].todo)]
       ELSE [number |-> 0, pages |-> {}]]

Contract == INSTANCE ImportContract WITH offer <- offerBar, Imports <- 1..MaxRequests

ImplementsImportContract == Contract!Spec

(***************************************************************************)
(* Every request is answered: the list of pages comes to an end even if    *)
(* Facebook always names a next answer, and imports that wait for each     *)
(* other's rows do not wait for ever.                                      *)
(***************************************************************************)
EveryRequestEnds ==
  \A r \in Requests : request[r].pc # "idle" ~> request[r].pc = "idle"
=============================================================================
