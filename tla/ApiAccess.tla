----------------------------- MODULE ApiAccess -----------------------------
(***************************************************************************)
(* Who the HTTP server serves: users, their sessions and API tokens        *)
(* (auth_handlers.go) and the look-up every protected request starts with  *)
(* (server.go).  A request is a process: it arrives with a credential, is  *)
(* admitted or refused by one SELECT, and its handler runs later, when the *)
(* credential may be gone.  Requests that are refused by their arguments   *)
(* and the ones that only read have no action.                             *)
(***************************************************************************)
EXTENDS Integers, FiniteSets

CONSTANTS
  Users,         \* e-mail addresses
  Sessions,      \* the random values createSession may draw
  Tokens,        \* those of handleCreateAPIToken; none is drawn twice
  Requests,      \* the requests in flight, as goroutines of the server
  Nobody,        \* no user
  NoCredential,  \* the credential of a request that presents none
  Days,          \* values of expires_in_days that clients send
  Day,           \* a day, in units of time.Duration
  HalfRange,     \* durations are at least -HalfRange and less than HalfRange
  Failures,      \* "db": a statement or transaction may fail
  MaxRequests    \* bound: how many requests arrive

Credentials == Sessions \cup Tokens

SessionKinds == {"logout", "createToken", "deleteToken"}
TokenKinds   == {"service", "start", "import", "unlink"}
OpenKinds    == {"register", "login", "callback"}
Kinds        == SessionKinds \cup TokenKinds \cup OpenKinds

ASSUME AccessAssumption ==
  /\ Sessions \cap Tokens = {}
  /\ NoCredential \notin Credentials
  /\ Nobody \notin Users
  /\ Days \subseteq Int
  /\ Day \in Nat \ {0} /\ HalfRange \in Nat \ {0}
  /\ Failures \subseteq {"db"}
  /\ MaxRequests \in Nat

VARIABLES
  users,       \* users with a row
  credential,  \* credential[c]: "unissued", "live", "expired" or "deleted"
  owner,       \* owner[c]: the user_id of a row of user_sessions or api_tokens
  granted,     \* granted[t]: the days asked for token t and its time to live
  arrivals,    \* how many requests have arrived
  request      \* request[r]: where the handling of request r has got to

accessVars == <<users, credential, owner, granted, arrivals, request>>

(***************************************************************************)
(* The steps of a request: the look-up of its credential, the first        *)
(* statement of its handler, createSession, and the steps of an import     *)
(* (AccountImport).  number tells requests apart; dead tells whether the   *)
(* credential was dead already when the request arrived (history).         *)
(***************************************************************************)
RequestSteps == {"idle", "lookup", "serve", "session", "select", "consume", "config",
                 "code", "exchange", "list", "answer", "upsert"}

RequestStates == [pc: RequestSteps, kind: Kinds \cup {"none"},
                  cred: Credentials \cup {NoCredential},
                  user: Users \cup {Nobody}, dead: BOOLEAN, number: 0..MaxRequests]

NoRequest == [pc |-> "idle", kind |-> "none", cred |-> NoCredential,
              user |-> Nobody, dead |-> FALSE, number |-> 0]

AccessTypeOK ==
  /\ users \subseteq Users
  /\ credential \in [Credentials -> {"unissued", "live", "expired", "deleted"}]
  /\ owner \in [Credentials -> Users \cup {Nobody}]
  /\ granted \in [Tokens -> [days: Int, life: Int]]
  /\ arrivals \in 0..MaxRequests
  /\ request \in [Requests -> RequestStates]

AccessInit ==
  /\ users = {}
  /\ credential = [c \in Credentials |-> "unissued"]
  /\ owner = [c \in Credentials |-> Nobody]
  /\ granted = [t \in Tokens |-> [days |-> 0, life |-> 0]]
  /\ arrivals = 0
  /\ request = [r \in Requests |-> NoRequest]

\* A new request r of a kind, at its first step, with what it brings.
Arrives(r, kind, pc, cred, user, dead) ==
  /\ request[r] = NoRequest
  /\ arrivals < MaxRequests
  /\ arrivals' = arrivals + 1
  /\ request' = [request EXCEPT ![r] = [pc |-> pc, kind |-> kind, cred |-> cred,
                                       user |-> user, dead |-> dead, number |-> arrivals']]

Answered(r) == request' = [request EXCEPT ![r] = NoRequest]

At(r, kind, pc) == request[r].kind = kind /\ request[r].pc = pc

\* The handler of request r goes on to step pc.
GoOn(r, pc) == request' = [request EXCEPT ![r] = [@ EXCEPT !.pc = pc]]

-----------------------------------------------------------------------------
\* INSERT INTO users; the session is a statement of its own.
Register(r) ==
  /\ \E u \in Users \ users :
       /\ users' = users \cup {u}
       /\ Arrives(r, "register", "session", NoCredential, u, FALSE)
  /\ UNCHANGED <<credential, owner, granted>>

\* The password of user u was right.
Login(r) ==
  /\ \E u \in users : Arrives(r, "login", "session", NoCredential, u, FALSE)
  /\ UNCHANGED <<users, credential, owner, granted>>

CreateSession(r) ==
  /\ request[r].pc = "session"
  /\ \E c \in Sessions :
       /\ credential[c] = "unissued"
       /\ credential' = [credential EXCEPT ![c] = "live"]
       /\ owner' = [owner EXCEPT ![c] = request[r].user]
  /\ Answered(r)
  /\ UNCHANGED <<users, granted, arrivals>>

\* 500: a user who has registered is left without a session.
CreateSessionFails(r) ==
  /\ "db" \in Failures
  /\ request[r].pc = "session"
  /\ Answered(r)
  /\ UNCHANGED <<users, credential, owner, granted, arrivals>>

\* A request for a protected route, with a cookie or bearer token once issued.
Arrive(r) ==
  /\ \E kind \in SessionKinds \cup TokenKinds, c \in Credentials :
       /\ c \in IF kind \in SessionKinds THEN Sessions ELSE Tokens
       /\ credential[c] # "unissued"
       /\ Arrives(r, kind, "lookup", c, Nobody, credential[c] # "live")
  /\ UNCHANGED <<users, credential, owner, granted>>

\* Mutant of LookUp: expires_at is not compared with NOW().
LookUpIgnoresExpiry(r) ==
  /\ request[r].pc = "lookup"
  /\ \/ /\ credential[request[r].cred] \in {"live", "expired"}
        /\ request' = [request EXCEPT ![r] = [@ EXCEPT !.pc = "serve",
                                                       !.user = owner[request[r].cred]]]
     \/ Answered(r)
  /\ UNCHANGED <<users, credential, owner, granted, arrivals>>

(***************************************************************************)
(* userFromSession and userFromAPITokenHash: the row of a live credential  *)
(* names the user; no such row, or an error, is 401.                       *)
(***************************************************************************)
LookUp(r) ==
  /\ request[r].pc = "lookup"
  /\ LET c == request[r].cred
     IN  \/ /\ credential[c] = "live"
            /\ request' = [request EXCEPT ![r] = [@ EXCEPT !.pc = "serve", !.user = owner[c]]]
         \/ /\ credential[c] # "live" \/ "db" \in Failures
            /\ Answered(r)
  /\ UNCHANGED <<users, credential, owner, granted, arrivals>>

\* A failing DELETE is ignored: the client is told 204 all the same.
Logout(r) ==
  /\ At(r, "logout", "serve")
  /\ \/ credential' = [credential EXCEPT ![request[r].cred] = "deleted"]
     \/ "db" \in Failures /\ UNCHANGED credential
  /\ Answered(r)
  /\ UNCHANGED <<users, owner, granted, arrivals>>

\* time.Duration is a signed 64-bit number of nanoseconds and wraps.
Wrap(n) == ((n + HalfRange) % (2 * HalfRange)) - HalfRange

\* Mutant of Accepts: any number of days.
AcceptsAny(days) == TRUE

\* *req.ExpiresInDays <= 0 is refused.
Accepts(days) == days > 0

\* Token t of the caller; without expires_in_days it never expires (days 0).
CreatesToken(r, t) ==
  /\ credential[t] = "unissued"
  /\ owner' = [owner EXCEPT ![t] = request[r].user]
  /\ \/ credential' = [credential EXCEPT ![t] = "live"] /\ UNCHANGED granted
     \/ \E days \in {d \in Days : Accepts(d)} :
          LET life == Wrap(days * Day)
          IN  /\ credential' = [credential EXCEPT ![t] =
                                  IF life > 0 THEN "live" ELSE "expired"]
              /\ granted' = [granted EXCEPT ![t] = [days |-> days, life |-> life]]

CreateToken(r) ==
  /\ At(r, "createToken", "serve")
  /\ \E t \in Tokens : CreatesToken(r, t)
  /\ Answered(r)
  /\ UNCHANGED <<users, arrivals>>

\* WHERE id = $1 AND user_id = $2
MayDelete(r, t) ==
  /\ credential[t] \in {"live", "expired"}
  /\ owner[t] = request[r].user

DeleteToken(r) ==
  /\ At(r, "deleteToken", "serve")
  /\ \E t \in Tokens :
       /\ MayDelete(r, t)
       /\ credential' = [credential EXCEPT ![t] = "deleted"]
  /\ Answered(r)
  /\ UNCHANGED <<users, owner, granted, arrivals>>

\* A handler ends without effect: 4xx by its arguments, or a failing statement.
\* Logout never does.
Refuse(r) ==
  /\ request[r].pc = "serve" /\ request[r].kind # "logout"
  /\ Answered(r)
  /\ UNCHANGED <<users, credential, owner, granted, arrivals>>

\* NOW() reaches expires_at: 30 days for sessions, as asked for tokens.
Expire(c) ==
  /\ credential[c] = "live"
  /\ c \in Tokens => granted[c].days # 0
  /\ credential' = [credential EXCEPT ![c] = "expired"]
  /\ UNCHANGED <<users, owner, granted, arrivals, request>>

AccessStep(r) ==
  \/ CreateSession(r) \/ CreateSessionFails(r)
  \/ LookUp(r)
  \/ Logout(r) \/ CreateToken(r) \/ DeleteToken(r)
  \/ Refuse(r)

AccessNext ==
  \/ \E r \in Requests : Register(r) \/ Login(r) \/ Arrive(r) \/ AccessStep(r)
  \/ \E c \in Credentials : Expire(c)

-----------------------------------------------------------------------------
(***************************************************************************)
(* A credential that is dead stays dead: a request that arrives after its  *)
(* session or token was deleted or has expired is never admitted, and one  *)
(* that is admitted acts as the user the credential was issued to.  Guards *)
(* the look-up against the requests that log out, delete tokens and issue  *)
(* new ones at the same time.                                              *)
(***************************************************************************)
Admitted(r) == request[r].kind \in SessionKinds \cup TokenKinds /\ request[r].pc # "lookup"

DeadStaysOut ==
  \A r \in Requests :
    Admitted(r) => ~request[r].dead /\ request[r].user = owner[request[r].cred]

(***************************************************************************)
(* A token never lives longer than the days its owner asked for.  The      *)
(* product of days and day may wrap around; it then makes a token that     *)
(* dies early, or is born dead, but none that outlives its days.           *)
(***************************************************************************)
NeverOutlives ==
  \A t \in Tokens : granted[t].life <= granted[t].days * Day
=============================================================================
