------------------------------ MODULE Requests ------------------------------
(***************************************************************************)
(* What every API request goes through (internal/platform, internal/auth): *)
(* the token is resolved into a principal, the rate limiter counts it, the *)
(* idempotency store may answer it, and only then the handler runs, here   *)
(* that of PATCH /v1/admin/users/{id}.  Each statement is a commit of its  *)
(* own.  Registration and login come without a principal, pass the limiter *)
(* and the store untouched and are one statement each.                     *)
(*                                                                         *)
(* A hit is a row of rate_limit_hits that is younger than a minute.  An    *)
(* answer is a row of idempotency_keys; nothing in the program deletes one *)
(* when its 24 hours are over.                                             *)
(***************************************************************************)
EXTENDS Naturals, FiniteSets

CONSTANTS
  User,         \* e-mail addresses
  Founder,      \* the admin who was there first
  Slot,         \* requests in flight
  Key,          \* Idempotency-Key headers
  Intent,       \* what clients may ask for: a change of an account or a
                \* read, and the key they send with it, if any
  PerMinute,    \* requests that a principal may make in a minute, 0 for any
  IPPerMinute,  \* logins and registrations of a client per minute, 0 for any
  Production,   \* whether new accounts wait for an admin
  MaxRequests,  \* bound on the requests that are sent
  MaxExpiries,  \* bound on the tokens, hits, logins and answers that expire
  None

VARIABLES
  users,     \* the users rows
  tokens,    \* the access tokens that have not expired, with their claims
  hits,      \* user -> the hits of the last minute
  logins,    \* the client's logins and registrations of the last minute
  answers,   \* <<user, key>> -> the idempotency_keys row
  request,   \* slot -> the request in progress
  sent,      \* the number of requests so far
  expired,   \* the number of expiries so far
  replayed,  \* history: <<user, key>> -> the answers its row has been used for
  answered,  \* history: the <<user, key>> whose request was executed and answered
  lost       \* history: those of them with an answer that was not saved

tables == <<users, tokens, logins>>
promises == <<answered, lost>>
vars == <<users, tokens, hits, logins, answers, request, sent, expired, replayed,
          answered, lost>>

Status == {"pending", "active", "disabled"}
Role == {"admin", "pi", "member"}
Account == [status: Status, role: Role]
Token == [user: User, role: Role]
Patch == [user: User, status: Status \cup {None}, role: Role \cup {None}]
Answer == {"ok", "forbidden", "not_found"}
StoredAnswer == [answer: Answer, fresh: BOOLEAN]

\* A read comes without a key; a patch names a status or a role.
ASSUME RequestsConstantsOK ==
  /\ Founder \in User
  /\ IsFiniteSet(Slot)
  /\ {PerMinute, IPPerMinute, MaxRequests, MaxExpiries} \subseteq Nat
  /\ Production \in BOOLEAN
  /\ None \notin Key \cup Status \cup Role \cup Answer
  /\ None \notin Account /\ None \notin Token /\ None \notin Patch
  /\ None \notin StoredAnswer
  /\ \A intent \in Intent :
       /\ intent.key \in Key \cup {None}
       /\ intent.patch \in Patch \cup {None}
       /\ intent.patch = None => intent.key = None
       /\ intent.patch # None => intent.patch.status # None \/ intent.patch.role # None

Idle == [pc |-> "idle", token |-> None, role |-> None, key |-> None, patch |-> None,
         answer |-> None, seen |-> {}, again |-> FALSE]

\* The rows and the requests are well formed, and a request carries what the
\* steps behind it have found out.
TypeOK ==
  /\ users \in [User -> Account \cup {None}]
  /\ tokens \subseteq Token
  /\ hits \in [User -> Nat]
  /\ logins \in 0 .. IPPerMinute
  /\ answers \in [User \X Key -> StoredAnswer \cup {None}]
  /\ replayed \in [User \X Key -> SUBSET Answer]
  /\ answered \subseteq User \X Key /\ lost \subseteq User \X Key
  /\ sent \in 0 .. MaxRequests /\ expired \in 0 .. MaxExpiries
  /\ \A s \in Slot :
       LET r == request[s] IN
       /\ r.pc \in {"idle", "auth", "count", "hit", "lookup", "handler", "role", "save"}
       /\ r.pc = "idle" <=> r.token = None
       /\ r.pc \in {"idle", "auth"} <=> r.role = None
       /\ r.pc = "save" <=> r.answer # None
       /\ r.pc = "save" => r.key # None
       /\ r.token \in Token \cup {None} /\ r.role \in Role \cup {None}
       /\ r.key \in Key \cup {None} /\ r.patch \in Patch \cup {None}
       /\ r.answer \in Answer \cup {None}
       /\ r.seen \subseteq Account /\ r.again \in BOOLEAN

Init ==
  /\ users = [u \in User |-> IF u = Founder THEN [status |-> "active", role |-> "admin"]
                             ELSE None]
  /\ tokens = {}
  /\ hits = [u \in User |-> 0]
  /\ logins = 0
  /\ answers = [id \in User \X Key |-> None]
  /\ request = [s \in Slot |-> Idle]
  /\ sent = 0 /\ expired = 0
  /\ replayed = [id \in User \X Key |-> {}]
  /\ answered = {} /\ lost = {}

-----------------------------------------------------------------------------
(***************************************************************************)
(* POST /v1/auth/register and POST /v1/auth/login, behind the in-memory    *)
(* limiter of the client's address, which checks and counts under a mutex. *)
(***************************************************************************)

Allow ==
  IF IPPerMinute = 0 THEN UNCHANGED logins
  ELSE logins < IPPerMinute /\ logins' = logins + 1

\* handleRegister: a second account with the address is refused.
Register(u) ==
  /\ Allow
  /\ users' = IF users[u] # None THEN users
              ELSE [users EXCEPT ![u] =
                      [status |-> IF Production THEN "pending" ELSE "active",
                       role |-> "member"]]
  /\ UNCHANGED <<tokens, hits, answers, request, replayed, sent, expired, promises>>

\* handleLogin: only an active account gets a token.  It carries the role of
\* that moment.
Login(u) ==
  /\ Allow
  /\ tokens' = IF users[u] # None /\ users[u].status = "active"
               THEN tokens \cup {[user |-> u, role |-> users[u].role]} ELSE tokens
  /\ UNCHANGED <<users, hits, answers, request, replayed, sent, expired, promises>>

-----------------------------------------------------------------------------
(***************************************************************************)
(* The middleware chain.                                                   *)
(***************************************************************************)

Goto(s, position) == request' = [request EXCEPT ![s].pc = position]

\* The request has its response, or its client none.
Ended(s) == request' = [request EXCEPT ![s] = Idle]

\* The request's principal and key, and their row.
Id(s) == <<request[s].token.user, request[s].key>>
Row(s) == answers[Id(s)]

Fresh(row) == row # None /\ row.fresh

\* A response is on its way into the row.
Saving(id) == \E s \in Slot : request[s].pc = "save" /\ Id(s) = id

\* A client sends a change, or a read (whose key the store ignores), for the
\* first time or again: then the key has been answered, and no Save of the answer
\* is still to come.
Send(s, token, intent) ==
  /\ request[s] = Idle
  /\ request' = [request EXCEPT ![s] =
       [Idle EXCEPT !.pc = "auth", !.token = token,
                    !.key = intent.key, !.patch = intent.patch,
                    !.seen = {users[token.user]},
                    !.again = /\ <<token.user, intent.key>> \in answered
                              /\ ~Saving(<<token.user, intent.key>>)]]
  /\ sent < MaxRequests
  /\ sent' = sent + 1
  /\ UNCHANGED <<hits, answers, replayed, expired, tables, promises>>

\* The token has not expired, and its account is active.
VerifyAccessToken(token) == token \in tokens /\ users[token.user].status = "active"

\* Mutant: the role is the one the token claims.
AuthResolverByClaim(s) ==
  /\ request[s].pc = "auth"
  /\ LET token == request[s].token IN
     IF VerifyAccessToken(token)
     THEN request' = [request EXCEPT ![s].pc = "count", ![s].role = token.role]
     ELSE Ended(s)
  /\ UNCHANGED <<hits, answers, replayed, sent, expired, tables, promises>>

\* The principal's role is the account's, not the token's.
AuthResolver(s) ==
  /\ request[s].pc = "auth"
  /\ LET token == request[s].token IN
     IF VerifyAccessToken(token)
     THEN request' = [request EXCEPT ![s].pc = "count", ![s].role = users[token.user].role]
     ELSE Ended(s)
  /\ UNCHANGED <<hits, answers, replayed, sent, expired, tables, promises>>

\* Mutant: one hit more than the limit is let through.
WithinLimitInclusive(u) == PerMinute = 0 \/ hits[u] <= PerMinute

WithinLimit(u) == PerMinute = 0 \/ hits[u] < PerMinute

\* The limiter counts the hits; a request over the limit is refused.
CountHits(s) ==
  /\ request[s].pc = "count"
  /\ IF WithinLimit(request[s].token.user)
     THEN Goto(s, IF PerMinute = 0 THEN "lookup" ELSE "hit")
     ELSE Ended(s)
  /\ UNCHANGED <<hits, answers, replayed, sent, expired, tables, promises>>

\* The limiter adds one, with another statement.
InsertHit(s) ==
  /\ request[s].pc = "hit"
  /\ hits' = [hits EXCEPT ![request[s].token.user] = @ + 1]
  /\ Goto(s, "lookup")
  /\ UNCHANGED <<answers, replayed, sent, expired, tables, promises>>

\* Idempotency: a read has nothing to look up, and ends; a write with a key that
\* has been answered within 24 hours gets that answer again.
Lookup(s) ==
  /\ request[s].pc = "lookup"
  /\ IF request[s].patch = None \/ (request[s].key # None /\ Fresh(Row(s)))
     THEN Ended(s) ELSE Goto(s, "handler")
  /\ replayed' = IF request[s].patch # None /\ request[s].key # None /\ Fresh(Row(s))
                 THEN [replayed EXCEPT ![Id(s)] = @ \cup {Row(s).answer}]
                 ELSE replayed
  /\ UNCHANGED <<hits, answers, sent, expired, tables, promises>>

\* Mutant: the row takes the answer of the request that ended last.
SaveLatest(s) ==
  /\ request[s].pc = "save"
  /\ answers' = [answers EXCEPT ![Id(s)] =
                   [answer |-> request[s].answer, fresh |-> TRUE]]
  /\ Ended(s)
  /\ UNCHANGED <<hits, replayed, sent, expired, tables, promises>>

\* INSERT ... ON CONFLICT DO NOTHING: a row that is there stays as it is, be it
\* another request's or expired.
Save(s) ==
  /\ request[s].pc = "save"
  /\ answers' = IF Row(s) # None THEN answers
                ELSE [answers EXCEPT ![Id(s)] =
                        [answer |-> request[s].answer, fresh |-> TRUE]]
  /\ Ended(s)
  /\ UNCHANGED <<hits, replayed, sent, expired, tables, promises>>

\* A statement fails (503 of the middleware, 5xx of the handler, which is not
\* stored, or an error of Save, which is ignored), or the process dies.  The
\* answer is written before Save begins, and the client gets it all the same.
Fails(s) ==
  /\ request[s].pc # "idle"
  /\ Ended(s)
  /\ lost' = IF request[s].pc = "save" THEN lost \cup {Id(s)} ELSE lost
  /\ UNCHANGED <<hits, answers, replayed, sent, expired, tables, answered>>

-----------------------------------------------------------------------------
(***************************************************************************)
(* handlePatchUser: the status, then the role, each of them optional.      *)
(***************************************************************************)

\* Mutant: the key is not looked at.
RespondsAlways(r, answer) == [r EXCEPT !.pc = "save", !.answer = answer]

\* The store keeps the answers of requests with a key.
Responds(r, answer) ==
  IF r.key = None THEN Idle ELSE [r EXCEPT !.pc = "save", !.answer = answer]

\* The response is written before the store is asked to keep it.
Noted(s) == answered' = IF request'[s].pc = "save" THEN answered \cup {Id(s)} ELSE answered

\* The requests in flight live to see the account change.
Update(s, u, account, responded) ==
  /\ users' = [users EXCEPT ![u] = account]
  /\ request' = [t \in Slot |->
       IF t = s THEN responded
       ELSE IF request[t] # Idle /\ request[t].token.user = u
            THEN [request[t] EXCEPT !.seen = @ \cup {account}]
            ELSE request[t]]

\* RequireAdmin on the principal; SetUserStatus, if a status is given.
SetUserStatus(s) ==
  /\ request[s].pc = "handler"
  /\ LET r == request[s]
         target == users[r.patch.user]
         next == IF r.patch.role = None THEN Responds(r, "ok")
                 ELSE [r EXCEPT !.pc = "role"]
     IN  CASE r.role # "admin" ->
                request' = [request EXCEPT ![s] = Responds(r, "forbidden")]
                /\ UNCHANGED users
           [] r.role = "admin" /\ target = None ->
                request' = [request EXCEPT ![s] = Responds(r, "not_found")]
                /\ UNCHANGED users
           [] r.role = "admin" /\ target # None /\ r.patch.status = None ->
                request' = [request EXCEPT ![s] = next] /\ UNCHANGED users
           [] OTHER ->
                Update(s, r.patch.user, [target EXCEPT !.status = r.patch.status], next)
  /\ Noted(s)
  /\ UNCHANGED <<tokens, hits, logins, answers, replayed, sent, expired, lost>>

SetUserRole(s) ==
  /\ request[s].pc = "role"
  /\ LET r == request[s] IN
     Update(s, r.patch.user, [users[r.patch.user] EXCEPT !.role = r.patch.role],
            Responds(r, "ok"))
  /\ Noted(s)
  /\ UNCHANGED <<tokens, hits, logins, answers, replayed, sent, expired, lost>>

-----------------------------------------------------------------------------
(***************************************************************************)
(* Time: a token expires, a hit or a login is a minute old, an answer 24   *)
(* hours.                                                                  *)
(***************************************************************************)

Expiry == expired < MaxExpiries /\ expired' = expired + 1

TokenExpires(token) ==
  /\ token \in tokens
  /\ tokens' = tokens \ {token}
  /\ Expiry
  /\ UNCHANGED <<users, hits, logins, answers, request, replayed, sent, promises>>

HitExpires(u) ==
  /\ hits[u] > 0
  /\ hits' = [hits EXCEPT ![u] = @ - 1]
  /\ Expiry
  /\ UNCHANGED <<answers, request, replayed, sent, tables, promises>>

LoginExpires ==
  /\ logins > 0
  /\ logins' = logins - 1
  /\ Expiry
  /\ UNCHANGED <<users, tokens, hits, answers, request, replayed, sent, promises>>

AnswerExpires(id) ==
  /\ Fresh(answers[id])
  /\ answers' = [answers EXCEPT ![id].fresh = FALSE]
  /\ Expiry
  /\ UNCHANGED <<hits, request, replayed, sent, tables, promises>>

Next ==
  \/ \E u \in User : Register(u) \/ Login(u) \/ HitExpires(u)
  \/ \E s \in Slot :
       \/ \E token \in tokens, intent \in Intent : Send(s, token, intent)
       \/ AuthResolver(s) \/ CountHits(s) \/ InsertHit(s) \/ Lookup(s)
       \/ SetUserStatus(s) \/ SetUserRole(s) \/ Save(s)
       \/ Fails(s)
  \/ \E token \in tokens : TokenExpires(token)
  \/ LoginExpires
  \/ \E id \in User \X Key : AnswerExpires(id)

Spec == Init /\ [][Next]_vars

-----------------------------------------------------------------------------
(***************************************************************************)
(* Properties.                                                             *)
(***************************************************************************)

\* The window of the limiter: requests that are counted together overrun the
\* limit, but by no more than the requests that can be in flight besides one.
OverrunIsBounded ==
  PerMinute > 0 =>
    \A u \in User :
      hits[u] + Cardinality({s \in Slot : /\ request[s].pc = "hit"
                                          /\ request[s].token.user = u})
        <= PerMinute + Cardinality(Slot) - 1

\* A principal is never made up, nor is it remembered: at some moment while the
\* request was under way its account was active with that very role, whatever
\* the token claims.  So a request that begins after an admin was demoted or
\* disabled changes nothing.
PrincipalIsCurrent ==
  \A s \in Slot :
    /\ request[s].role # None =>
         [status |-> "active", role |-> request[s].role] \in request[s].seen
    /\ request[s].pc = "role" => request[s].role = "admin"

\* Those who are given a stored answer all get the same one, however many requests
\* with the key were executed at the same time.  The promise of a replay holds only
\* as far as the answer is stored: it is written to the client first, and an error of
\* Save is ignored.  A request that begins when its key has been answered, and nothing is
\* left to be saved, is executed once more only if some answer of the key was lost
\* in this way, or if the row is older than 24 hours; from then on nothing is stored
\* under the key, and every retry is executed.
ReplaysAgree ==
  /\ \A id \in User \X Key : Cardinality(replayed[id]) <= 1
  /\ \A s \in Slot :
       request[s].again /\ request[s].pc \in {"handler", "role", "save"} =>
         \/ Id(s) \in lost
         \/ Row(s) # None /\ ~Row(s).fresh
=============================================================================
