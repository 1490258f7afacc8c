--------------------------- MODULE RequestsProofs ---------------------------
(***************************************************************************)
(* Theorems about Requests, for any accounts, requests in flight, keys,    *)
(* limits and bounds.                                                      *)
(*                                                                         *)
(* Most of it is about what a request carries from one step to the next    *)
(* while others change the tables: RequestInv says how that stays tied to  *)
(* the accounts and to the stored answers.                                 *)
(***************************************************************************)
EXTENDS Requests, FiniteSetTheorems, TLAPS

Positions == {"idle", "auth", "count", "hit", "lookup", "handler", "role", "save"}

Request ==
  [pc: Positions, token: Token \cup {None}, role: Role \cup {None},
   key: Key \cup {None}, patch: Patch \cup {None}, answer: Answer \cup {None},
   seen: SUBSET Account, again: BOOLEAN]

\* The variables have their types; requests are records.
Typed ==
  /\ users \in [User -> Account \cup {None}]
  /\ tokens \subseteq Token
  /\ hits \in [User -> Nat]
  /\ logins \in 0 .. IPPerMinute
  /\ answers \in [User \X Key -> StoredAnswer \cup {None}]
  /\ request \in [Slot -> Request]
  /\ sent \in 0 .. MaxRequests /\ expired \in 0 .. MaxExpiries
  /\ replayed \in [User \X Key -> SUBSET Answer]
  /\ answered \subseteq User \X Key /\ lost \subseteq User \X Key

\* A request in progress has a token of an account that exists and, until the
\* token is verified, has seen that account as it is now.  Its other fields
\* belong to its position.
Carries(r) ==
  /\ r.pc = "idle" => r = Idle
  /\ r.pc # "idle" => r.token \in Token /\ users[r.token.user] # None
  /\ r.pc = "auth" => users[r.token.user] \in r.seen
  /\ r.pc \in {"idle", "auth"} <=> r.role = None
  /\ r.role # None => [status |-> "active", role |-> r.role] \in r.seen
  /\ r.pc = "role" => r.role = "admin"
  /\ r.pc = "save" <=> r.answer # None
  /\ r.pc = "save" => r.key # None
  /\ r.pc \in {"handler", "role"} => r.patch # None
  /\ r.pc = "role" => users[r.patch.user] # None /\ r.patch.role # None
  /\ r.again => r.pc # "idle" /\ r.key # None

RequestInv ==
  /\ Typed
  /\ \A token \in tokens : users[token.user] # None
  /\ \A s \in Slot : Carries(request[s])

-----------------------------------------------------------------------------
LEMMA IdleCarries == Idle \in Request /\ Carries(Idle)
BY RequestsConstantsOK DEF Idle, Request, Positions, Carries, Role, Answer

LEMMA InitiallyCarried == Init => RequestInv
<1> SUFFICES ASSUME Init PROVE RequestInv
  OBVIOUS
<1>1. Typed
  BY IdleCarries, RequestsConstantsOK DEF Init, Typed, Account, Status, Role, Token
<1>2. QED
  BY <1>1, IdleCarries DEF Init, RequestInv

\* A step of one request that leaves the accounts alone.
LEMMA OneMoves ==
  ASSUME RequestInv, UNCHANGED users,
         NEW s \in Slot, NEW r \in Request, Carries(r),
         request' = [request EXCEPT ![s] = r]
  PROVE  /\ request' \in [Slot -> Request]
         /\ \A t \in Slot : Carries(request[t])'
BY ZenonT(40) DEF RequestInv, Typed, Carries

LEMMA OneEnds ==
  ASSUME RequestInv, UNCHANGED users, NEW s \in Slot, Ended(s)
  PROVE  /\ request' \in [Slot -> Request]
         /\ \A t \in Slot : Carries(request[t])'
BY OneMoves, IdleCarries DEF Ended

\* A request that goes on to a position for which it carries enough.
LEMMA OneGoesOn ==
  ASSUME RequestInv, UNCHANGED users, NEW s \in Slot, NEW position \in Positions,
         Goto(s, position), request[s].pc \in {"count", "hit", "lookup"},
         \/ position \in {"hit", "lookup"}
         \/ position = "handler" /\ request[s].patch # None
  PROVE  /\ request' \in [Slot -> Request]
         /\ \A t \in Slot : Carries(request[t])'
<1> DEFINE r == [request[s] EXCEPT !.pc = position]
<1>1. request[s] \in Request /\ Carries(request[s])
  BY DEF RequestInv, Typed
<1>2. r \in Request
  BY <1>1 DEF Request
<1>3. Carries(r)
  BY <1>1 DEF Request, Carries
<1>4. request' = [request EXCEPT ![s] = r]
  BY DEF Goto, RequestInv, Typed
<1>5. QED
  BY <1>2, <1>3, <1>4, OneMoves

LEMMA RequestFields ==
  ASSUME RequestInv, NEW s \in Slot
  PROVE  request[s] \in Request /\ Carries(request[s])
BY DEF RequestInv, Typed

LEMMA SendCarries ==
  ASSUME RequestInv, NEW s \in Slot, NEW token \in tokens, NEW intent \in Intent,
         Send(s, token, intent)
  PROVE  RequestInv'
<1> DEFINE r == [Idle EXCEPT !.pc = "auth", !.token = token,
                    !.key = intent.key, !.patch = intent.patch,
                    !.seen = {users[token.user]},
                    !.again = /\ <<token.user, intent.key>> \in answered
                              /\ ~Saving(<<token.user, intent.key>>)]
<1>0. <<token.user, intent.key>> \in answered => intent.key # None
  BY RequestsConstantsOK DEF RequestInv, Typed
<1>1. token \in Token /\ users[token.user] \in Account
  BY DEF RequestInv, Typed, Token
<1>2. r \in Request
  BY <1>1, RequestsConstantsOK DEF Request, Idle, Positions
<1>3. Carries(r)
  BY <1>0, <1>1, RequestsConstantsOK DEF Carries, Idle
<1>4. /\ request' \in [Slot -> Request]
      /\ \A t \in Slot : Carries(request[t])'
  BY <1>2, <1>3, OneMoves DEF Send, tables, promises
<1>5. Typed'
  BY <1>4, RequestsConstantsOK DEF Send, tables, promises, RequestInv, Typed
<1>6. QED
  BY <1>4, <1>5 DEF Send, tables, promises, RequestInv

LEMMA AuthResolverCarries ==
  ASSUME RequestInv, NEW s \in Slot, AuthResolver(s)
  PROVE  RequestInv'
<1> DEFINE token == request[s].token
<1> DEFINE r == [request[s] EXCEPT !.pc = "count", !.role = users[token.user].role]
<1>1. request[s] \in Request /\ Carries(request[s])
  BY RequestFields
<1>2. CASE VerifyAccessToken(token)
  <2>1. users[token.user] \in Account /\ users[token.user].status = "active"
    BY <1>1, <1>2 DEF VerifyAccessToken, RequestInv, Typed, Token, AuthResolver, Carries
  <2>2. r \in Request
    BY <1>1, <2>1 DEF Request, Positions, Account
  <2>3. users[token.user] = [status |-> "active", role |-> r.role]
    BY <1>1, <2>1 DEF Account, Request
  <2>4. Carries(r)
    BY <1>1, <2>1, <2>3, RequestsConstantsOK
    DEF Carries, AuthResolver, Request, Account
  <2>5. request' = [request EXCEPT ![s] = r]
    BY <1>2 DEF AuthResolver, RequestInv, Typed
  <2>6. /\ request' \in [Slot -> Request]
        /\ \A t \in Slot : Carries(request[t])'
    BY <2>2, <2>4, <2>5, OneMoves DEF AuthResolver, tables, promises
  <2>7. QED
    BY <2>6 DEF AuthResolver, tables, promises, RequestInv, Typed
<1>3. CASE ~VerifyAccessToken(token)
  <2>1. /\ request' \in [Slot -> Request]
        /\ \A t \in Slot : Carries(request[t])'
    BY <1>3, OneEnds DEF AuthResolver, tables, promises
  <2>2. QED
    BY <2>1 DEF AuthResolver, tables, promises, RequestInv, Typed
<1>4. QED
  BY <1>2, <1>3

LEMMA LimiterCarries ==
  ASSUME RequestInv, NEW s \in Slot, CountHits(s) \/ InsertHit(s)
  PROVE  RequestInv'
<1>1. request[s] \in Request /\ Carries(request[s])
  BY RequestFields
<1>2. /\ request' \in [Slot -> Request]
      /\ \A t \in Slot : Carries(request[t])'
  <2>1. {"hit", "lookup"} \subseteq Positions
    BY DEF Positions
  <2>2. \/ Ended(s)
        \/ /\ request[s].pc \in {"count", "hit", "lookup"}
           /\ \E position \in {"hit", "lookup"} : Goto(s, position)
    BY DEF CountHits, InsertHit
  <2>3. QED
    BY <2>1, <2>2, OneEnds, OneGoesOn DEF CountHits, InsertHit, tables, promises
<1>3. hits' \in [User -> Nat]
  BY <1>1 DEF CountHits, InsertHit, RequestInv, Typed, Carries, Token
<1>4. QED
  BY <1>2, <1>3 DEF CountHits, InsertHit, tables, promises, RequestInv, Typed

\* The row of a request with a key is one of the table.
LEMMA RowIsStored ==
  ASSUME Typed, NEW s \in Slot, request[s].token \in Token, request[s].key \in Key
  PROVE  /\ <<request[s].token.user, request[s].key>> \in User \X Key
         /\ Row(s) \in StoredAnswer \cup {None}
BY DEF Typed, Token, Row, Id

LEMMA LookupCarries ==
  ASSUME RequestInv, NEW s \in Slot, Lookup(s)
  PROVE  RequestInv'
<1>1. request[s] \in Request /\ Carries(request[s])
  BY RequestFields
<1>2. /\ request' \in [Slot -> Request]
      /\ \A t \in Slot : Carries(request[t])'
  <2>1. "handler" \in Positions /\ request[s].pc = "lookup"
    BY DEF Positions, Lookup
  <2>2. Ended(s) \/ (Goto(s, "handler") /\ request[s].patch # None)
    BY DEF Lookup
  <2>3. QED
    BY <2>1, <2>2, OneEnds, OneGoesOn DEF Lookup, tables, promises
<1>3. replayed' \in [User \X Key -> SUBSET Answer]
  <2>1. CASE request[s].key # None /\ Fresh(Row(s)) /\ request[s].patch # None
    <3>1. request[s].token \in Token /\ request[s].key \in Key
      BY <1>1, <2>1 DEF Carries, Lookup, Request
    <3>2. Row(s).answer \in Answer
      BY <3>1, <2>1, RowIsStored DEF RequestInv, Fresh, StoredAnswer
    <3>3. QED
      BY <2>1, <3>1, <3>2 DEF Lookup, RequestInv, Typed
  <2>2. CASE ~(request[s].key # None /\ Fresh(Row(s)) /\ request[s].patch # None)
    BY <2>2 DEF Lookup, RequestInv, Typed
  <2>3. QED
    BY <2>1, <2>2
<1>4. QED
  BY <1>2, <1>3 DEF Lookup, tables, promises, RequestInv, Typed

LEMMA SaveCarries ==
  ASSUME RequestInv, NEW s \in Slot, Save(s)
  PROVE  RequestInv'
<1>1. request[s] \in Request /\ Carries(request[s])
  BY RequestFields
<1>2. /\ request' \in [Slot -> Request]
      /\ \A t \in Slot : Carries(request[t])'
  BY OneEnds DEF Save, tables, promises
<1>3. request[s].answer \in Answer
  BY <1>1 DEF Save, Carries, Request
<1>4. answers' \in [User \X Key -> StoredAnswer \cup {None}]
  BY <1>3 DEF Save, RequestInv, Typed, StoredAnswer
<1>5. QED
  BY <1>2, <1>4 DEF Save, tables, promises, RequestInv, Typed

LEMMA FailsCarries ==
  ASSUME RequestInv, NEW s \in Slot, Fails(s)
  PROVE  RequestInv'
<1>1. /\ request' \in [Slot -> Request]
      /\ \A t \in Slot : Carries(request[t])'
  BY OneEnds DEF Fails, tables
<1>2. lost' \subseteq User \X Key
  <2>1. request[s].pc = "save" => Id(s) \in User \X Key
    BY RequestFields DEF Carries, Request, Token, Id
  <2>2. QED
    BY <2>1 DEF Fails, RequestInv, Typed
<1>3. QED
  BY <1>1, <1>2 DEF Fails, tables, RequestInv, Typed

\* handlePatchUser answers, or goes on to the role.
LEMMA ResponseCarries ==
  ASSUME RequestInv, NEW s \in Slot, request[s].pc \in {"handler", "role"},
         NEW answer \in Answer
  PROVE  Responds(request[s], answer) \in Request /\ Carries(Responds(request[s], answer))
<1>1. request[s] \in Request /\ Carries(request[s])
  BY RequestFields
<1>2. CASE request[s].key = None
  BY <1>2, IdleCarries DEF Responds
<1>3. CASE request[s].key # None
  BY <1>1, <1>3, RequestsConstantsOK
  DEF Responds, Carries, Request, Positions
<1>4. QED
  BY <1>2, <1>3

Promised == lost' = lost /\ answered' \subseteq User \X Key

\* What the client is told is noted under its name and key.
LEMMA NotedInTime ==
  ASSUME RequestInv, NEW s \in Slot, SetUserStatus(s) \/ SetUserRole(s)
  PROVE  Promised /\ \A id \in answered' \ answered : id = Id(s) /\ request'[s].pc = "save"
<1> DEFINE r == request[s]
<1>1. r \in Request /\ Carries(r) /\ r.token \in Token /\ r.pc \in {"handler", "role"}
  BY RequestFields DEF SetUserStatus, SetUserRole, Carries
<1>2. request'[s].pc = "save" => r.key # None
  <2>1. \A answer : r.key = None => Responds(r, answer) = Idle
    BY DEF Responds
  <2>2. [r EXCEPT !.pc = "role"].pc = "role" /\ Idle.pc = "idle"
    BY <1>1 DEF Request, Idle
  <2>3. SUFFICES ASSUME r.key = None PROVE request'[s].pc # "save"
    OBVIOUS
  <2>4. request'[s] \in {Idle, [r EXCEPT !.pc = "role"]}
    BY <2>1, <2>3 DEF SetUserStatus, SetUserRole, Update, RequestInv, Typed
  <2>5. QED
    BY <2>2, <2>4
<1>3. request'[s].pc = "save" => Id(s) \in User \X Key
  BY <1>1, <1>2 DEF Id, Token, Request
<1>4. Noted(s) /\ lost' = lost
  BY DEF SetUserStatus, SetUserRole
<1>5. QED
  BY <1>3, <1>4 DEF Noted, Promised, RequestInv, Typed

LEMMA UpdateCarries ==
  ASSUME RequestInv, NEW s \in Slot, NEW u \in User, NEW account \in Account,
         NEW r \in Request, Carries(r), r.pc # "auth", Update(s, u, account, r),
         Promised, UNCHANGED <<tokens, hits, logins, answers, replayed, sent, expired>>
  PROVE  RequestInv'
<1>1. users' = [users EXCEPT ![u] = account] /\ account # None
  BY RequestsConstantsOK DEF Update
<1>2. \A v \in User : users[v] # None => users'[v] # None
  BY <1>1 DEF RequestInv, Typed
<1>3. ASSUME NEW q \in Request, Carries(q), q.pc = "role"
      PROVE  users'[q.patch.user] # None /\ q.patch.role # None
  <2>1. q.patch \in Patch
    BY <1>3 DEF Carries, Request
  <2>2. QED
    BY <2>1, <1>2, <1>3 DEF Carries, Patch
<1>4. ASSUME NEW q \in Request, Carries(q), q.pc # "idle"
      PROVE  users'[q.token.user] # None
  BY <1>2, <1>4 DEF Carries, Token
<1>5. ASSUME NEW t \in Slot
      PROVE  request'[t] \in Request /\ Carries(request[t])'
  <2>1. request[t] \in Request /\ Carries(request[t])
    BY RequestFields
  <2>2. CASE t = s
    <3>1. request'[t] = r
      BY <2>2 DEF Update
    <3>2. QED
      BY <3>1, <1>3, <1>4 DEF Carries
  <2>3. CASE t # s /\ request[t] # Idle /\ request[t].token.user = u
    <3>1. request'[t] = [request[t] EXCEPT !.seen = @ \cup {account}]
      BY <2>3 DEF Update
    <3>2. request[t].pc # "idle"
      BY <2>1, <2>3 DEF Carries
    <3>3. users'[request[t].token.user] = account
      BY <1>1, <2>3 DEF RequestInv, Typed
    <3>4. request'[t] \in Request
      BY <3>1, <2>1 DEF Request
    <3>5. /\ request[t].pc = "role" => users'[request[t].patch.user] # None
                                      /\ request[t].patch.role # None
          /\ users'[request[t].token.user] # None
      BY <1>3, <1>4, <2>1, <3>2
    <3>6. QED
      BY <3>1, <3>2, <3>3, <3>4, <3>5, <2>1, RequestsConstantsOK DEF Carries, Request
  <2>4. CASE t # s /\ (request[t] = Idle \/ request[t].token.user # u)
    <3>1. request'[t] = request[t]
      BY <2>4 DEF Update
    <3>2. request[t].pc # "idle" => users'[request[t].token.user] = users[request[t].token.user]
      BY <1>1, <2>1, <2>4 DEF RequestInv, Typed, Carries, Token, Idle
    <3>3. QED
      BY <3>1, <3>2, <2>1, <1>3, <1>4 DEF Carries
  <2>5. QED
    BY <2>2, <2>3, <2>4
<1>6. request' \in [Slot -> Request]
  BY <1>5 DEF Update
<1>7. users' \in [User -> Account \cup {None}]
  BY <1>1 DEF RequestInv, Typed
<1>8. \A token \in tokens' : users'[token.user] # None
  BY <1>2 DEF RequestInv, Typed, Token
<1>9. QED
  BY <1>5, <1>6, <1>7, <1>8 DEF Promised, RequestInv, Typed

LEMMA PatchCarries ==
  ASSUME RequestInv, NEW s \in Slot, SetUserStatus(s) \/ SetUserRole(s)
  PROVE  RequestInv'
<1> DEFINE r == request[s]
<1>1. r \in Request /\ Carries(r) /\ r.pc \in {"handler", "role"} /\ r.patch \in Patch
  BY RequestFields DEF SetUserStatus, SetUserRole, Carries, Request
<1>2. \A answer \in Answer :
        /\ Responds(r, answer) \in Request
        /\ Carries(Responds(r, answer))
        /\ Responds(r, answer).pc # "auth"
  BY <1>1, ResponseCarries DEF Responds, Idle, Request
<1>3. "ok" \in Answer /\ "forbidden" \in Answer /\ "not_found" \in Answer
  BY DEF Answer
<1>4. r.patch.user \in User
  BY <1>1 DEF Patch
<1>8. Promised
  BY NotedInTime
<1>5. CASE SetUserStatus(s)
  <2> DEFINE next == IF r.patch.role = None THEN Responds(r, "ok")
                     ELSE [r EXCEPT !.pc = "role"]
  <2>1. ASSUME r.role = "admin", users[r.patch.user] # None
        PROVE  next \in Request /\ Carries(next) /\ next.pc # "auth"
    <3>1. CASE r.patch.role = None
      BY <3>1, <1>2, <1>3
    <3>2. CASE r.patch.role # None
      BY <3>2, <2>1, <1>1, <1>5 DEF Request, Positions, Carries, SetUserStatus
    <3>3. QED
      BY <3>1, <3>2
  <2>2. ASSUME NEW q \in Request, Carries(q), request' = [request EXCEPT ![s] = q],
               UNCHANGED users
        PROVE  RequestInv'
    <3>1. /\ request' \in [Slot -> Request]
          /\ \A t \in Slot : Carries(request[t])'
      BY <2>2, OneMoves
    <3>2. QED
      BY <3>1, <2>2, <1>5, <1>8 DEF SetUserStatus, Promised, RequestInv, Typed
  <2>3. CASE r.role # "admin"
    BY <2>2, <2>3, <1>2, <1>3, <1>5 DEF SetUserStatus
  <2>4. CASE r.role = "admin" /\ users[r.patch.user] = None
    BY <2>2, <2>4, <1>2, <1>3, <1>5 DEF SetUserStatus
  <2>5. CASE /\ r.role = "admin" /\ users[r.patch.user] # None
             /\ r.patch.status = None
    BY <2>1, <2>2, <2>5, <1>5 DEF SetUserStatus
  <2>6. CASE /\ r.role = "admin" /\ users[r.patch.user] # None
             /\ r.patch.status # None
    <3> DEFINE account == [users[r.patch.user] EXCEPT !.status = r.patch.status]
    <3>1. account \in Account
      BY <2>6, <1>1, <1>4 DEF RequestInv, Typed, Account, Patch
    <3>2. /\ Update(s, r.patch.user, account, next)
          /\ UNCHANGED <<tokens, hits, logins, answers, replayed, sent, expired>>
      BY <2>6, <1>5 DEF SetUserStatus
    <3>3. QED
      BY <3>1, <3>2, <2>1, <2>6, <1>4, <1>8, UpdateCarries
  <2>7. QED
    BY <2>3, <2>4, <2>5, <2>6
<1>6. CASE SetUserRole(s)
  <2> DEFINE account == [users[r.patch.user] EXCEPT !.role = r.patch.role]
  <2>1. users[r.patch.user] \in Account /\ r.patch.role \in Role
    BY <1>6, <1>1, <1>4 DEF SetUserRole, Carries, RequestInv, Typed, Patch
  <2>2. account \in Account
    BY <2>1 DEF Account
  <2>3. /\ Update(s, r.patch.user, account, Responds(r, "ok"))
        /\ UNCHANGED <<tokens, hits, logins, answers, replayed, sent, expired>>
    BY <1>6 DEF SetUserRole
  <2>4. QED
    BY <2>2, <2>3, <1>2, <1>3, <1>4, <1>8, UpdateCarries
<1>7. QED
  BY <1>5, <1>6

\* Registration, login and time touch no request.
LEMMA OthersCarry ==
  ASSUME RequestInv, UNCHANGED request, Typed',
         \A v \in User : users[v] # None => users'[v] = users[v],
         \A token \in tokens' : users'[token.user] # None
  PROVE  RequestInv'
<1>1. ASSUME NEW s \in Slot
      PROVE  Carries(request[s])'
  <2>1. request[s] \in Request /\ Carries(request[s])
    BY RequestFields
  <2>2. request[s].pc # "idle" =>
          users'[request[s].token.user] = users[request[s].token.user]
    BY <2>1 DEF Carries, Token
  <2>3. request[s].pc = "role" =>
          users'[request[s].patch.user] = users[request[s].patch.user]
    BY <2>1 DEF Carries, Request, Patch
  <2>4. QED
    BY <2>1, <2>2, <2>3 DEF Carries
<1>2. QED
  BY <1>1 DEF RequestInv

LEMMA AccountsCarry ==
  ASSUME RequestInv, NEW u \in User, Register(u) \/ Login(u)
  PROVE  RequestInv'
<1>1. logins' \in 0 .. IPPerMinute
  BY RequestsConstantsOK DEF Register, Login, Allow, RequestInv, Typed
<1>2. CASE Register(u)
  <2>1. users' \in [User -> Account \cup {None}]
    BY <1>2 DEF Register, promises, RequestInv, Typed, Account, Status, Role
  <2>2. \A v \in User : users[v] # None => users'[v] = users[v]
    BY <1>2 DEF Register, promises, RequestInv, Typed
  <2>3. \A token \in tokens' : users'[token.user] # None
    BY <1>2, <2>2 DEF Register, promises, RequestInv, Typed, Token
  <2>4. QED
    BY <1>1, <1>2, <2>1, <2>2, <2>3, OthersCarry DEF Register, promises, RequestInv, Typed
<1>3. CASE Login(u)
  <2>1. users[u] # None => users[u] \in Account
    BY DEF RequestInv, Typed
  <2>2. tokens' \subseteq Token /\ \A token \in tokens' : users[token.user] # None
    BY <1>3, <2>1 DEF Login, promises, RequestInv, Typed, Token, Account
  <2>3. QED
    BY <1>1, <1>3, <2>2, OthersCarry DEF Login, promises, RequestInv, Typed
<1>4. QED
  BY <1>2, <1>3

LEMMA TimeCarries ==
  ASSUME RequestInv,
         \/ \E token \in tokens : TokenExpires(token)
         \/ \E u \in User : HitExpires(u)
         \/ LoginExpires
         \/ \E id \in User \X Key : AnswerExpires(id)
  PROVE  RequestInv'
<1>1. expired' \in 0 .. MaxExpiries
  BY RequestsConstantsOK
  DEF TokenExpires, HitExpires, LoginExpires, AnswerExpires, Expiry, RequestInv, Typed
<1>2. CASE \E token \in tokens : TokenExpires(token)
  BY <1>1, <1>2, OthersCarry DEF TokenExpires, promises, RequestInv, Typed
<1>3. CASE \E u \in User : HitExpires(u)
  BY <1>1, <1>3, OthersCarry DEF HitExpires, tables, promises, RequestInv, Typed
<1>4. CASE LoginExpires
  BY <1>1, <1>4, RequestsConstantsOK, OthersCarry DEF LoginExpires, promises, RequestInv, Typed
<1>5. CASE \E id \in User \X Key : AnswerExpires(id)
  <2>1. PICK id \in User \X Key : AnswerExpires(id)
    BY <1>5
  <2>2. answers[id] \in StoredAnswer
    BY <2>1 DEF AnswerExpires, Fresh, RequestInv, Typed
  <2>3. answers' \in [User \X Key -> StoredAnswer \cup {None}]
    BY <2>1, <2>2 DEF AnswerExpires, RequestInv, Typed, StoredAnswer
  <2>4. QED
    BY <1>1, <2>1, <2>3, OthersCarry DEF AnswerExpires, tables, promises, RequestInv, Typed
<1>6. QED
  BY <1>2, <1>3, <1>4, <1>5

LEMMA Carried == RequestInv /\ [Next]_vars => RequestInv'
<1> SUFFICES ASSUME RequestInv, [Next]_vars PROVE RequestInv'
  OBVIOUS
<1>1. ASSUME NEW s \in Slot,
             \/ \E token \in tokens, intent \in Intent : Send(s, token, intent)
             \/ AuthResolver(s) \/ CountHits(s) \/ InsertHit(s) \/ Lookup(s)
             \/ SetUserStatus(s) \/ SetUserRole(s) \/ Save(s)
             \/ Fails(s)
      PROVE  RequestInv'
  BY <1>1, SendCarries, AuthResolverCarries, LimiterCarries, LookupCarries,
     PatchCarries, SaveCarries, FailsCarries
<1>2. ASSUME UNCHANGED vars
      PROVE  RequestInv'
  BY <1>2 DEF vars, RequestInv, Typed, Carries
<1>3. QED
  BY <1>1, <1>2, AccountsCarry, TimeCarries DEF Next

LEMMA AlwaysCarried == Spec => []RequestInv
BY InitiallyCarried, Carried, PTL DEF Spec

\* For any accounts, clients, limits and intents the requests are type correct.
THEOREM TypeCorrect == Spec => []TypeOK
<1>1. RequestInv => TypeOK
  <2> SUFFICES ASSUME RequestInv PROVE TypeOK
    OBVIOUS
  <2>1. ASSUME NEW s \in Slot
        PROVE  LET r == request[s] IN
               /\ r.pc \in Positions
               /\ r.pc = "idle" <=> r.token = None
               /\ r.pc \in {"idle", "auth"} <=> r.role = None
               /\ r.pc = "save" <=> r.answer # None
               /\ r.pc = "save" => r.key # None
               /\ r.token \in Token \cup {None} /\ r.role \in Role \cup {None}
               /\ r.key \in Key \cup {None} /\ r.patch \in Patch \cup {None}
               /\ r.answer \in Answer \cup {None}
               /\ r.seen \subseteq Account /\ r.again \in BOOLEAN
    <3>1. request[s] \in Request /\ Carries(request[s])
      BY RequestFields
    <3>2. request[s].pc = "idle" <=> request[s].token = None
      BY <3>1, RequestsConstantsOK DEF Carries, Idle
    <3>3. QED
      BY <3>1, <3>2 DEF Carries, Request
  <2>2. Typed
    BY DEF RequestInv
  <2>3. QED
    BY <2>1, <2>2 DEF TypeOK, Typed, Positions
<1>2. QED
  BY <1>1, AlwaysCarried, PTL

\* Whatever tokens claim and however often accounts change while requests run,
\* a principal is its account as it was at some moment of the request.
THEOREM PrincipalsAreCurrent == Spec => []PrincipalIsCurrent
<1>1. RequestInv => PrincipalIsCurrent
  BY DEF RequestInv, Carries, PrincipalIsCurrent
<1>2. QED
  BY <1>1, AlwaysCarried, PTL

-----------------------------------------------------------------------------
(***************************************************************************)
(* The idempotency store.  A row never changes once it is there, except    *)
(* that it expires, and what has been answered is in the table, is being   *)
(* saved, or is lost.                                                      *)
(***************************************************************************)

KeyInv ==
  /\ \A id \in User \X Key :
       replayed[id] = {} \/ (answers[id] # None /\ replayed[id] = {answers[id].answer})
  /\ \A id \in answered : answers[id] # None \/ id \in lost \/ Saving(id)
  /\ \A s \in Slot :
       request[s].again =>
         \/ Id(s) \in lost
         \/ /\ Row(s) # None
            /\ request[s].pc \in {"handler", "role", "save"} => ~Row(s).fresh

\* The rows that are there stay there, with their answers, and do not become
\* fresh again.
RowsStay ==
  \A id \in User \X Key :
    answers[id] # None =>
      /\ answers'[id] # None
      /\ answers'[id].answer = answers[id].answer
      /\ answers'[id].fresh => answers[id].fresh

LEMMA RowsAlwaysStay == RequestInv /\ [Next]_vars => RowsStay
<1> SUFFICES ASSUME RequestInv, [Next]_vars PROVE RowsStay
  OBVIOUS
<1>1. ASSUME NEW s \in Slot, Save(s)
      PROVE  RowsStay
  BY <1>1 DEF Save, RowsStay, Row, Id, RequestInv, Typed
<1>2. ASSUME NEW id \in User \X Key, AnswerExpires(id)
      PROVE  RowsStay
  <2>1. answers[id] \in StoredAnswer
    BY <1>2 DEF AnswerExpires, Fresh, RequestInv, Typed
  <2>2. QED
    BY <1>2, <2>1, RequestsConstantsOK
    DEF AnswerExpires, RowsStay, StoredAnswer, RequestInv, Typed
<1>3. UNCHANGED answers => RowsStay
  BY DEF RowsStay
<1>4. QED
  BY <1>1, <1>2, <1>3
  DEF Next, vars, tables, promises, Register, Login, HitExpires, Send, AuthResolver, CountHits,
      InsertHit, Lookup, SetUserStatus, SetUserRole, Fails, TokenExpires, LoginExpires

\* What a step makes of a request that is in progress after it.
GoesOn(r, new) ==
  /\ new.token = r.token /\ new.key = r.key /\ new.again = r.again
  /\ r.pc # "idle"
  /\ new.pc \in {"handler", "role", "save"} => r.pc \in {"handler", "role", "save"}
  /\ new.pc = "hit" => r.pc = "hit"

Begins(s) ==
  /\ request'[s].again => Id(s)' \in answered /\ ~Saving(Id(s)')
  /\ request'[s].pc = "auth"
  /\ UNCHANGED <<answers, lost>>

\* What is lost stays lost.
LEMMA LostStays == [Next]_vars => lost \subseteq lost'
BY DEF Next, vars, tables, promises, Register, Login, HitExpires, Send, AuthResolver,
       CountHits, InsertHit, Lookup, SetUserStatus, SetUserRole, Save, Fails,
       TokenExpires, LoginExpires, AnswerExpires

\* A request that saves does so until it has, or has failed to.
LEMMA SavingStays ==
  ASSUME RequestInv, [Next]_vars, NEW s \in Slot, request[s].pc = "save",
         ~Save(s), ~Fails(s)
  PROVE  request'[s].pc = "save" /\ Id(s)' = Id(s)
<1> DEFINE Same == request'[s].pc = "save" /\ Id(s)' = Id(s)
<1>1. request \in [Slot -> Request] /\ request[s] \in Request
  BY DEF RequestInv, Typed
<1>2. request'[s] = request[s] => Same
  BY DEF Id
<1>3. ASSUME NEW t \in Slot,
             \/ \E token \in tokens, intent \in Intent : Send(t, token, intent)
             \/ AuthResolver(t) \/ CountHits(t) \/ InsertHit(t) \/ Lookup(t)
             \/ Save(t) \/ Fails(t)
      PROVE  request'[s] = request[s]
  <2>1. t # s
    <3>1. CASE Save(t) \/ Fails(t)
      BY <3>1 DEF Save, Fails, Ended
    <3>2. CASE \E token \in tokens, intent \in Intent : Send(t, token, intent)
      <4>1. request[t] = Idle /\ Idle.pc = "idle"
        BY <3>2 DEF Send, Idle
      <4>2. QED
        BY <4>1
    <3>3. CASE AuthResolver(t) \/ CountHits(t) \/ InsertHit(t) \/ Lookup(t)
      BY <3>3 DEF AuthResolver, CountHits, InsertHit, Lookup
    <3>4. QED
      BY <1>3, <3>1, <3>2, <3>3
  <2>2. QED
    BY <1>1, <1>3, <2>1
    DEF Send, AuthResolver, CountHits, InsertHit, Lookup, Save, Fails, Ended, Goto
<1>4. ASSUME NEW t \in Slot, SetUserStatus(t) \/ SetUserRole(t)
      PROVE  Same
  <2>1. t # s
    BY <1>4 DEF SetUserStatus, SetUserRole
  <2>2. \/ request'[s] = request[s]
        \/ \E account : request'[s] = [request[s] EXCEPT !.seen = @ \cup {account}]
    BY <1>1, <1>4, <2>1 DEF SetUserStatus, SetUserRole, Update
  <2>3. QED
    BY <1>1, <1>2, <2>2 DEF Request, Id
<1>5. UNCHANGED request => request'[s] = request[s]
  OBVIOUS
<1>6. QED
  BY <1>2, <1>3, <1>4, <1>5
  DEF Next, vars, promises, Register, Login, HitExpires, TokenExpires, LoginExpires,
      AnswerExpires

\* The handler's statement goes on with its request, or ends it.
LEMMA PatchMoves ==
  ASSUME RequestInv, NEW t \in Slot, SetUserStatus(t) \/ SetUserRole(t)
  PROVE  \E q \in Request :
           /\ q = Idle \/ GoesOn(request[t], q)
           /\ \/ request' = [request EXCEPT ![t] = q]
              \/ \E u, account : Update(t, u, account, q)
<1> DEFINE r == request[t]
<1>1. r \in Request /\ Carries(r) /\ r.pc \in {"handler", "role"}
  BY RequestFields DEF SetUserStatus, SetUserRole
<1>2. \A answer \in Answer :
        LET responded == Responds(r, answer) IN
        responded \in Request /\ (responded = Idle \/ GoesOn(r, responded))
  <2> SUFFICES ASSUME NEW answer \in Answer
               PROVE  LET responded == Responds(r, answer) IN
                      responded \in Request /\ (responded = Idle \/ GoesOn(r, responded))
    OBVIOUS
  <2>1. Responds(r, answer) \in Request
    BY <1>1, ResponseCarries
  <2>2. Responds(r, answer) = Idle \/ GoesOn(r, Responds(r, answer))
    BY <1>1 DEF Responds, GoesOn, Request
  <2>3. QED
    BY <2>1, <2>2
<1>3. [r EXCEPT !.pc = "role"] \in Request /\ GoesOn(r, [r EXCEPT !.pc = "role"])
  BY <1>1 DEF Request, Positions, GoesOn
<1>4. {"ok", "forbidden", "not_found"} \subseteq Answer
  BY DEF Answer
<1>5. \E q \in Request :
        /\ q = Idle \/ GoesOn(r, q)
        /\ \/ request' = [request EXCEPT ![t] = q]
           \/ \E u, account : Update(t, u, account, q)
  <2> DEFINE Moves(q) == \/ request' = [request EXCEPT ![t] = q]
                         \/ \E u, account : Update(t, u, account, q)
  <2>1. \/ Moves([r EXCEPT !.pc = "role"])
        \/ \E answer \in {"ok", "forbidden", "not_found"} : Moves(Responds(r, answer))
    <3>1. CASE SetUserRole(t)
      BY <3>1 DEF SetUserRole
    <3>2. CASE SetUserStatus(t)
      BY <3>2 DEF SetUserStatus
    <3>3. QED
      BY <3>1, <3>2
  <2>2. QED
    BY <2>1, <1>2, <1>3, <1>4
<1>6. QED
  BY <1>5

LEMMA PatchGoesOn ==
  ASSUME RequestInv, NEW t \in Slot, SetUserStatus(t) \/ SetUserRole(t)
  PROVE  request'[t] = Idle \/ GoesOn(request[t], request'[t])
BY PatchMoves DEF Update, RequestInv, Typed

LEMMA RequestsGoOn ==
  ASSUME RequestInv, [Next]_vars, NEW s \in Slot
  PROVE  \/ request'[s] = Idle
         \/ request'[s] = request[s]
         \/ GoesOn(request[s], request'[s])
         \/ Begins(s)
         \/ Lookup(s)
         \/ CountHits(s)
<1> DEFINE Goal == \/ request'[s] = Idle
                   \/ request'[s] = request[s]
                   \/ GoesOn(request[s], request'[s])
                   \/ Begins(s)
                   \/ Lookup(s)
                   \/ CountHits(s)
<1>1. request \in [Slot -> Request] /\ request[s] \in Request /\ Carries(request[s])
  BY RequestFields DEF RequestInv, Typed
<1>2. ASSUME NEW t \in Slot, Ended(t)
      PROVE  Goal
  BY <1>1, <1>2 DEF Ended
<1>3. ASSUME NEW t \in Slot, NEW position \in {"count", "lookup"},
             request[t].pc # "idle", Goto(t, position)
      PROVE  Goal
  BY <1>1, <1>3 DEF Goto, GoesOn, Request
<1>4. ASSUME NEW t \in Slot, NEW token \in tokens, NEW intent \in Intent,
             Send(t, token, intent)
      PROVE  Goal
  <2>1. CASE t = s
    BY <1>1, <1>4, <2>1 DEF Send, Begins, Idle, Id, promises
  <2>2. CASE t # s
    BY <1>1, <1>4, <2>2 DEF Send
  <2>3. QED
    BY <2>1, <2>2
<1>5. ASSUME NEW t \in Slot, AuthResolver(t)
      PROVE  Goal
  <2>1. CASE VerifyAccessToken(request[t].token)
    BY <1>1, <1>5, <2>1 DEF AuthResolver, GoesOn, Request
  <2>2. CASE ~VerifyAccessToken(request[t].token)
    BY <1>2, <1>5, <2>2 DEF AuthResolver
  <2>3. QED
    BY <2>1, <2>2
<1>6. ASSUME NEW t \in Slot, CountHits(t) \/ InsertHit(t)
      PROVE  Goal
  <2>1. CASE CountHits(t) /\ t # s
    BY <1>1, <2>1 DEF CountHits, Goto, Ended
  <2>2. CASE InsertHit(t)
    BY <1>3, <2>2 DEF InsertHit
  <2>3. QED
    BY <1>6, <2>1, <2>2
<1>7. ASSUME NEW t \in Slot, Lookup(t)
      PROVE  Goal
  BY <1>1, <1>7 DEF Lookup, Ended, Goto
<1>8. ASSUME NEW t \in Slot, NEW r \in Request,
             r = Idle \/ GoesOn(request[t], r),
             \/ request' = [request EXCEPT ![t] = r]
             \/ \E u, account : Update(t, u, account, r)
      PROVE  Goal
  <2>1. CASE s = t
    BY <1>1, <1>8, <2>1 DEF Update
  <2>2. CASE s # t /\ request' = [request EXCEPT ![t] = r]
    BY <1>1, <2>2
  <2>3. CASE s # t /\ \E u, account : Update(t, u, account, r)
    <3>1. PICK u, account : Update(t, u, account, r)
      BY <2>3
    <3>2. CASE request[s] # Idle /\ request[s].token.user = u
      BY <1>1, <2>3, <3>1, <3>2 DEF Update, GoesOn, Request, Carries
    <3>3. CASE ~(request[s] # Idle /\ request[s].token.user = u)
      BY <2>3, <3>1, <3>3 DEF Update
    <3>4. QED
      BY <3>2, <3>3
  <2>4. QED
    BY <1>8, <2>1, <2>2, <2>3
<1>9. ASSUME NEW t \in Slot, SetUserStatus(t) \/ SetUserRole(t)
      PROVE  Goal
  BY <1>8, <1>9, PatchMoves
<1>10. ASSUME NEW t \in Slot, Save(t) \/ Fails(t)
       PROVE  Goal
  BY <1>2, <1>10 DEF Save, Fails
<1>11. UNCHANGED request => Goal
  OBVIOUS
<1>12. QED
  BY <1>4, <1>5, <1>6, <1>7, <1>9, <1>10, <1>11
  DEF Next, vars, tables, promises, Register, Login, HitExpires, TokenExpires, LoginExpires,
      AnswerExpires

LEMMA KeyInvHolds == RequestInv /\ KeyInv /\ [Next]_vars => KeyInv'
<1> SUFFICES ASSUME RequestInv, KeyInv, [Next]_vars PROVE KeyInv'
  OBVIOUS
<1>1. RowsStay
  BY RowsAlwaysStay
<1>2. ASSUME NEW id \in User \X Key
      PROVE  replayed'[id] = {} \/ (answers'[id] # None /\ replayed'[id] = {answers'[id].answer})
  <2>1. CASE UNCHANGED replayed
    BY <1>1, <2>1 DEF KeyInv, RowsStay
  <2>2. CASE \E s \in Slot : Lookup(s)
    <3>1. PICK s \in Slot : Lookup(s)
      BY <2>2
    <3>2. UNCHANGED answers
      BY <3>1 DEF Lookup
    <3>3. CASE /\ request[s].patch # None /\ request[s].key # None /\ Fresh(Row(s))
               /\ id = <<request[s].token.user, request[s].key>>
      <4>1. answers[id] # None /\ replayed'[id] = replayed[id] \cup {answers[id].answer}
        BY <3>1, <3>3 DEF Lookup, Row, Id, Fresh, RequestInv, Typed
      <4>2. QED
        BY <3>2, <4>1 DEF KeyInv
    <3>4. CASE ~(/\ request[s].patch # None /\ request[s].key # None /\ Fresh(Row(s))
                 /\ id = <<request[s].token.user, request[s].key>>)
      <4>1. replayed'[id] = replayed[id]
        BY <3>1, <3>4 DEF Lookup, Id, RequestInv, Typed
      <4>2. QED
        BY <3>2, <4>1 DEF KeyInv
    <3>5. QED
      BY <3>3, <3>4
  <2>3. QED
    BY <2>1, <2>2
    DEF Next, vars, promises, Register, Login, HitExpires, Send, AuthResolver, CountHits, InsertHit,
        SetUserStatus, SetUserRole, Save, Fails, TokenExpires, LoginExpires, AnswerExpires
<1>3. lost \subseteq lost'
  BY LostStays
<1>4. ASSUME NEW id \in answered'
      PROVE  answers'[id] # None \/ id \in lost' \/ Saving(id)'
  <2>1. CASE id \in answered /\ (answers[id] # None \/ id \in lost)
    BY <1>1, <1>3, <2>1 DEF RowsStay, RequestInv, Typed
  <2>2. CASE id \in answered /\ Saving(id)
    <3>1. PICK s \in Slot : request[s].pc = "save" /\ Id(s) = id
      BY <2>2 DEF Saving
    <3>2. CASE Save(s)
      <4>0. request[s] \in Request /\ Carries(request[s])
        BY RequestFields
      <4>1. request[s].answer \in Answer
        BY <3>1, <4>0 DEF Carries, Request
      <4>2. [answer |-> request[s].answer, fresh |-> TRUE] # None
        <5>1. [answer |-> request[s].answer, fresh |-> TRUE] \in StoredAnswer
          BY <4>1 DEF StoredAnswer
        <5>2. QED
          BY <5>1, RequestsConstantsOK
      <4>3. QED
        BY <2>2, <3>1, <3>2, <4>2 DEF Save, Row, RequestInv, Typed
    <3>3. CASE Fails(s)
      BY <3>1, <3>3 DEF Fails
    <3>4. CASE ~Save(s) /\ ~Fails(s)
      BY <3>1, <3>4, SavingStays DEF Saving
    <3>5. QED
      BY <3>2, <3>3, <3>4
  <2>3. CASE id \notin answered
    <3>1. PICK s \in Slot : SetUserStatus(s) \/ SetUserRole(s)
      BY <2>3
      DEF Next, vars, promises, Register, Login, HitExpires, Send, AuthResolver, CountHits,
          InsertHit, Lookup, Save, Fails, TokenExpires, LoginExpires, AnswerExpires
    <3>2. id = Id(s) /\ request'[s].pc = "save"
      BY <2>3, <3>1, NotedInTime
    <3>3. Id(s)' = Id(s)
      <4>1. GoesOn(request[s], request'[s])
        BY <3>1, <3>2, PatchGoesOn DEF Idle
      <4>2. QED
        BY <4>1 DEF GoesOn, Id
    <3>4. QED
      BY <3>2, <3>3 DEF Saving
  <2>4. QED
    BY <2>1, <2>2, <2>3 DEF KeyInv
<1>5. ASSUME NEW s \in Slot, request'[s].again
      PROVE  \/ Id(s)' \in lost'
             \/ /\ Row(s)' # None
                /\ request'[s].pc \in {"handler", "role", "save"} => ~Row(s)'.fresh
  <2> DEFINE r == request[s]
             new == request'[s]
             id == Id(s)
  <2>1. r \in Request /\ Carries(r) /\ request \in [Slot -> Request]
    BY RequestFields DEF RequestInv, Typed
  <2>2. r.again => id \in User \X Key /\ answers[id] \in StoredAnswer \cup {None}
    BY <2>1 DEF Carries, Request, Token, Id, RequestInv, Typed
  <2>3. new.token = r.token /\ new.key = r.key => Id(s)' = id
    BY DEF Id
  <2>4. CASE r.again /\ Id(s)' = id /\ id \in lost
    BY <1>3, <2>4
  <2>5. CASE /\ r.again /\ Id(s)' = id /\ id \notin lost
             /\ new.pc \in {"handler", "role", "save"} =>
                  r.pc \in {"handler", "role", "save"}
    BY <1>1, <2>2, <2>5 DEF KeyInv, RowsStay, Row
  <2>6. CASE Begins(s)
    BY <1>5, <2>6 DEF Begins, Row, KeyInv
  <2>7. CASE Lookup(s) /\ ~(id \in lost)
    <3>1. /\ new.token = r.token /\ new.key = r.key /\ r.again /\ UNCHANGED answers
          /\ ~(r.key # None /\ Fresh(Row(s)))
      BY <1>5, <2>1, <2>7 DEF Lookup, Ended, Goto, Idle, Request
    <3>2. r.key # None /\ Row(s) # None /\ Row(s)' = Row(s)
      BY <2>3, <2>7, <3>1, <2>1 DEF Carries, KeyInv, Row
    <3>3. QED
      BY <3>1, <3>2 DEF Fresh
  <2>8. CASE Lookup(s) \/ CountHits(s)
    <3>1. new.token = r.token /\ new.key = r.key /\ r.again
      BY <1>5, <2>1, <2>8 DEF Lookup, CountHits, Ended, Goto, Idle, Request
    <3>2. CountHits(s) => new.pc \in {"hit", "lookup"}
      BY <1>5, <2>1, <2>8 DEF CountHits, Ended, Goto, Idle, Request
    <3>3. QED
      BY <2>3, <2>4, <2>5, <2>7, <2>8, <3>1, <3>2
  <2>9. CASE new = r \/ GoesOn(r, new)
    BY <1>5, <2>3, <2>4, <2>5, <2>9 DEF GoesOn
  <2>10. new # Idle
    BY <1>5 DEF Idle
  <2>11. QED
    BY <2>6, <2>8, <2>9, <2>10, RequestsGoOn
<1>6. QED
  BY <1>2, <1>4, <1>5 DEF KeyInv

\* For any users, keys and requests in flight: however many requests with a key
\* run at the same time, whenever their process dies or Save fails, all replays of
\* the key are of one answer.  What was answered, with nothing left to save, before
\* a request began is executed again only if an answer of the key was lost after
\* it had gone to the client, or the row has expired.
THEOREM ReplaysOfKeyAgree == Spec => []ReplaysAgree
<1>1. Init => KeyInv
  BY DEF Init, KeyInv, Idle
<1>2. KeyInv => ReplaysAgree
  <2>1. ASSUME KeyInv, NEW id \in User \X Key
        PROVE  Cardinality(replayed[id]) <= 1
    <3>1. CASE replayed[id] = {}
      BY <3>1, FS_EmptySet
    <3>2. CASE replayed[id] = {answers[id].answer}
      <4>1. Cardinality({answers[id].answer}) = 1
        BY FS_Singleton
      <4>2. QED
        BY <3>2, <4>1
    <3>3. QED
      BY <2>1, <3>1, <3>2 DEF KeyInv
  <2>2. QED
    BY <2>1 DEF KeyInv, ReplaysAgree
<1>3. QED
  BY <1>1, <1>2, KeyInvHolds, AlwaysCarried, PTL DEF Spec

-----------------------------------------------------------------------------
(***************************************************************************)
(* The limiter.                                                            *)
(***************************************************************************)

\* The requests of u that were counted within the limit and add their hit next.
Counted(u) == {s \in Slot : request[s].pc = "hit" /\ request[s].token.user = u}

\* A hit is added by a request that was counted before.
LEMMA HitsAreCounted ==
  ASSUME RequestInv, [Next]_vars, NEW u \in User
  PROVE  \/ hits'[u] <= hits[u]
         \/ \E s \in Slot : /\ s \in Counted(u) /\ s \notin Counted(u)'
                           /\ hits'[u] = hits[u] + 1
<1>1. hits \in [User -> Nat]
  BY DEF RequestInv, Typed
<1>2. ASSUME NEW s \in Slot, InsertHit(s)
      PROVE  \/ hits'[u] <= hits[u]
             \/ /\ s \in Counted(u) /\ s \notin Counted(u)'
                /\ hits'[u] = hits[u] + 1
  <2>1. CASE request[s].token.user = u
    <3>1. request'[s].pc = "lookup"
      BY <1>2 DEF InsertHit, Goto, RequestInv, Typed, Request
    <3>2. hits'[u] = hits[u] + 1 /\ s \in Counted(u)
      BY <1>1, <1>2, <2>1 DEF InsertHit, Counted
    <3>3. QED
      BY <3>1, <3>2 DEF Counted
  <2>2. CASE request[s].token.user # u
    BY <1>1, <1>2, <2>2 DEF InsertHit
  <2>3. QED
    BY <2>1, <2>2
<1>3. ASSUME NEW v \in User, HitExpires(v)
      PROVE  hits'[u] <= hits[u]
  BY <1>1, <1>3 DEF HitExpires
<1>4. UNCHANGED hits => hits'[u] <= hits[u]
  BY <1>1
<1>5. QED
  BY <1>2, <1>3, <1>4
  DEF Next, vars, promises, Register, Login, Send, AuthResolver, CountHits, Lookup,
      SetUserStatus, SetUserRole, Save, Fails, TokenExpires, LoginExpires, AnswerExpires

\* A request comes to be counted only while the hits are below the limit.
LEMMA CountedWithinLimit ==
  ASSUME RequestInv, [Next]_vars, PerMinute > 0, NEW u \in User
  PROVE  \/ Counted(u)' \subseteq Counted(u)
         \/ hits[u] < PerMinute /\ UNCHANGED hits
<1> SUFFICES ASSUME NEW s \in Counted(u)', s \notin Counted(u)
             PROVE  hits[u] < PerMinute /\ UNCHANGED hits
  OBVIOUS
<1>1. s \in Slot /\ request'[s].pc = "hit" /\ request'[s].token.user = u
  BY DEF Counted
<1>2. request[s] \in Request /\ request \in [Slot -> Request]
  BY <1>1, RequestFields DEF RequestInv, Typed
<1>3. CountHits(s)
  <2>1. request'[s] # Idle /\ request'[s] # request[s]
    BY <1>1 DEF Idle, Counted
  <2>2. ~GoesOn(request[s], request'[s])
    BY <1>1 DEF GoesOn, Counted
  <2>3. ~Begins(s) /\ ~Lookup(s)
    BY <1>1, <1>2 DEF Begins, Lookup, Ended, Goto, Idle, Request
  <2>4. QED
    BY <1>1, <2>1, <2>2, <2>3, RequestsGoOn
<1>4. /\ WithinLimit(request[s].token.user)
      /\ request'[s].token = request[s].token
  BY <1>1, <1>2, <1>3 DEF CountHits, Ended, Goto, Idle, Request
<1>5. hits \in [User -> Nat] /\ PerMinute \in Nat
  BY RequestsConstantsOK DEF RequestInv, Typed
<1>6. QED
  BY <1>1, <1>3, <1>4, <1>5 DEF WithinLimit, CountHits

\* For any limit and any finite number of requests in flight: counting and adding
\* in two statements lets hits over the limit in, but at most one for each request
\* in flight besides the one that was within it.
THEOREM OverrunsAreBounded == Spec => []OverrunIsBounded
<1> DEFINE Bound == PerMinute + Cardinality(Slot) - 1
<1>1. /\ Cardinality(Slot) \in Nat /\ PerMinute \in Nat
  BY FS_CardinalityType, RequestsConstantsOK
<1>2. ASSUME NEW S, S \subseteq Slot
      PROVE  /\ IsFiniteSet(S) /\ Cardinality(S) \in Nat
             /\ Cardinality(S) <= Cardinality(Slot)
  BY <1>2, FS_Subset, FS_CardinalityType, RequestsConstantsOK
<1>3. Init => OverrunIsBounded
  <2> SUFFICES ASSUME Init, PerMinute > 0, NEW u \in User
               PROVE  hits[u] + Cardinality(Counted(u)) <= Bound
    BY DEF OverrunIsBounded, Counted
  <2>1. Counted(u) = {} /\ hits[u] = 0
    BY DEF Init, Counted, Idle
  <2>2. QED
    BY <1>1, <2>1, FS_EmptySet
<1>4. RequestInv /\ OverrunIsBounded /\ [Next]_vars => OverrunIsBounded'
  <2> SUFFICES ASSUME RequestInv, OverrunIsBounded, [Next]_vars,
                      PerMinute > 0, NEW u \in User
               PROVE  hits'[u] + Cardinality(Counted(u)') <= Bound
    BY DEF OverrunIsBounded, Counted
  <2>1. hits[u] + Cardinality(Counted(u)) <= Bound
    BY DEF OverrunIsBounded, Counted
  <2>2. Counted(u) \subseteq Slot /\ Counted(u)' \subseteq Slot
    BY DEF Counted
  <2>3. hits[u] \in Nat /\ hits'[u] \in Nat
    BY Carried DEF RequestInv, Typed
  <2>4. CASE hits[u] < PerMinute /\ UNCHANGED hits
    BY <1>1, <1>2, <2>2, <2>3, <2>4
  <2>5. CASE Counted(u)' \subseteq Counted(u) /\ hits'[u] <= hits[u]
    <3>1. Cardinality(Counted(u)') <= Cardinality(Counted(u))
      BY <1>2, <2>2, <2>5, FS_Subset
    <3>2. QED
      BY <1>1, <1>2, <2>1, <2>2, <2>3, <2>5, <3>1
  <2>6. CASE /\ Counted(u)' \subseteq Counted(u)
             /\ \E s \in Slot : /\ s \in Counted(u) /\ s \notin Counted(u)'
                              /\ hits'[u] = hits[u] + 1
    <3>1. PICK s \in Slot : /\ s \in Counted(u) /\ s \notin Counted(u)'
                            /\ hits'[u] = hits[u] + 1
      BY <2>6
    <3>2. Cardinality(Counted(u) \ {s}) = Cardinality(Counted(u)) - 1
      BY <1>2, <2>2, <3>1, FS_RemoveElement
    <3>3. Counted(u)' \subseteq Counted(u) \ {s} /\ Counted(u) \ {s} \subseteq Slot
      BY <2>2, <2>6, <3>1
    <3>4. Cardinality(Counted(u)') <= Cardinality(Counted(u) \ {s})
      BY <1>2, <3>3, FS_Subset
    <3>5. QED
      BY <1>1, <1>2, <2>1, <2>2, <2>3, <3>1, <3>2, <3>4
  <2>7. QED
    BY <2>4, <2>5, <2>6, HitsAreCounted, CountedWithinLimit
<1>5. QED
  BY <1>3, <1>4, AlwaysCarried, PTL DEF Spec
=============================================================================
