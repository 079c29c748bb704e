--------------------------- MODULE AccountsProofs ---------------------------
(***************************************************************************)
(* Proofs about Accounts, for any number of browsers, admins, users and    *)
(* tokens.  The invariant has three layers, each proved from the one       *)
(* before:                                                                 *)
(*   - TablesInv: what ids, rows and requests have to do with one another, *)
(*     from which an account has its wallet and its cart;                  *)
(*   - RightsInv: what a request knows of roles and of active accounts was *)
(*     so in this tick;                                                    *)
(*   - RowsInv: there are as many valid rows for a refresh token as        *)
(*     clients that rely on it.                                            *)
(***************************************************************************)
EXTENDS Accounts, FiniteSetTheorems, TLAPS

(* A request with one of these has read a user who existed then.           *)
ReaderOps == {"code", "wallet", "accept", "issue", "revoke", "recheck", "save"}

ClientOps == {"idle", "insert", "commit", "code", "accept", "issue", "revoke", "recheck"}
AdminOps == {"idle", "store", "wallet", "save"}

UsersTyped ==
  /\ users \in [Ids -> User \cup {NoUser}]
  /\ wallets \subseteq Ids
  /\ carts \subseteq Ids
  /\ made \in [Ids -> {"no", "bare", "signup", "admin", "revived"}]

SessionsTyped ==
  /\ tokens \in [1..MaxTokens -> Jwt \cup {NoToken}]
  /\ issued \in 0..MaxTokens
  /\ \A i \in 1..MaxTokens : tokens[i] # NoToken => i <= issued /\ Exists(tokens[i].user)
  /\ access \subseteq [user : Ids, role : Roles, at : 0..MaxClock]
  /\ held \in [Clients -> Jwt \cup {NoToken}]
  /\ spoiled \subseteq Jwt

TimesTyped ==
  /\ codes \in 0..MaxCodes
  /\ stale \subseteq 1..codes
  /\ clock \in 0..MaxClock
  /\ edits \in 0..MaxEdits

HistoriesTyped ==
  /\ hadRole \in [Ids -> SUBSET Roles]
  /\ wasOn \subseteq Ids

CallsTyped ==
  /\ calls \in [Workers -> Call]
  /\ \A c \in Clients : calls[c].op \in ClientOps
  /\ \A a \in Admins : calls[a].op \in AdminOps

(* An id is given to one account only: nobody reads a user under an id     *)
(* that a sign-up in progress has taken.                                   *)
IdsTaken ==
  /\ \A u \in Ids : Exists(u) => made[u] # "no"
  /\ \A w \in Workers : calls[w].op \in ReaderOps => made[calls[w].user] # "no"
  /\ \A w \in Workers : In(w, "commit") => made[calls[w].user] = "no"
  /\ \A v, w \in Workers :
       In(v, "commit") /\ In(w, "commit") /\ calls[v].user = calls[w].user => v = w

TablesInv ==
  /\ UsersTyped
  /\ SessionsTyped
  /\ TimesTyped
  /\ HistoriesTyped
  /\ CallsTyped
  /\ IdsTaken
  /\ AccountComplete

(* On, whoever switched it on.                                             *)
ActiveNow == {u \in Ids : Exists(u) /\ users[u].active}
WasActive == wasOn \cup wasReopened

(* What an exchange, a login or a verification knows of its user.          *)
RolesInHand ==
  \A w \in Workers :
    calls[w].op \in {"accept", "issue"} => calls[w].role \in hadRole[calls[w].user]

ActiveInHand ==
  \A w \in Workers :
    In(w, "issue") /\ Exists(calls[w].user) =>
      made[calls[w].user] = "revived" \/ calls[w].user \in WasActive

RightsInv ==
  /\ \A u \in Ids : RolesNow(u) \subseteq hadRole[u]
  /\ reopened \subseteq Ids
  /\ wasReopened \subseteq Ids
  /\ ActiveNow \subseteq WasActive
  /\ \A t \in access : t.at <= clock
  /\ RolesInHand
  /\ ActiveInHand
  /\ RightsEndUnlessReopened

(* The row a client is about to revoke is one of its own token, or already *)
(* revoked.                                                                *)
RowInHand ==
  \A c \in Clients :
    In(c, "revoke") =>
      /\ calls[c].row <= issued
      /\ tokens[calls[c].row] \in {held[c], NoToken}

Holders(jwt) == {c \in Clients : held[c] = jwt /\ ~In(c, "recheck") /\ ~In(c, "issue")}
RowsOf(jwt) == {i \in 1..MaxTokens : tokens[i] = jwt}

RowsInv ==
  /\ RowInHand
  /\ \A jwt \in Jwt \ spoiled : Cardinality(Holders(jwt)) <= Cardinality(RowsOf(jwt))

AccountsInv == TablesInv /\ RightsInv /\ RowsInv

-----------------------------------------------------------------------------
(* The kinds of calls, told apart by op.                                   *)
LEMMA CallKinds ==
  ASSUME NEW c \in Call
  PROVE  /\ c.op \in ClientOps \cup AdminOps
         /\ c.op \in {"insert", "store"} => c.mobile \in Mobiles
         /\ c.op = "commit" => c.mobile \in Mobiles /\ c.user \in Ids
         /\ c.op \in ReaderOps => c.user \in Ids
         /\ c.op \in {"accept", "issue"} =>
              /\ c.role \in Roles
              /\ c = [op |-> c.op, user |-> c.user, role |-> c.role]
         /\ c.op \in {"revoke", "recheck"} =>
              /\ c.row \in 1..MaxTokens
              /\ c = [op |-> c.op, user |-> c.user, row |-> c.row]
         /\ c.op = "save" => c.mobile \in Mobiles /\ c.role \in Roles /\ c.active \in BOOLEAN
BY DEF Call, Idle, ClientOps, AdminOps, ReaderOps

(* What the reader of a user's row goes on with.                           *)
LEMMA NextOp ==
  ASSUME NEW c \in Call
  PROVE  /\ c.op = "accept" =>
              /\ [c EXCEPT !.op = "issue"] \in Call
              /\ [c EXCEPT !.op = "issue"] =
                   [op |-> "issue", user |-> c.user, role |-> c.role]
         /\ c.op = "revoke" =>
              /\ [c EXCEPT !.op = "recheck"] \in Call
              /\ [c EXCEPT !.op = "recheck"] =
                   [op |-> "recheck", user |-> c.user, row |-> c.row]
BY DEF Call, Idle

(* The types of the first two layers are those of AccountsTypeOK.          *)
LEMMA TypesOfTables ==
  TablesInv /\ RightsInv => AccountsTypeOK
BY DEF TablesInv, UsersTyped, SessionsTyped, TimesTyped, HistoriesTyped, CallsTyped, RightsInv,
       AccountsTypeOK

(* Rows keep their types whatever columns are written.                     *)
LEMMA NewUserTyped ==
  ASSUME NEW mobile \in Mobiles, NEW active \in BOOLEAN, NEW role \in Roles
  PROVE  /\ NewUser(mobile, active) \in User
         /\ [NewUser(mobile, active) EXCEPT !.role = role] \in User
<1>1. 0 \in 0..MaxCodes
  BY AccountsAssumption
<1>2. NewUser(mobile, active) \in User
  BY <1>1 DEF NewUser, User, Roles
<1> QED
  BY <1>2 DEF User

LEMMA UserWritten ==
  ASSUME NEW row \in User, NEW role \in Roles, NEW active \in BOOLEAN,
         NEW otp \in 0..MaxCodes, NEW password \in BOOLEAN
  PROVE  /\ [row EXCEPT !.otp = otp] \in User
         /\ [row EXCEPT !.otp = otp, !.active = active] \in User
         /\ [row EXCEPT !.password = password] \in User
         /\ [row EXCEPT !.active = active, !.role = role] \in User
         /\ [row EXCEPT !.role = role] \in User
BY DEF User

(* A request that goes on to call writes no table of accounts.             *)
LEMMA CallAlone ==
  ASSUME TablesInv, NEW w \in Workers, NEW call \in Call, Goto(w, call),
         w \in Clients => call.op \in ClientOps,
         w \in Admins => call.op \in AdminOps,
         call.op \in ReaderOps => made[call.user] # "no",
         call.op = "commit" => call.user \in FreeIds,
         UNCHANGED <<users, wallets, carts, made>>
  PROVE  UsersTyped' /\ CallsTyped' /\ IdsTaken' /\ AccountComplete'
<1>1. UsersTyped' /\ AccountComplete'
  BY DEF TablesInv, UsersTyped, AccountComplete, Exists
<1>2. calls' = [calls EXCEPT ![w] = call] /\ calls \in [Workers -> Call]
  BY DEF Goto, TablesInv, CallsTyped
<1>3. CallsTyped'
  BY <1>2, AccountsAssumption DEF TablesInv, CallsTyped, Workers
<1>4. \A v \in Workers : calls'[v] = IF v = w THEN call ELSE calls[v]
  BY <1>2
<1>5. IdsTaken'
  <2>1. \A u \in Ids : Exists(u)' => made'[u] # "no"
    BY DEF TablesInv, IdsTaken, Exists
  <2>2. \A v \in Workers : calls'[v].op \in ReaderOps => made'[calls'[v].user] # "no"
    BY <1>4 DEF TablesInv, IdsTaken
  <2>3. \A v \in Workers : In(v, "commit")' => made'[calls'[v].user] = "no"
    BY <1>4 DEF TablesInv, IdsTaken, FreeIds, In
  <2>4. \A v, x \in Workers :
          In(v, "commit")' /\ In(x, "commit")' /\ calls'[v].user = calls'[x].user => v = x
    BY <1>4 DEF TablesInv, IdsTaken, FreeIds, In
  <2> QED
    BY <2>1, <2>2, <2>3, <2>4 DEF IdsTaken
<1> QED
  BY <1>1, <1>3, <1>5

(* Histories of the tick keep their types.                                 *)
LEMMA HistoriesKeepTypes ==
  ASSUME HistoriesTyped, UsersTyped, UsersTyped', Remember
  PROVE  HistoriesTyped'
<1>1. \A u \in Ids : RolesNow(u) \subseteq Roles /\ RolesNow(u)' \subseteq Roles
  BY DEF UsersTyped, RolesNow, Exists, User
<1>2. OnNow \subseteq Ids /\ OnNow' \subseteq Ids
  BY DEF OnNow
<1> QED
  BY <1>1, <1>2 DEF HistoriesTyped, Remember

-----------------------------------------------------------------------------
(* Layer 1: the first states, and every step.                              *)
LEMMA TablesStart ==
  AccountsInit => TablesInv
<1> SUFFICES ASSUME AccountsInit PROVE TablesInv
  OBVIOUS
<1>1. UsersTyped /\ HistoriesTyped /\ TimesTyped
  BY AccountsAssumption
  DEF AccountsInit, UsersTyped, HistoriesTyped, TimesTyped
<1>2. SessionsTyped
  BY AccountsAssumption DEF AccountsInit, SessionsTyped
<1>3. \A w \in Workers : calls[w] = Idle
  BY DEF AccountsInit
<1>4. CallsTyped
  BY <1>3 DEF AccountsInit, CallsTyped, Call, Idle, ClientOps, AdminOps, Workers
<1>5. IdsTaken
  BY <1>3 DEF AccountsInit, IdsTaken, Exists, ReaderOps, In, Idle
<1>6. AccountComplete
  BY DEF AccountsInit, AccountComplete, Exists
<1> QED
  BY <1>1, <1>2, <1>4, <1>5, <1>6 DEF TablesInv

(* What a step that begins or continues a client's request keeps when it   *)
(* writes neither accounts nor sessions.                                   *)
LEMMA OnlyCalls ==
  ASSUME TablesInv, Remember, UsersTyped', CallsTyped', IdsTaken', AccountComplete',
         SessionsTyped', TimesTyped'
  PROVE  TablesInv'
BY HistoriesKeepTypes DEF TablesInv

LEMMA SessionsUntouched ==
  ASSUME TablesInv, UNCHANGED <<tokens, issued, access, held>>, spoiled' \subseteq Jwt,
         \A u \in Ids : Exists(u) => Exists(u)'
  PROVE  SessionsTyped'
<1>1. \A i \in 1..MaxTokens : tokens[i] # NoToken => tokens[i].user \in Ids
  BY DEF TablesInv, SessionsTyped, Jwt
<1> QED
  BY <1>1 DEF TablesInv, SessionsTyped

(* A client begins a request, or goes on with one, by reading.             *)
ClientReads(c) ==
  \/ \E mobile \in Mobiles, portal \in Portals :
       \/ RequestCode(c, mobile, portal)
       \/ BeginVerify(c, mobile, portal)
       \/ LoginWithPassword(c, mobile, portal)
  \/ InsertUser(c)
  \/ BeginRefresh(c)
  \/ \E portal \in Portals : Recheck(c, portal)

LEMMA ClientReadsTables ==
  ASSUME TablesInv, Remember, NEW c \in Clients, ClientReads(c)
  PROVE  TablesInv'
<1>1. SessionsTyped' /\ TimesTyped' /\ UNCHANGED <<users, wallets, carts, made>>
  <2>1. UNCHANGED <<tokens, issued, access, held>> /\ UNCHANGED <<times, edits>>
        /\ UNCHANGED <<users, wallets, carts, made>>
    BY DEF ClientReads, RequestCode, BeginVerify, LoginWithPassword, InsertUser, BeginRefresh,
           Recheck, sessions, accounts
  <2>2. spoiled' \subseteq Jwt
    BY DEF ClientReads, RequestCode, BeginVerify, LoginWithPassword, InsertUser, BeginRefresh,
           Recheck, Spoil, TablesInv, SessionsTyped
  <2>3. \A u \in Ids : Exists(u) => Exists(u)'
    BY <2>1 DEF Exists
  <2>4. TimesTyped'
    BY <2>1 DEF TablesInv, TimesTyped, times
  <2> QED
    BY <2>1, <2>2, <2>3, <2>4, SessionsUntouched
<1>2. c \in Workers /\ c \notin Admins /\ calls[c] \in Call
  BY AccountsAssumption DEF Workers, TablesInv, CallsTyped
<1>3. \A u \in Ids : Exists(u) => made[u] # "no" /\ users[u] \in User
  BY DEF TablesInv, IdsTaken, UsersTyped, Exists
<1>4. PICK call \in Call :
        /\ Goto(c, call)
        /\ call.op \in ClientOps
        /\ call.op \in ReaderOps => made[call.user] # "no"
        /\ call.op = "commit" => call.user \in FreeIds
  <2> DEFINE Fine(call) ==
               /\ call \in Call
               /\ call.op \in ClientOps
               /\ call.op \in ReaderOps => made[call.user] # "no"
               /\ call.op = "commit" => call.user \in FreeIds
  <2>1. Fine(Idle)
    BY DEF Call, Idle, ClientOps, ReaderOps
  <2>2. \A u \in Ids : made[u] # "no" => Fine([op |-> "code", user |-> u])
    BY DEF Call, Idle, ClientOps, ReaderOps
  <2>3. \A u \in Ids, role \in Roles :
          made[u] # "no" =>
            /\ Fine([op |-> "accept", user |-> u, role |-> role])
            /\ Fine([op |-> "issue", user |-> u, role |-> role])
    BY DEF Call, Idle, ClientOps, ReaderOps
  <2>4. \A u \in Ids, row \in 1..MaxTokens :
          made[u] # "no" => Fine([op |-> "revoke", user |-> u, row |-> row])
    BY DEF Call, Idle, ClientOps, ReaderOps
  <2>5. \A mobile \in Mobiles : Fine([op |-> "insert", mobile |-> mobile])
    BY DEF Call, Idle, ClientOps, ReaderOps
  <2>6. \A u \in FreeIds : calls[c].op = "insert" =>
          Fine([op |-> "commit", mobile |-> calls[c].mobile, user |-> u])
    BY <1>2, CallKinds DEF Call, Idle, ClientOps, ReaderOps, FreeIds
  <2>7. \E call : Fine(call) /\ Goto(c, call)
    <3> HIDE DEF Fine
    <3>1. CASE \E mobile \in Mobiles, portal \in Portals : RequestCode(c, mobile, portal)
      BY <3>1, <1>3, <2>2, <2>5 DEF RequestCode, Accept, Named
    <3>2. CASE \E mobile \in Mobiles, portal \in Portals : BeginVerify(c, mobile, portal)
      BY <3>2, <1>3, <2>3 DEF BeginVerify, Accept, Named, User
    <3>3. CASE \E mobile \in Mobiles, portal \in Portals : LoginWithPassword(c, mobile, portal)
      BY <3>3, <1>3, <2>3 DEF LoginWithPassword, Accept, Named, User
    <3>4. CASE InsertUser(c)
      BY <3>4, <2>1, <2>6 DEF InsertUser, In
    <3>5. CASE BeginRefresh(c)
      <4>1. PICK row \in 1..MaxTokens :
              /\ tokens[row] # NoToken
              /\ tokens[row] = held[c]
              /\ Goto(c, [op |-> "revoke", user |-> held[c].user, row |-> row])
        BY <3>5 DEF BeginRefresh, Accept
      <4>2. held[c].user \in Ids /\ made[held[c].user] # "no"
        BY <4>1, <1>3 DEF TablesInv, SessionsTyped, Jwt
      <4> QED
        BY <4>1, <4>2, <2>4
    <3>6. CASE \E portal \in Portals : Recheck(c, portal)
      <4>1. calls[c].op = "recheck" /\ calls[c].user \in Ids
        BY <3>6, <1>2, CallKinds DEF Recheck, In, ReaderOps
      <4> QED
        BY <3>6, <4>1, <1>3, <2>1, <2>3 DEF Recheck, MayRefresh, User
    <3> QED
      BY <3>1, <3>2, <3>3, <3>4, <3>5, <3>6 DEF ClientReads
  <2> QED
    BY <2>7
<1>5. UsersTyped' /\ CallsTyped' /\ IdsTaken' /\ AccountComplete'
  BY <1>1, <1>2, <1>4, CallAlone
<1> QED
  BY <1>1, <1>5, OnlyCalls

(* The steps that write refresh tokens.                                    *)
LEMMA RevokeKeepsTables ==
  ASSUME TablesInv, Remember, NEW c \in Clients, RevokeToken(c)
  PROVE  TablesInv'
<1>1. c \in Workers /\ c \notin Admins /\ calls[c] \in Call /\ calls[c].op = "revoke"
  BY AccountsAssumption DEF Workers, TablesInv, CallsTyped, RevokeToken, In
<1>2. calls[c].row \in 1..MaxTokens
  BY <1>1, CallKinds
<1>3. SessionsTyped'
  BY <1>2 DEF RevokeToken, Revoked, TablesInv, SessionsTyped, Exists, accounts
<1>4. TimesTyped'
  BY DEF RevokeToken, TablesInv, TimesTyped, times
<1>5. [calls[c] EXCEPT !.op = "recheck"] \in Call
      /\ [calls[c] EXCEPT !.op = "recheck"].op = "recheck"
      /\ [calls[c] EXCEPT !.op = "recheck"].user = calls[c].user
  <2>1. /\ [calls[c] EXCEPT !.op = "recheck"] \in Call
        /\ [calls[c] EXCEPT !.op = "recheck"] =
             [op |-> "recheck", user |-> calls[c].user, row |-> calls[c].row]
    BY <1>1, NextOp
  <2> QED
    BY <2>1
<1>6. made[calls[c].user] # "no"
  BY <1>1 DEF TablesInv, IdsTaken, ReaderOps
<1>7. Goto(c, [calls[c] EXCEPT !.op = "recheck"]) /\ UNCHANGED <<users, wallets, carts, made>>
  BY DEF RevokeToken, accounts
<1>8. UsersTyped' /\ CallsTyped' /\ IdsTaken' /\ AccountComplete'
  BY <1>1, <1>5, <1>6, <1>7, CallAlone DEF ClientOps
<1> QED
  BY <1>3, <1>4, <1>8, OnlyCalls

LEMMA IdleFits ==
  Idle \in Call /\ Idle.op \in ClientOps \cap AdminOps /\ Idle.op \notin ReaderOps \cup {"commit"}
BY DEF Idle, Call, ClientOps, AdminOps, ReaderOps

LEMMA IssueKeepsTables ==
  ASSUME TablesInv, Remember, NEW c \in Clients, IssueTokens(c)
  PROVE  TablesInv'
<1>1. c \in Workers /\ c \notin Admins /\ calls[c] \in Call /\ calls[c].op = "issue"
  BY AccountsAssumption DEF Workers, TablesInv, CallsTyped, IssueTokens, In
<1>2. calls[c].user \in Ids /\ calls[c].role \in Roles
  BY <1>1, CallKinds DEF ReaderOps
<1>3. Goto(c, Idle) /\ UNCHANGED <<users, wallets, carts, made>>
  BY DEF IssueTokens, accounts
<1>4. SessionsTyped'
  <2>1. \A u : Exists(u)' <=> Exists(u)
    BY <1>3 DEF Exists
  <2>2. CASE Exists(calls[c].user) /\ issued < MaxTokens /\ issued' = issued + 1
    <3>1. PICK second \in Seconds :
            LET jwt == [user |-> calls[c].user, role |-> calls[c].role, at |-> clock,
                        second |-> second]
            IN  /\ tokens' = [tokens EXCEPT ![issued + 1] = jwt]
                /\ \/ held' = [held EXCEPT ![c] = jwt] /\ UNCHANGED spoiled
                   \/ Spoil({held[c]}) /\ UNCHANGED held
      BY <2>2 DEF IssueTokens
    <3> DEFINE jwt == [user |-> calls[c].user, role |-> calls[c].role, at |-> clock,
                       second |-> second]
    <3>2. jwt \in Jwt /\ jwt.user = calls[c].user
      BY <1>2 DEF TablesInv, TimesTyped, Jwt
    <3>3. access' = access \cup
                      {[user |-> calls[c].user, role |-> calls[c].role, at |-> clock]}
      BY <2>2 DEF IssueTokens
    <3>4. access' \subseteq [user : Ids, role : Roles, at : 0..MaxClock]
      BY <3>3, <1>2 DEF TablesInv, TimesTyped, SessionsTyped
    <3> HIDE DEF jwt
    <3>5. tokens' = [tokens EXCEPT ![issued + 1] = jwt]
      BY <3>1 DEF jwt
    <3>6. held' \in [Clients -> Jwt \cup {NoToken}]
      BY <3>1, <3>2 DEF TablesInv, SessionsTyped, jwt
    <3>7. spoiled' \subseteq Jwt
      BY <3>1 DEF TablesInv, SessionsTyped, Spoil
    <3>8. issued' \in 0..MaxTokens /\ issued + 1 \in 1..MaxTokens
      BY <2>2, AccountsAssumption DEF TablesInv, SessionsTyped
    <3>9. tokens' \in [1..MaxTokens -> Jwt \cup {NoToken}]
      BY <3>5, <3>2, <3>8 DEF TablesInv, SessionsTyped
    <3>10. \A i \in 1..MaxTokens : tokens'[i] # NoToken => 
                   i <= issued' /\ users'[tokens'[i].user] # NoUser
      BY <1>3, <2>2, <3>5, <3>2, <3>8 DEF TablesInv, SessionsTyped, Exists
    <3> QED
      BY <3>4, <3>6, <3>7, <3>8, <3>9, <3>10 DEF SessionsTyped, Exists
  <2>3. CASE ~Exists(calls[c].user) /\ Spoil({held[c]}) /\ UNCHANGED <<sessions>>
    <3>1. UNCHANGED <<tokens, issued, access, held>>
      BY <2>3 DEF sessions
    <3>2. spoiled' \subseteq Jwt
      BY <2>3 DEF Spoil, TablesInv, SessionsTyped
    <3> QED
      BY <2>1, <3>1, <3>2, SessionsUntouched
  <2> QED
    BY <2>2, <2>3 DEF IssueTokens
<1>5. TimesTyped'
  BY DEF IssueTokens, TablesInv, TimesTyped, times
<1>6. UsersTyped' /\ CallsTyped' /\ IdsTaken' /\ AccountComplete'
  BY <1>1, <1>3, IdleFits, CallAlone
<1> QED
  BY <1>4, <1>5, <1>6, OnlyCalls

(* The steps that write a row of users, and go on to call.                 *)
LEMMA RowWritten ==
  ASSUME TablesInv, NEW u \in Ids, NEW row \in User, Exists(u) \/ made'[u] = "revived",
         users' = [users EXCEPT ![u] = row],
         made' = made \/ made' = [made EXCEPT ![u] = "revived"],
         UNCHANGED <<wallets, carts>>
  PROVE  /\ UsersTyped'
         /\ AccountComplete'
         /\ \A v \in Ids : Exists(v) => Exists(v)'
         /\ \A v \in Ids : Exists(v)' => made'[v] # "no"
<1>1. row # NoUser
  BY AccountsAssumption
<1>2. UsersTyped'
  BY DEF TablesInv, UsersTyped
<1>3. \A v \in Ids : users'[v] = IF v = u THEN row ELSE users[v]
  BY DEF TablesInv, UsersTyped
<1>4. \A v \in Ids : made'[v] = made[v] \/ made'[v] = "revived"
  BY DEF TablesInv, UsersTyped
<1>5. \A v \in Ids : Exists(v)' => Exists(v) \/ made'[v] = "revived"
  BY <1>3 DEF Exists
<1>6. AccountComplete'
  BY <1>4, <1>5 DEF TablesInv, AccountComplete
<1> QED
  BY <1>1, <1>2, <1>3, <1>4, <1>5, <1>6 DEF Exists, TablesInv, IdsTaken

(* Requests after a step that gives an account its place in made.          *)
LEMMA IdsStay ==
  ASSUME TablesInv, NEW w \in Workers, NEW call \in Call, Goto(w, call),
         w \in Clients => call.op \in ClientOps,
         w \in Admins => call.op \in AdminOps,
         call.op \in ReaderOps => made'[call.user] # "no",
         call.op # "commit",
         \A u \in Ids : made[u] # "no" => made'[u] # "no",
         \A u \in Ids : Exists(u)' => made'[u] # "no",
         \A v \in Workers \ {w} : In(v, "commit") => made'[calls[v].user] = "no"
  PROVE  CallsTyped' /\ IdsTaken'
<1>1. calls' = [calls EXCEPT ![w] = call] /\ calls \in [Workers -> Call]
  BY DEF Goto, TablesInv, CallsTyped
<1>2. CallsTyped'
  BY <1>1, AccountsAssumption DEF TablesInv, CallsTyped, Workers
<1>3. \A v \in Workers : calls'[v] = IF v = w THEN call ELSE calls[v]
  BY <1>1
<1>4. \A v \in Workers : calls'[v].op \in ReaderOps => made'[calls'[v].user] # "no"
  BY <1>1, <1>3, CallKinds DEF TablesInv, IdsTaken
<1>5. \A v \in Workers : In(v, "commit")' => made'[calls'[v].user] = "no"
  BY <1>3 DEF In
<1>6. \A v, x \in Workers :
        In(v, "commit")' /\ In(x, "commit")' /\ calls'[v].user = calls'[x].user => v = x
  BY <1>3 DEF In, TablesInv, IdsTaken
<1> QED
  BY <1>2, <1>4, <1>5, <1>6 DEF IdsTaken

(* A row made under a free id, or under the one a sign-up has taken.       *)
LEMMA RowInserted ==
  ASSUME TablesInv, NEW u \in Ids, NEW row \in User, made[u] = "no",
         NEW how \in {"signup", "bare"},
         users' = [users EXCEPT ![u] = row],
         made' = [made EXCEPT ![u] = how],
         \/ how = "signup" /\ carts' = carts \cup {u} /\ wallets' = wallets \cup {u}
         \/ how = "bare" /\ UNCHANGED <<wallets, carts>>
  PROVE  /\ UsersTyped'
         /\ AccountComplete'
         /\ \A v \in Ids : Exists(v) => Exists(v)'
         /\ \A v \in Ids : Exists(v)' => made'[v] # "no"
         /\ \A v \in Ids : made[v] # "no" => made'[v] # "no"
<1>1. row # NoUser
  BY AccountsAssumption
<1>2. UsersTyped'
  BY DEF TablesInv, UsersTyped
<1>3. \A v \in Ids : users'[v] = IF v = u THEN row ELSE users[v]
  BY DEF TablesInv, UsersTyped
<1>4. \A v \in Ids : made'[v] = IF v = u THEN how ELSE made[v]
  BY DEF TablesInv, UsersTyped
<1>5. \A v \in Ids \ {u} : Exists(v)' <=> Exists(v)
  BY <1>3 DEF Exists
<1>6. AccountComplete'
  BY <1>4, <1>5 DEF TablesInv, AccountComplete
<1> QED
  BY <1>1, <1>2, <1>3, <1>4, <1>5, <1>6 DEF Exists, TablesInv, IdsTaken

LEMMA CommitKeepsTables ==
  ASSUME TablesInv, Remember, NEW c \in Clients, CommitSignup(c)
  PROVE  TablesInv'
<1> DEFINE u == calls[c].user
           call == [op |-> "code", user |-> u]
<1>1. c \in Workers /\ c \notin Admins /\ calls[c] \in Call /\ calls[c].op = "commit"
  BY AccountsAssumption DEF Workers, TablesInv, CallsTyped, CommitSignup, In
<1>2. u \in Ids /\ calls[c].mobile \in Mobiles
  BY <1>1, CallKinds
<1>3. made[u] = "no" /\ \A v \in Workers \ {c} : In(v, "commit") => calls[v].user # u
  BY <1>1 DEF TablesInv, IdsTaken, In
<1>4. /\ users' = [users EXCEPT ![u] = NewUser(calls[c].mobile, TRUE)]
      /\ made' = [made EXCEPT ![u] = "signup"]
      /\ carts' = carts \cup {u} /\ wallets' = wallets \cup {u}
      /\ Goto(c, call)
  BY DEF CommitSignup, WithWallet
<1>5. NewUser(calls[c].mobile, TRUE) \in User
  BY <1>2, NewUserTyped DEF Roles
<1>6. /\ UsersTyped' /\ AccountComplete'
      /\ \A v \in Ids : Exists(v) => Exists(v)'
      /\ \A v \in Ids : Exists(v)' => made'[v] # "no"
      /\ \A v \in Ids : made[v] # "no" => made'[v] # "no"
  BY <1>2, <1>3, <1>4, <1>5, RowInserted
<1>7. call \in Call /\ call.op \in ClientOps /\ call.op # "commit" /\ call.user = u
  BY <1>2 DEF Call, ClientOps
<1>8. \A v \in Ids : made'[v] = IF v = u THEN "signup" ELSE made[v]
  BY <1>4 DEF TablesInv, UsersTyped
<1>9. \A v \in Workers \ {c} : In(v, "commit") => made'[calls[v].user] = "no"
  BY <1>3, <1>8, CallKinds DEF In, TablesInv, IdsTaken, CallsTyped
<1>10. CallsTyped' /\ IdsTaken'
  BY <1>1, <1>2, <1>4, <1>6, <1>7, <1>8, <1>9, IdsStay
<1>11. SessionsTyped' /\ TimesTyped'
  <2>1. UNCHANGED <<tokens, issued, access, held>> /\ UNCHANGED <<codes, stale, clock>>
        /\ UNCHANGED <<spoiled, edits>>
    BY DEF CommitSignup, sessions, times
  <2>2. spoiled' \subseteq Jwt
    BY <2>1 DEF TablesInv, SessionsTyped
  <2> QED
    BY <2>1, <2>2, <1>6, SessionsUntouched DEF TablesInv, TimesTyped
<1> QED
  BY <1>6, <1>10, <1>11, OnlyCalls

LEMMA StoreKeepsTables ==
  ASSUME TablesInv, Remember, NEW a \in Admins, StoreUser(a)
  PROVE  TablesInv'
<1>1. a \in Workers /\ a \notin Clients /\ calls[a] \in Call /\ calls[a].op = "store"
  BY AccountsAssumption DEF Workers, TablesInv, CallsTyped, StoreUser, In
<1>2. calls[a].mobile \in Mobiles
  BY <1>1, CallKinds
<1>3. UNCHANGED <<tokens, issued, access, held>> /\ UNCHANGED <<codes, stale, clock>>
      /\ UNCHANGED <<wallets, carts, spoiled, edits>>
  BY DEF StoreUser, sessions, times
<1>4. TimesTyped' /\ spoiled' \subseteq Jwt
  BY <1>3 DEF TablesInv, TimesTyped, SessionsTyped
<1>5. CASE Goto(a, Idle) /\ UNCHANGED <<users, made>>
  <2>1. UsersTyped' /\ CallsTyped' /\ IdsTaken' /\ AccountComplete'
    BY <1>1, <1>3, <1>5, IdleFits, CallAlone
  <2>2. SessionsTyped'
    BY <1>3, <1>4, <1>5, SessionsUntouched DEF Exists
  <2> QED
    BY <1>4, <2>1, <2>2, OnlyCalls
<1>6. ASSUME NEW u \in FreeIds, NEW active \in BOOLEAN,
             users' = [users EXCEPT ![u] = NewUser(calls[a].mobile, active)],
             made' = [made EXCEPT ![u] = "bare"],
             Goto(a, [op |-> "wallet", user |-> u])
      PROVE  TablesInv'
  <2>1. u \in Ids /\ made[u] = "no"
        /\ \A v \in Workers : In(v, "commit") => calls[v].user # u
    BY DEF FreeIds
  <2>2. NewUser(calls[a].mobile, active) \in User
    BY <1>2, NewUserTyped DEF Roles
  <2>3. /\ UsersTyped' /\ AccountComplete'
        /\ \A v \in Ids : Exists(v) => Exists(v)'
        /\ \A v \in Ids : Exists(v)' => made'[v] # "no"
        /\ \A v \in Ids : made[v] # "no" => made'[v] # "no"
    BY <1>3, <1>6, <2>1, <2>2, RowInserted
  <2> DEFINE call == [op |-> "wallet", user |-> u]
  <2>4. call \in Call /\ call.op \in AdminOps /\ call.op # "commit" /\ call.user = u
    BY <2>1 DEF Call, AdminOps
  <2>5. \A v \in Ids : made'[v] = IF v = u THEN "bare" ELSE made[v]
    BY <1>6 DEF TablesInv, UsersTyped
  <2>6. \A v \in Workers \ {a} : In(v, "commit") => made'[calls[v].user] = "no"
    BY <2>1, <2>5, CallKinds DEF In, TablesInv, IdsTaken, CallsTyped
  <2>7. CallsTyped' /\ IdsTaken'
    BY <1>1, <1>6, <2>1, <2>3, <2>4, <2>5, <2>6, IdsStay
  <2>8. SessionsTyped'
    BY <1>3, <1>4, <2>3, SessionsUntouched
  <2> QED
    BY <1>4, <2>3, <2>7, <2>8, OnlyCalls
<1> QED
  BY <1>5, <1>6 DEF StoreUser

LEMMA SendKeepsTables ==
  ASSUME TablesInv, Remember, NEW c \in Clients, SendCode(c)
  PROVE  TablesInv'
<1>1. c \in Workers /\ c \notin Admins /\ calls[c] \in Call /\ calls[c].op = "code"
  BY AccountsAssumption DEF Workers, TablesInv, CallsTyped, SendCode, In
<1>2. calls[c].user \in Ids
  BY <1>1, CallKinds DEF ReaderOps
<1>3. Goto(c, Idle) /\ UNCHANGED <<wallets, carts, made>>
      /\ UNCHANGED <<tokens, issued, access, held>> /\ UNCHANGED <<spoiled, stale, clock, edits>>
      /\ codes < MaxCodes /\ codes' = codes + 1
  BY DEF SendCode, sessions
<1>4. codes' \in 1..MaxCodes /\ TimesTyped'
  BY <1>3, AccountsAssumption DEF TablesInv, TimesTyped
<1>5. spoiled' \subseteq Jwt
  BY <1>3 DEF TablesInv, SessionsTyped
<1>6. CASE ~Exists(calls[c].user)
  <2>1. UNCHANGED users
    BY <1>6 DEF SendCode
  <2>2. UsersTyped' /\ CallsTyped' /\ IdsTaken' /\ AccountComplete'
    BY <1>1, <1>3, <2>1, IdleFits, CallAlone
  <2> QED
    BY <1>3, <1>4, <1>5, <2>1, <2>2, SessionsUntouched, OnlyCalls DEF Exists
<1>7. CASE Exists(calls[c].user)
  <2> DEFINE u == calls[c].user
             row == [users[u] EXCEPT !.otp = codes']
  <2>1. users[u] \in User
    BY <1>2, <1>7 DEF TablesInv, UsersTyped, Exists
  <2>2. row \in User
    BY <2>1, <1>4, AccountsAssumption DEF User
  <2>3. users' = [users EXCEPT ![u] = row]
    BY <1>3, <1>7 DEF SendCode
  <2> HIDE DEF row
  <2>4. /\ UsersTyped' /\ AccountComplete'
        /\ \A v \in Ids : Exists(v) => Exists(v)'
        /\ \A v \in Ids : Exists(v)' => made'[v] # "no"
    BY <1>2, <1>3, <1>7, <2>2, <2>3, RowWritten
  <2>5. CallsTyped' /\ IdsTaken'
    BY <1>1, <1>3, <2>4, IdleFits, IdsStay DEF TablesInv, IdsTaken
  <2>6. SessionsTyped'
    BY <1>3, <1>5, <2>4, SessionsUntouched
  <2> QED
    BY <1>4, <2>4, <2>5, <2>6, OnlyCalls
<1> QED
  BY <1>6, <1>7

LEMMA AcceptKeepsTables ==
  ASSUME TablesInv, Remember, NEW c \in Clients, AcceptCode(c)
  PROVE  TablesInv'
<1> DEFINE u == calls[c].user
           call == [calls[c] EXCEPT !.op = "issue"]
<1>1. c \in Workers /\ c \notin Admins /\ calls[c] \in Call /\ calls[c].op = "accept"
  BY AccountsAssumption DEF Workers, TablesInv, CallsTyped, AcceptCode, In
<1>2. u \in Ids /\ made[u] # "no"
  BY <1>1, CallKinds DEF ReaderOps, TablesInv, IdsTaken
<1>3. call \in Call /\ call.op = "issue" /\ call.user = u
  <2>1. call \in Call /\ call = [op |-> "issue", user |-> u, role |-> calls[c].role]
    BY <1>1, NextOp
  <2> QED
    BY <2>1
<1>4. Goto(c, call) /\ UNCHANGED <<wallets, carts, made>>
      /\ UNCHANGED <<tokens, issued, access, held>> /\ UNCHANGED <<spoiled, edits>>
      /\ UNCHANGED <<codes, stale, clock>>
  BY DEF AcceptCode, sessions, times
<1>5. TimesTyped' /\ spoiled' \subseteq Jwt
  BY <1>4 DEF TablesInv, TimesTyped, SessionsTyped
<1> HIDE DEF call
<1>6. CASE ~Exists(u)
  <2>1. UNCHANGED users
    BY <1>6 DEF AcceptCode
  <2>2. UsersTyped' /\ CallsTyped' /\ IdsTaken' /\ AccountComplete'
    BY <1>1, <1>2, <1>3, <1>4, <2>1, CallAlone DEF ClientOps
  <2> QED
    BY <1>4, <1>5, <2>1, <2>2, SessionsUntouched, OnlyCalls DEF Exists
<1>7. CASE Exists(u)
  <2> DEFINE row == [users[u] EXCEPT !.otp = 0, !.active = TRUE]
  <2>1. users[u] \in User
    BY <1>2, <1>7 DEF TablesInv, UsersTyped, Exists
  <2>2. row \in User
    <3>1. 0 \in 0..MaxCodes
      BY AccountsAssumption
    <3> QED
      BY <2>1, <3>1 DEF User
  <2>3. users' = [users EXCEPT ![u] = row]
    BY <1>7 DEF AcceptCode
  <2> HIDE DEF row
  <2>4. /\ UsersTyped' /\ AccountComplete'
        /\ \A v \in Ids : Exists(v) => Exists(v)'
        /\ \A v \in Ids : Exists(v)' => made'[v] # "no"
    BY <1>2, <1>4, <1>7, <2>2, <2>3, RowWritten
  <2>5. CallsTyped' /\ IdsTaken'
    BY <1>1, <1>2, <1>3, <1>4, <2>4, IdsStay DEF TablesInv, IdsTaken, ClientOps
  <2>6. SessionsTyped'
    BY <1>4, <1>5, <2>4, SessionsUntouched
  <2> QED
    BY <1>5, <2>4, <2>5, <2>6, OnlyCalls
<1> QED
  BY <1>6, <1>7

(* Without a request of their own: a password is set, a role assigned.     *)
LEMMA ColumnKeepsTables ==
  ASSUME TablesInv, Remember, NEW u \in Ids, SetPassword(u) \/ AssignRole(u)
  PROVE  TablesInv'
<1>1. Exists(u) /\ users[u] \in User
  BY DEF SetPassword, AssignRole, TablesInv, UsersTyped, Exists
<1>2. UNCHANGED <<wallets, carts, made, calls>>
      /\ UNCHANGED <<tokens, issued, access, held>> /\ UNCHANGED spoiled
      /\ UNCHANGED <<codes, stale, clock>>
  BY DEF SetPassword, AssignRole, sessions, times
<1>3. TimesTyped' /\ spoiled' \subseteq Jwt
  <2>1. edits' \in 0..MaxEdits
    BY AccountsAssumption DEF SetPassword, AssignRole, Edit, TablesInv, TimesTyped
  <2> QED
    BY <1>2, <2>1 DEF TablesInv, TimesTyped, SessionsTyped
<1>4. PICK row \in User : users' = [users EXCEPT ![u] = row]
  <2>1. [users[u] EXCEPT !.password = TRUE] \in User /\ [users[u] EXCEPT !.role = "seller"] \in User
    BY <1>1 DEF User, Roles
  <2> QED
    BY <2>1 DEF SetPassword, AssignRole
<1>5. /\ UsersTyped' /\ AccountComplete'
      /\ \A v \in Ids : Exists(v) => Exists(v)'
      /\ \A v \in Ids : Exists(v)' => made'[v] # "no"
  BY <1>1, <1>2, <1>4, RowWritten
<1>6. CallsTyped' /\ IdsTaken'
  BY <1>2, <1>5 DEF TablesInv, CallsTyped, IdsTaken, In
<1>7. SessionsTyped'
  BY <1>2, <1>3, <1>5, SessionsUntouched
<1> QED
  BY <1>3, <1>5, <1>6, <1>7, OnlyCalls

(* What admins begin, and requests cut short.                              *)
LEMMA BeginKeepsTables ==
  ASSUME TablesInv, Remember, NEW w \in Workers,
         \/ \E mobile \in Mobiles : w \in Admins /\ BeginCreate(w, mobile)
         \/ \E u \in Ids : w \in Admins /\ BeginUpdate(w, u)
         \/ CutOff(w)
  PROVE  TablesInv'
<1>1. UNCHANGED <<users, wallets, carts, made>> /\ UNCHANGED <<tokens, issued, access, held>>
      /\ UNCHANGED <<codes, stale, clock>>
  BY DEF BeginCreate, BeginUpdate, CutOff, accounts, sessions, times
<1>2. edits' \in 0..MaxEdits
  <2>1. UNCHANGED edits \/ Edit
    BY DEF BeginCreate, BeginUpdate, CutOff
  <2> QED
    BY <2>1, AccountsAssumption DEF Edit, TablesInv, TimesTyped
<1>3. spoiled' \subseteq Jwt
  <2>1. CASE UNCHANGED spoiled
    BY <2>1 DEF TablesInv, SessionsTyped
  <2>2. CASE calls[w].op \in {"recheck", "issue"} /\ Spoil({held[w]})
    <3>1. w \in Clients
      BY <2>2 DEF TablesInv, CallsTyped, AdminOps, Workers
    <3> QED
      BY <2>2, <3>1 DEF Spoil, TablesInv, SessionsTyped
  <2> QED
    BY <2>1, <2>2 DEF BeginCreate, BeginUpdate, CutOff, In
<1>4. PICK call \in Call :
        /\ Goto(w, call)
        /\ w \in Clients => call.op \in ClientOps
        /\ w \in Admins => call.op \in AdminOps
        /\ call.op \in ReaderOps => made[call.user] # "no"
        /\ call.op # "commit"
  <2>1. CASE \E mobile \in Mobiles : w \in Admins /\ BeginCreate(w, mobile)
    <3>1. PICK mobile \in Mobiles : w \in Admins /\ Goto(w, [op |-> "store", mobile |-> mobile])
      BY <2>1 DEF BeginCreate, Accept
    <3>2. [op |-> "store", mobile |-> mobile] \in Call
      BY DEF Call
    <3> QED
      BY <3>1, <3>2, AccountsAssumption DEF AdminOps, ReaderOps
  <2>2. CASE \E u \in Ids : w \in Admins /\ BeginUpdate(w, u)
    <3>1. PICK u \in Ids, active \in BOOLEAN, role \in Roles :
            /\ w \in Admins
            /\ Exists(u)
            /\ Goto(w, [op |-> "save", user |-> u, mobile |-> users[u].mobile, role |-> role,
                        active |-> active])
      BY <2>2 DEF BeginUpdate, Accept
    <3>2. users[u].mobile \in Mobiles /\ made[u] # "no"
      BY <3>1 DEF TablesInv, UsersTyped, IdsTaken, Exists, User
    <3> DEFINE call == [op |-> "save", user |-> u, mobile |-> users[u].mobile, role |-> role,
                        active |-> active]
    <3>3. call \in Call /\ call.op = "save" /\ call.user = u
      BY <3>2 DEF Call
    <3> HIDE DEF call
    <3>4. Goto(w, call)
      BY <3>1 DEF call
    <3> QED
      BY <3>1, <3>2, <3>3, <3>4, AccountsAssumption DEF AdminOps
  <2>3. CASE CutOff(w)
    BY <2>3, IdleFits DEF CutOff
  <2> QED
    BY <2>1, <2>2, <2>3
<1>5. UsersTyped' /\ CallsTyped' /\ IdsTaken' /\ AccountComplete'
  BY <1>1, <1>4, CallAlone
<1>6. SessionsTyped' /\ TimesTyped'
  BY <1>1, <1>2, <1>3, SessionsUntouched DEF Exists, TablesInv, TimesTyped
<1> QED
  BY <1>5, <1>6, OnlyCalls

LEMMA WalletKeepsTables ==
  ASSUME TablesInv, Remember, NEW a \in Admins, InitWallet(a)
  PROVE  TablesInv'
<1> DEFINE u == calls[a].user
<1>1. a \in Workers /\ a \notin Clients /\ calls[a] \in Call /\ calls[a].op = "wallet"
  BY AccountsAssumption DEF Workers, TablesInv, CallsTyped, InitWallet, In
<1>2. u \in Ids /\ made[u] # "no"
  BY <1>1, CallKinds DEF ReaderOps, TablesInv, IdsTaken
<1>3. Goto(a, Idle) /\ UNCHANGED <<users, carts>>
      /\ UNCHANGED <<tokens, issued, access, held>> /\ UNCHANGED <<spoiled, edits>>
      /\ UNCHANGED <<codes, stale, clock>>
      /\ wallets' = WalletOf(u)
      /\ made' = [made EXCEPT ![u] = IF @ = "revived" THEN @ ELSE "admin"]
  BY DEF InitWallet, sessions, times
<1>4. TimesTyped' /\ spoiled' \subseteq Jwt
  BY <1>3 DEF TablesInv, TimesTyped, SessionsTyped
<1>5. \A v \in Ids : made'[v] = IF v = u /\ made[v] # "revived" THEN "admin" ELSE made[v]
  BY <1>3 DEF TablesInv, UsersTyped
<1>6. \A v \in Ids : made[v] # "no" <=> made'[v] # "no"
  BY <1>2, <1>5
<1>7. wallets' = IF Exists(u) THEN wallets \cup {u} ELSE wallets
  BY <1>3 DEF WalletOf
<1>8. UsersTyped'
  BY <1>2, <1>3, <1>7 DEF TablesInv, UsersTyped
<1>9. AccountComplete'
  BY <1>3, <1>5, <1>7 DEF TablesInv, AccountComplete, Exists
<1>10. \A v \in Workers : In(v, "commit") => made'[calls[v].user] = "no"
  BY <1>6, CallKinds DEF TablesInv, CallsTyped, IdsTaken, In
<1>11. CallsTyped' /\ IdsTaken'
  BY <1>1, <1>3, <1>6, <1>10, IdleFits, IdsStay DEF Exists, TablesInv, IdsTaken
<1>12. SessionsTyped'
  BY <1>3, <1>4, SessionsUntouched DEF Exists
<1> QED
  BY <1>4, <1>8, <1>9, <1>11, <1>12, OnlyCalls

LEMMA SaveKeepsTables ==
  ASSUME TablesInv, Remember, NEW a \in Admins, SaveUser(a)
  PROVE  TablesInv'
<1> DEFINE u == calls[a].user
           old == calls[a]
<1>1. a \in Workers /\ a \notin Clients /\ calls[a] \in Call /\ calls[a].op = "save"
  BY AccountsAssumption DEF Workers, TablesInv, CallsTyped, SaveUser, In
<1>2. u \in Ids /\ made[u] # "no" /\ old.mobile \in Mobiles /\ old.role \in Roles
      /\ old.active \in BOOLEAN
  BY <1>1, CallKinds DEF ReaderOps, TablesInv, IdsTaken
<1>3. Goto(a, Idle) /\ UNCHANGED <<wallets, carts>>
      /\ UNCHANGED <<tokens, issued, access, held>> /\ UNCHANGED <<spoiled, edits>>
      /\ UNCHANGED <<codes, stale, clock>>
  BY DEF SaveUser, sessions, times
<1>4. TimesTyped' /\ spoiled' \subseteq Jwt
  BY <1>3 DEF TablesInv, TimesTyped, SessionsTyped
<1>5. CASE UNCHANGED <<users, made>>
  <2>1. UsersTyped' /\ CallsTyped' /\ IdsTaken' /\ AccountComplete'
    BY <1>1, <1>3, <1>5, IdleFits, CallAlone
  <2>2. SessionsTyped'
    BY <1>3, <1>4, <1>5, SessionsUntouched DEF Exists
  <2> QED
    BY <1>4, <2>1, <2>2, OnlyCalls
<1>6. ASSUME NEW row \in User, users' = [users EXCEPT ![u] = row],
             \/ Exists(u) /\ UNCHANGED made
             \/ made' = [made EXCEPT ![u] = "revived"]
      PROVE  TablesInv'
  <2>1. made'[u] = "revived" \/ Exists(u)
    BY <1>2, <1>6 DEF TablesInv, UsersTyped
  <2>2. made' = made \/ made' = [made EXCEPT ![u] = "revived"]
    BY <1>6
  <2>3. /\ UsersTyped' /\ AccountComplete'
        /\ \A v \in Ids : Exists(v) => Exists(v)'
        /\ \A v \in Ids : Exists(v)' => made'[v] # "no"
    BY <1>2, <1>3, <1>6, <2>1, <2>2, RowWritten
  <2>4. \A v \in Ids : made'[v] = made[v] \/ (v = u /\ made'[v] = "revived")
    BY <2>2 DEF TablesInv, UsersTyped
  <2>5. \A v \in Ids : made[v] # "no" => made'[v] # "no"
    BY <2>4
  <2>6. \A v \in Workers : In(v, "commit") => made'[calls[v].user] = "no"
    BY <1>2, <2>4, CallKinds DEF TablesInv, CallsTyped, IdsTaken, In
  <2>7. CallsTyped' /\ IdsTaken'
    BY <1>1, <1>3, <2>3, <2>5, <2>6, IdleFits, IdsStay
  <2>8. SessionsTyped'
    BY <1>3, <1>4, <2>3, SessionsUntouched
  <2> QED
    BY <1>4, <2>3, <2>7, <2>8, OnlyCalls
<1>7. CASE Exists(u)
  <2>1. users[u] \in User
    BY <1>2, <1>7 DEF TablesInv, UsersTyped, Exists
  <2>2. [users[u] EXCEPT !.active = old.active, !.role = old.role] \in User
    BY <1>2, <2>1 DEF User
  <2> QED
    BY <1>6, <1>7, <2>2 DEF SaveUser
<1>8. CASE ~Exists(u)
  BY <1>2, <1>5, <1>6, <1>8, NewUserTyped DEF SaveUser
<1> QED
  BY <1>7, <1>8

(* A removed user takes the wallet and the refresh tokens along.           *)
LEMMA RemoveKeepsTables ==
  ASSUME TablesInv, Remember, NEW u \in Ids, RemoveUser(u)
  PROVE  TablesInv'
<1>1. /\ users' = [users EXCEPT ![u] = NoUser]
      /\ wallets' = wallets \ {u}
      /\ tokens' = TokensWithout(u)
      /\ Spoil({t \in Relied : t.user = u})
      /\ UNCHANGED <<carts, made, calls>> /\ UNCHANGED <<issued, access, held>>
      /\ UNCHANGED <<codes, stale, clock>>
  BY DEF RemoveUser, times
<1>2. UsersTyped'
  BY <1>1 DEF TablesInv, UsersTyped
<1>3. \A v \in Ids : Exists(v)' <=> Exists(v) /\ v # u
  BY <1>1 DEF TablesInv, UsersTyped, Exists
<1>4. AccountComplete'
  BY <1>1, <1>3 DEF TablesInv, AccountComplete
<1>5. CallsTyped' /\ IdsTaken'
  BY <1>1, <1>3 DEF TablesInv, CallsTyped, IdsTaken, In
<1>6. SessionsTyped'
  <2>1. \A i \in 1..MaxTokens :
          tokens'[i] = IF tokens[i] # NoToken /\ tokens[i].user = u THEN NoToken ELSE tokens[i]
    BY <1>1 DEF TokensWithout
  <2>2. tokens' \in [1..MaxTokens -> Jwt \cup {NoToken}]
    BY <1>1 DEF TokensWithout, TablesInv, SessionsTyped
  <2>3. \A i \in 1..MaxTokens :
          tokens'[i] # NoToken => i <= issued' /\ users'[tokens'[i].user] # NoUser
    <3>1. SUFFICES ASSUME NEW i \in 1..MaxTokens, tokens'[i] # NoToken
                   PROVE  i <= issued' /\ users'[tokens'[i].user] # NoUser
      OBVIOUS
    <3>2. tokens'[i] = tokens[i] /\ tokens[i] # NoToken /\ tokens[i].user # u
      BY <2>1, <3>1
    <3>3. tokens[i].user \in Ids
      BY <3>2 DEF TablesInv, SessionsTyped, Jwt
    <3>4. i <= issued /\ Exists(tokens[i].user)
      BY <3>2 DEF TablesInv, SessionsTyped
    <3> QED
      BY <1>1, <1>3, <3>2, <3>3, <3>4 DEF Exists
  <2>4. spoiled' \subseteq Jwt
    BY <1>1 DEF Spoil, Relied, TablesInv, SessionsTyped
  <2> QED
    BY <1>1, <2>2, <2>3, <2>4 DEF TablesInv, SessionsTyped, Exists
<1>7. TimesTyped'
  <2>1. edits' \in 0..MaxEdits
    BY AccountsAssumption DEF RemoveUser, Edit, TablesInv, TimesTyped
  <2> QED
    BY <1>1, <2>1 DEF TablesInv, TimesTyped
<1> QED
  BY <1>2, <1>4, <1>5, <1>6, <1>7, OnlyCalls

LEMMA TickKeepsTables ==
  ASSUME TablesInv, Remember, Tick
  PROVE  TablesInv'
<1>1. UNCHANGED <<users, wallets, carts, made, calls>> /\ UNCHANGED <<tokens, issued, held>>
      /\ UNCHANGED <<codes, spoiled, edits>>
      /\ clock < MaxClock /\ clock' = clock + 1 /\ stale' = 1..codes
      /\ access' \subseteq access
  BY DEF Tick, accounts
<1>2. TimesTyped'
  <2>1. clock' \in 0..MaxClock
    BY <1>1, AccountsAssumption DEF TablesInv, TimesTyped
  <2> QED
    BY <1>1, <2>1 DEF TablesInv, TimesTyped
<1>3. SessionsTyped'
  BY <1>1 DEF TablesInv, SessionsTyped, Exists
<1>4. UsersTyped' /\ CallsTyped' /\ IdsTaken' /\ AccountComplete'
  BY <1>1 DEF TablesInv, UsersTyped, CallsTyped, IdsTaken, AccountComplete, Exists, In
<1> QED
  BY <1>2, <1>3, <1>4, OnlyCalls

(* The steps of AccountsNext, one kind of request after the other.         *)
StepCases ==
  \/ \E c \in Clients :
       \/ ClientReads(c)
       \/ CommitSignup(c)
       \/ SendCode(c)
       \/ AcceptCode(c)
       \/ IssueTokens(c)
       \/ RevokeToken(c)
  \/ \E a \in Admins :
       \/ \E mobile \in Mobiles : BeginCreate(a, mobile)
       \/ \E u \in Ids : BeginUpdate(a, u)
       \/ StoreUser(a)
       \/ InitWallet(a)
       \/ SaveUser(a)
  \/ \E u \in Ids : SetPassword(u) \/ RemoveUser(u) \/ AssignRole(u)
  \/ \E w \in Workers : CutOff(w)
  \/ Tick

LEMMA Cases ==
  AccountsNext => StepCases /\ Remember
BY DEF AccountsNext, StepCases, ClientReads

LEMMA TablesStep ==
  TablesInv /\ [AccountsNext]_accountVars => TablesInv'
<1>1. ASSUME TablesInv, AccountsNext PROVE TablesInv'
  <2>1. StepCases /\ Remember
    BY <1>1, Cases
  <2> QED
    BY <1>1, <2>1, ClientReadsTables, CommitKeepsTables, SendKeepsTables, AcceptKeepsTables,
       IssueKeepsTables, RevokeKeepsTables, BeginKeepsTables, StoreKeepsTables,
       WalletKeepsTables, SaveKeepsTables, ColumnKeepsTables, RemoveKeepsTables,
       TickKeepsTables
    DEF StepCases, Workers
<1>2. ASSUME TablesInv, UNCHANGED accountVars PROVE TablesInv'
  BY <1>2 DEF accountVars, TablesInv, UsersTyped, SessionsTyped, TimesTyped, HistoriesTyped,
     CallsTyped, IdsTaken, AccountComplete, Exists, In
<1> QED
  BY <1>1, <1>2

-----------------------------------------------------------------------------
(* Layer 2: what is remembered of the tick.                                *)
LEMMA Remembered ==
  ASSUME TablesInv, Remember
  PROVE  /\ \A u \in Ids : RolesNow(u) \subseteq hadRole'[u] /\ RolesNow(u)' \subseteq hadRole'[u]
         /\ ActiveNow \subseteq WasActive' /\ ActiveNow' \subseteq WasActive'
         /\ wasReopened' \subseteq wasReopened \cup reopened \cup reopened'
         /\ clock' = clock => /\ \A u \in Ids : hadRole[u] \subseteq hadRole'[u]
                              /\ WasActive \subseteq WasActive'
BY DEF Remember, ActiveNow, WasActive, OnNow

(* Accounts are reopened by their ids.                                     *)
LEMMA ReopenedById ==
  ASSUME TablesInv, StepCases
  PROVE  reopened' \subseteq reopened \cup Ids
<1>1. CASE \E c \in Clients : AcceptCode(c)
  <2>1. PICK c \in Clients : AcceptCode(c)
    BY <1>1
  <2>2. calls[c] \in Call /\ calls[c].op = "accept"
    BY <2>1 DEF AcceptCode, In, TablesInv, CallsTyped, Workers
  <2>3. calls[c].user \in Ids
    BY <2>2, CallKinds DEF ReaderOps
  <2> QED
    BY <2>1, <2>3 DEF AcceptCode
<1>2. CASE (\E a \in Admins : SaveUser(a)) \/ \E u \in Ids : RemoveUser(u)
  BY <1>2 DEF SaveUser, RemoveUser
<1>3. CASE UNCHANGED reopened
  BY <1>3
<1> QED
  BY <1>1, <1>2, <1>3
  DEF StepCases, ClientReads, RequestCode, BeginVerify, LoginWithPassword, InsertUser,
      BeginRefresh, Recheck, CommitSignup, SendCode, IssueTokens, RevokeToken, BeginCreate,
      BeginUpdate, StoreUser, InitWallet, SetPassword, AssignRole, CutOff, Tick

(* A row of users that was not there before: a new id's, or one that a     *)
(* late save inserts again.                                                *)
RowsComeAs ==
  \A u \in Ids :
    /\ made[u] = "revived" => made'[u] = "revived"
    /\ Exists(u)' => Exists(u) \/ made[u] = "no" \/ made'[u] = "revived"

(* What a request that has just gone on may know.                          *)
KnowsRights(v) ==
  /\ calls'[v].op \in {"accept", "issue"} => calls'[v].role \in hadRole'[calls'[v].user]
  /\ calls'[v].op = "issue" /\ users'[calls'[v].user] # NoUser =>
       made'[calls'[v].user] = "revived" \/ calls'[v].user \in WasActive'

LEMMA InHandKept ==
  ASSUME TablesInv, RightsInv, Remember, clock' = clock, RowsComeAs,
         \A v \in Workers : calls'[v] = calls[v] \/ KnowsRights(v)
  PROVE  RolesInHand' /\ ActiveInHand'
<1>1. /\ \A u \in Ids : hadRole[u] \subseteq hadRole'[u]
      /\ WasActive \subseteq WasActive'
  BY Remembered
<1>2. \A v \in Workers : calls[v].op \in {"accept", "issue"} =>
        calls[v].user \in Ids /\ made[calls[v].user] # "no"
  BY CallKinds DEF TablesInv, CallsTyped, IdsTaken, ReaderOps
<1>3. RolesInHand'
  BY <1>1, <1>2 DEF RightsInv, RolesInHand, KnowsRights
<1>4. ActiveInHand'
  <2>1. SUFFICES ASSUME NEW v \in Workers, calls'[v].op = "issue",
                        users'[calls'[v].user] # NoUser
                 PROVE  made'[calls'[v].user] = "revived" \/ calls'[v].user \in WasActive'
    BY DEF ActiveInHand, In, Exists
  <2>2. CASE KnowsRights(v)
    BY <2>1, <2>2 DEF KnowsRights
  <2>3. CASE calls'[v] = calls[v]
    BY <1>1, <1>2, <2>1, <2>3 DEF RightsInv, ActiveInHand, RowsComeAs, In, Exists
  <2> QED
    BY <2>2, <2>3
<1> QED
  BY <1>3, <1>4

LEMMA RightsKept ==
  ASSUME TablesInv, RightsInv, Remember, clock' = clock, RowsComeAs, UNCHANGED access,
         reopened' \subseteq Ids,
         \A v \in Workers : calls'[v] = calls[v] \/ KnowsRights(v)
  PROVE  RightsInv'
<1>1. /\ \A u \in Ids : hadRole[u] \subseteq hadRole'[u] /\ RolesNow(u)' \subseteq hadRole'[u]
      /\ WasActive \subseteq WasActive' /\ ActiveNow' \subseteq WasActive'
  BY Remembered
<1>2. RolesInHand' /\ ActiveInHand'
  BY InHandKept
<1>3. \A t \in access : t.user \in Ids
  BY DEF TablesInv, SessionsTyped
<1>4. RightsEndUnlessReopened'
  BY <1>1, <1>3 DEF RightsInv, RightsEndUnlessReopened, RowsComeAs, WasActive
<1>5. \A t \in access' : t.at <= clock'
  BY DEF RightsInv
<1> QED
  BY <1>1, <1>2, <1>4, <1>5, Remembered DEF RightsInv

(* Only these begin or continue a request that will sign tokens.           *)
LEMMA NextCall ==
  ASSUME TablesInv, NEW w \in Workers, NEW call, Goto(w, call)
  PROVE  \A v \in Workers : calls'[v] = IF v = w THEN call ELSE calls[v]
BY DEF Goto, TablesInv, CallsTyped

LEMMA TicksAsWas ==
  ASSUME StepCases, ~Tick
  PROVE  clock' = clock
BY DEF StepCases, ClientReads, RequestCode, BeginVerify, LoginWithPassword, InsertUser,
       BeginRefresh, Recheck, CommitSignup, SendCode, AcceptCode, IssueTokens, RevokeToken,
       BeginCreate, BeginUpdate, StoreUser, InitWallet, SaveUser, SetPassword, RemoveUser,
       AssignRole, CutOff, times

(* Who exists after a step.                                                *)
LEMMA RowsCome ==
  ASSUME TablesInv, StepCases
  PROVE  RowsComeAs
<1>1. CASE UNCHANGED <<users, made>>
  BY <1>1 DEF RowsComeAs, Exists
<1>2. CASE \E c \in Clients : CommitSignup(c)
  <2>1. PICK c \in Clients : CommitSignup(c)
    BY <1>2
  <2>2. made[calls[c].user] = "no"
    BY <2>1 DEF CommitSignup, TablesInv, IdsTaken, Workers, In
  <2> QED
    BY <2>1, <2>2 DEF CommitSignup, RowsComeAs, Exists, TablesInv, UsersTyped
<1>3. CASE \E c \in Clients : SendCode(c) \/ AcceptCode(c)
  BY <1>3 DEF SendCode, AcceptCode, RowsComeAs, Exists, TablesInv, UsersTyped
<1>4. CASE \E u \in Ids : SetPassword(u) \/ AssignRole(u) \/ RemoveUser(u)
  BY <1>4 DEF SetPassword, AssignRole, RemoveUser, RowsComeAs, Exists, TablesInv, UsersTyped
<1>5. CASE \E a \in Admins : StoreUser(a)
  BY <1>5 DEF StoreUser, FreeIds, RowsComeAs, Exists, TablesInv, UsersTyped
<1>6. CASE \E a \in Admins : InitWallet(a)
  BY <1>6 DEF InitWallet, RowsComeAs, Exists, TablesInv, UsersTyped
<1>7. CASE \E a \in Admins : SaveUser(a)
  <2>1. PICK a \in Admins : SaveUser(a)
    BY <1>7
  <2>2. made' = made \/ made' = [made EXCEPT ![calls[a].user] = "revived"]
    BY <2>1 DEF SaveUser
  <2>3. CASE UNCHANGED <<users, made>>
    BY <1>1, <2>3
  <2>4. CASE Exists(calls[a].user)
    BY <2>1, <2>4 DEF SaveUser, RowsComeAs, Exists, TablesInv, UsersTyped
  <2>5. CASE ~Exists(calls[a].user) /\ KeyIsFree(calls[a].mobile)
    BY <2>1, <2>5 DEF SaveUser, RowsComeAs, Exists, TablesInv, UsersTyped
  <2> QED
    BY <2>1, <2>3, <2>4, <2>5 DEF SaveUser
<1> QED
  BY <1>1, <1>2, <1>3, <1>4, <1>5, <1>6, <1>7
  DEF StepCases, ClientReads, RequestCode, BeginVerify, LoginWithPassword, InsertUser,
      BeginRefresh, Recheck, IssueTokens, RevokeToken, BeginCreate, BeginUpdate, CutOff, Tick,
      accounts

(* A request that has read the user's row in this very step.               *)
LEMMA KnowsWhatItReads ==
  ASSUME TablesInv, Remember, NEW v \in Workers, NEW u \in Ids, Exists(u),
         UNCHANGED users,
         \/ calls'[v] = [op |-> "accept", user |-> u, role |-> users[u].role]
         \/ calls'[v] = [op |-> "issue", user |-> u, role |-> users[u].role] /\ users[u].active
  PROVE  KnowsRights(v)
<1>1. users[u].role \in RolesNow(u) /\ (users[u].active => u \in ActiveNow)
  BY DEF RolesNow, ActiveNow
<1>2. users[u].role \in hadRole'[u] /\ (users[u].active => u \in WasActive')
  BY <1>1, Remembered
<1> QED
  BY <1>2 DEF KnowsRights

LEMMA NothingToKnow ==
  ASSUME NEW v \in Workers, calls'[v].op \notin {"accept", "issue"}
  PROVE  KnowsRights(v)
BY DEF KnowsRights

LEMMA ReadsKnow ==
  ASSUME TablesInv, Remember, NEW c \in Clients, ClientReads(c), NEW v \in Workers
  PROVE  calls'[v] = calls[v] \/ KnowsRights(v)
<1>1. c \in Workers /\ UNCHANGED users
  BY DEF ClientReads, RequestCode, BeginVerify, LoginWithPassword, InsertUser, BeginRefresh,
         Recheck, accounts, Workers
<1>2. PICK call : Goto(c, call)
  BY DEF ClientReads, RequestCode, BeginVerify, LoginWithPassword, InsertUser, BeginRefresh,
         Recheck, Accept
<1>3. CASE v # c
  BY <1>1, <1>2, <1>3, NextCall
<1>4. CASE v = c
  <2>1. CASE \E mobile \in Mobiles, portal \in Portals :
               BeginVerify(c, mobile, portal) \/ LoginWithPassword(c, mobile, portal)
    <3>1. PICK mobile \in Mobiles, portal \in Portals :
            BeginVerify(c, mobile, portal) \/ LoginWithPassword(c, mobile, portal)
      BY <2>1
    <3>2. PICK u \in Ids :
            /\ Exists(u)
            /\ \/ Goto(c, [op |-> "accept", user |-> u, role |-> users[u].role])
               \/ users[u].active /\ Goto(c, [op |-> "issue", user |-> u, role |-> users[u].role])
      BY <3>1 DEF BeginVerify, LoginWithPassword, Named, Accept
    <3>3. \/ calls'[c] = [op |-> "accept", user |-> u, role |-> users[u].role]
          \/ users[u].active /\ calls'[c] = [op |-> "issue", user |-> u, role |-> users[u].role]
      BY <1>1, <3>2, NextCall
    <3> QED
      BY <1>1, <1>4, <3>2, <3>3, KnowsWhatItReads
  <2>2. CASE \E portal \in Portals : Recheck(c, portal)
    <3>1. calls[c].user \in Ids
      BY <1>1, <2>2, CallKinds DEF Recheck, In, ReaderOps, TablesInv, CallsTyped
    <3>2. CASE Goto(c, Idle)
      BY <1>1, <1>4, <3>2, NextCall, NothingToKnow DEF Idle
    <3>3. CASE MayRefresh(calls[c].user) /\ Goto(c, [op |-> "issue", user |-> calls[c].user,
                                                     role |-> users[calls[c].user].role])
      <4>1. calls'[c] = [op |-> "issue", user |-> calls[c].user,
                         role |-> users[calls[c].user].role]
        BY <1>1, <3>3, NextCall
      <4> QED
        BY <1>1, <1>4, <3>1, <3>3, <4>1, KnowsWhatItReads DEF MayRefresh
    <3> QED
      BY <2>2, <3>2, <3>3 DEF Recheck
  <2>3. CASE \/ \E mobile \in Mobiles, portal \in Portals : RequestCode(c, mobile, portal)
             \/ InsertUser(c)
             \/ BeginRefresh(c)
    <3>1. ASSUME NEW next, Goto(c, next), next.op \notin {"accept", "issue"}
          PROVE  KnowsRights(v)
      BY <1>1, <1>4, <3>1, NextCall, NothingToKnow
    <3>2. CASE \E mobile \in Mobiles, portal \in Portals : RequestCode(c, mobile, portal)
      BY <3>1, <3>2 DEF RequestCode, Accept
    <3>3. CASE InsertUser(c)
      BY <3>1, <3>3 DEF InsertUser, Idle
    <3>4. CASE BeginRefresh(c)
      BY <3>1, <3>4 DEF BeginRefresh, Accept
    <3> QED
      BY <2>3, <3>2, <3>3, <3>4
  <2> QED
    BY <2>1, <2>2, <2>3 DEF ClientReads
<1> QED
  BY <1>3, <1>4

(* verifyOtp writes the row before it signs: the account is active now, or *)
(* gone.                                                                   *)
LEMMA AcceptKnows ==
  ASSUME TablesInv, RightsInv, Remember, NEW c \in Clients, AcceptCode(c), NEW v \in Workers
  PROVE  calls'[v] = calls[v] \/ KnowsRights(v)
<1> DEFINE u == calls[c].user
<1>1. c \in Workers /\ calls[c] \in Call /\ calls[c].op = "accept"
  BY DEF Workers, TablesInv, CallsTyped, AcceptCode, In
<1>2. u \in Ids
  BY <1>1, CallKinds DEF ReaderOps
<1>3. [calls[c] EXCEPT !.op = "issue"] = [op |-> "issue", user |-> u, role |-> calls[c].role]
  BY <1>1, NextOp
<1>4. Goto(c, [op |-> "issue", user |-> u, role |-> calls[c].role])
  BY <1>3 DEF AcceptCode
<1>5. calls[c].role \in hadRole'[u]
  <2>1. clock' = clock
    BY DEF AcceptCode, times
  <2> QED
    BY <1>1, <1>2, <2>1, Remembered DEF RightsInv, RolesInHand
<1>6. users'[u] # NoUser => u \in WasActive'
  <2>1. SUFFICES ASSUME users'[u] # NoUser PROVE u \in ActiveNow'
    BY Remembered
  <2>2. CASE Exists(u)
    <3>1. users[u] \in User
      BY <1>2, <2>2 DEF TablesInv, UsersTyped, Exists
    <3>2. users'[u] = [users[u] EXCEPT !.otp = 0, !.active = TRUE]
      BY <1>2, <2>2 DEF AcceptCode, TablesInv, UsersTyped
    <3>3. users'[u].active
      BY <3>1, <3>2 DEF User
    <3> QED
      BY <1>2, <2>1, <3>3 DEF ActiveNow, Exists
  <2>3. CASE ~Exists(u)
    BY <2>1, <2>3 DEF AcceptCode, Exists
  <2> QED
    BY <2>2, <2>3
<1>7. CASE v = c
  <2>1. calls'[c] = [op |-> "issue", user |-> u, role |-> calls[c].role]
    BY <1>1, <1>4, NextCall
  <2> QED
    BY <1>5, <1>6, <1>7, <2>1 DEF KnowsRights, Exists
<1>8. CASE v # c
  BY <1>1, <1>4, <1>8, NextCall
<1> QED
  BY <1>7, <1>8

(* The other steps leave nothing to know.                                  *)
LEMMA OthersKnow ==
  ASSUME TablesInv, StepCases, NEW v \in Workers,
         ~\E c \in Clients : ClientReads(c) \/ AcceptCode(c)
  PROVE  calls'[v] = calls[v] \/ KnowsRights(v)
<1>1. CASE UNCHANGED calls
  BY <1>1
<1>2. ASSUME NEW w \in Workers, NEW call, Goto(w, call), call.op \notin {"accept", "issue"}
      PROVE  calls'[v] = calls[v] \/ KnowsRights(v)
  BY <1>2, NextCall, NothingToKnow
<1>3. CASE \E c \in Clients : CommitSignup(c) \/ SendCode(c) \/ IssueTokens(c)
  BY <1>2, <1>3 DEF CommitSignup, SendCode, IssueTokens, Idle, Workers
<1>4. CASE \E c \in Clients : RevokeToken(c)
  <2>1. PICK c \in Clients : RevokeToken(c)
    BY <1>4
  <2>2. calls[c] \in Call /\ calls[c].op = "revoke" /\ c \in Workers
    BY <2>1 DEF Workers, TablesInv, CallsTyped, RevokeToken, In
  <2>3. [calls[c] EXCEPT !.op = "recheck"] =
          [op |-> "recheck", user |-> calls[c].user, row |-> calls[c].row]
    BY <2>2, NextOp
  <2>4. Goto(c, [op |-> "recheck", user |-> calls[c].user, row |-> calls[c].row])
    BY <2>1, <2>3 DEF RevokeToken
  <2> QED
    BY <1>2, <2>2, <2>4
<1>5. CASE \E a \in Admins :
             \/ \E mobile \in Mobiles : BeginCreate(a, mobile)
             \/ \E u \in Ids : BeginUpdate(a, u)
             \/ StoreUser(a)
             \/ InitWallet(a)
             \/ SaveUser(a)
  <2>1. PICK a \in Workers :
          \/ \E mobile \in Mobiles : BeginCreate(a, mobile)
          \/ \E u \in Ids : BeginUpdate(a, u)
          \/ StoreUser(a)
          \/ InitWallet(a)
          \/ SaveUser(a)
    BY <1>5 DEF Workers
  <2>2. CASE \E mobile \in Mobiles : BeginCreate(a, mobile)
    BY <1>2, <2>2 DEF BeginCreate, Accept
  <2>3. CASE \E u \in Ids : BeginUpdate(a, u)
    BY <1>2, <2>3 DEF BeginUpdate, Accept
  <2>4. CASE StoreUser(a)
    BY <1>2, <2>4 DEF StoreUser, Idle
  <2>5. CASE InitWallet(a) \/ SaveUser(a)
    BY <1>2, <2>5 DEF InitWallet, SaveUser, Idle
  <2> QED
    BY <2>1, <2>2, <2>3, <2>4, <2>5
<1>6. CASE \E w \in Workers : CutOff(w)
  BY <1>2, <1>6 DEF CutOff, Idle
<1>7. CASE Tick \/ \E u \in Ids : SetPassword(u) \/ RemoveUser(u) \/ AssignRole(u)
  BY <1>1, <1>7 DEF Tick, SetPassword, RemoveUser, AssignRole
<1> QED
  BY <1>3, <1>4, <1>5, <1>6, <1>7 DEF StepCases

LEMMA IssueKeepsRights ==
  ASSUME TablesInv, RightsInv, Remember, NEW c \in Clients, IssueTokens(c),
         RolesInHand', ActiveInHand', reopened' \subseteq Ids
  PROVE  RightsInv'
<1> DEFINE u == calls[c].user
<1>1. c \in Workers /\ calls[c] \in Call /\ calls[c].op = "issue"
  BY DEF Workers, TablesInv, CallsTyped, IssueTokens, In
<1>2. u \in Ids
  BY <1>1, CallKinds DEF ReaderOps
<1>3. clock' = clock /\ UNCHANGED made
  BY DEF IssueTokens, times
<1>4. /\ \A v \in Ids : hadRole[v] \subseteq hadRole'[v] /\ RolesNow(v)' \subseteq hadRole'[v]
      /\ WasActive \subseteq WasActive' /\ ActiveNow' \subseteq WasActive'
  BY <1>3, Remembered
<1>5. \A t \in access' \ access :
        Exists(u) /\ t.user = u /\ t.role = calls[c].role /\ t.at = clock
  BY DEF IssueTokens, sessions
<1>6. \A t \in access : t.user \in Ids
  BY DEF TablesInv, SessionsTyped
<1>7. \A t \in access' : t.at <= clock'
  BY <1>3, <1>5 DEF RightsInv, TablesInv, TimesTyped
<1>8. RightsEndUnlessReopened'
  <2>1. SUFFICES ASSUME NEW t \in access', t.at = clock'
                 PROVE  t.role \in hadRole'[t.user]
                        /\ (made'[t.user] = "revived" \/ t.user \in WasActive')
    BY DEF RightsEndUnlessReopened, WasActive
  <2>2. CASE t \in access
    BY <1>3, <1>4, <1>6, <2>1, <2>2 DEF RightsInv, RightsEndUnlessReopened, WasActive
  <2>3. CASE t \notin access
    BY <1>1, <1>2, <1>3, <1>4, <1>5, <2>1, <2>3
    DEF RightsInv, RolesInHand, ActiveInHand, In
  <2> QED
    BY <2>2, <2>3
<1> QED
  BY <1>4, <1>7, <1>8, Remembered DEF RightsInv

LEMMA TickKeepsRights ==
  ASSUME TablesInv, RightsInv, Remember, Tick, reopened' \subseteq Ids
  PROVE  RightsInv'
<1>1. clock' = clock + 1 /\ access' \subseteq access /\ UNCHANGED calls
      /\ \A w \in Workers : calls[w] = Idle
  BY DEF Tick
<1>2. clock \in Nat
  BY AccountsAssumption DEF TablesInv, TimesTyped
<1>3. access \subseteq [user : Ids, role : Roles, at : 0..MaxClock]
  BY DEF TablesInv, SessionsTyped
<1>4. \A t \in access' : t.at <= clock' /\ t.at # clock'
  BY <1>1, <1>2, <1>3, AccountsAssumption DEF RightsInv
<1>5. RightsEndUnlessReopened'
  BY <1>4 DEF RightsEndUnlessReopened
<1>6. RolesInHand' /\ ActiveInHand'
  BY <1>1 DEF RolesInHand, ActiveInHand, In, Idle
<1> QED
  BY <1>4, <1>5, <1>6, Remembered DEF RightsInv

LEMMA RightsStart ==
  AccountsInit => RightsInv
BY DEF AccountsInit, RightsInv, RolesNow, ActiveNow, WasActive, Exists, RolesInHand, ActiveInHand, In, Idle,
       RightsEndUnlessReopened

LEMMA RightsStep ==
  TablesInv /\ RightsInv /\ [AccountsNext]_accountVars => RightsInv'
<1>1. ASSUME TablesInv, RightsInv, AccountsNext PROVE RightsInv'
  <2>1. StepCases /\ Remember
    BY <1>1, Cases
  <2>4. reopened' \subseteq Ids
    BY <1>1, <2>1, ReopenedById DEF RightsInv
  <2>2. CASE Tick
    BY <1>1, <2>1, <2>2, <2>4, TickKeepsRights
  <2>3. CASE ~Tick
    <3>1. clock' = clock /\ RowsComeAs
      BY <1>1, <2>1, <2>3, TicksAsWas, RowsCome
    <3>2. \A v \in Workers : calls'[v] = calls[v] \/ KnowsRights(v)
      BY <1>1, <2>1, ReadsKnow, AcceptKnows, OthersKnow
    <3>3. CASE \E c \in Clients : IssueTokens(c)
      BY <1>1, <2>1, <3>1, <3>2, <2>4, <3>3, InHandKept, IssueKeepsRights
    <3>4. CASE UNCHANGED access
      BY <1>1, <2>1, <3>1, <2>4, <3>2, <3>4, RightsKept
    <3> QED
      BY <2>1, <2>3, <3>3, <3>4
      DEF StepCases, ClientReads, RequestCode, BeginVerify, LoginWithPassword, InsertUser,
          BeginRefresh, Recheck, CommitSignup, SendCode, AcceptCode, RevokeToken, BeginCreate,
          BeginUpdate, StoreUser, InitWallet, SaveUser, SetPassword, RemoveUser, AssignRole,
          CutOff, sessions
  <2> QED
    BY <2>2, <2>3
<1>2. ASSUME RightsInv, UNCHANGED accountVars PROVE RightsInv'
  BY <1>2 DEF accountVars, RightsInv, RolesNow, ActiveNow, WasActive, RolesInHand, ActiveInHand,
     RightsEndUnlessReopened, Exists, In
<1> QED
  BY <1>1, <1>2

-----------------------------------------------------------------------------
(* Layer 3: counting rows and those who rely on them.                      *)
LEMMA Countable ==
  ASSUME NEW jwt
  PROVE  /\ IsFiniteSet(Holders(jwt)) /\ Cardinality(Holders(jwt)) \in Nat
         /\ IsFiniteSet(RowsOf(jwt)) /\ Cardinality(RowsOf(jwt)) \in Nat
<1>1. Holders(jwt) \subseteq Clients /\ RowsOf(jwt) \subseteq 1..MaxTokens
  BY DEF Holders, RowsOf
<1>2. IsFiniteSet(Clients) /\ IsFiniteSet(1..MaxTokens)
  BY AccountsAssumption, FS_Interval
<1> QED
  BY <1>1, <1>2, FS_Subset, FS_CardinalityType

LEMMA CountableNext ==
  ASSUME NEW jwt
  PROVE  /\ IsFiniteSet(Holders(jwt)') /\ Cardinality(Holders(jwt)') \in Nat
         /\ IsFiniteSet(RowsOf(jwt)') /\ Cardinality(RowsOf(jwt)') \in Nat
<1>1. Holders(jwt)' \subseteq Clients /\ RowsOf(jwt)' \subseteq 1..MaxTokens
  BY DEF Holders, RowsOf
<1>2. IsFiniteSet(Clients) /\ IsFiniteSet(1..MaxTokens)
  BY AccountsAssumption, FS_Interval
<1> QED
  BY <1>1, <1>2, FS_Subset, FS_CardinalityType

(* No fewer rows and no more who rely on them.                             *)
LEMMA BalanceKept ==
  ASSUME NEW jwt, Holders(jwt)' \subseteq Holders(jwt), RowsOf(jwt) \subseteq RowsOf(jwt)',
         Cardinality(Holders(jwt)) <= Cardinality(RowsOf(jwt))
  PROVE  Cardinality(Holders(jwt)') <= Cardinality(RowsOf(jwt)')
<1>1. Cardinality(Holders(jwt)') <= Cardinality(Holders(jwt))
  BY Countable, FS_Subset
<1>2. Cardinality(RowsOf(jwt)) <= Cardinality(RowsOf(jwt)')
  BY CountableNext, FS_Subset
<1> QED
  BY <1>1, <1>2, Countable, CountableNext

(* One row less, and one client less that relies on it.                    *)
LEMMA BalanceLowered ==
  ASSUME NEW jwt, NEW c, NEW row, c \in Holders(jwt),
         Holders(jwt)' = Holders(jwt) \ {c}, RowsOf(jwt)' = RowsOf(jwt) \ {row},
         Cardinality(Holders(jwt)) <= Cardinality(RowsOf(jwt))
  PROVE  Cardinality(Holders(jwt)') <= Cardinality(RowsOf(jwt)')
<1>1. /\ IsFiniteSet(Holders(jwt)) /\ Cardinality(Holders(jwt)) \in Nat
      /\ IsFiniteSet(RowsOf(jwt)) /\ Cardinality(RowsOf(jwt)) \in Nat
  BY Countable
<1>2. Cardinality(Holders(jwt) \ {c}) = Cardinality(Holders(jwt)) - 1
  BY <1>1, FS_RemoveElement
<1>3. \/ Cardinality(RowsOf(jwt) \ {row}) = Cardinality(RowsOf(jwt)) - 1
      \/ Cardinality(RowsOf(jwt) \ {row}) = Cardinality(RowsOf(jwt))
  <2>1. CASE row \in RowsOf(jwt)
    BY <1>1, <2>1, FS_RemoveElement
  <2>2. CASE row \notin RowsOf(jwt)
    <3>1. RowsOf(jwt) \ {row} = RowsOf(jwt)
      BY <2>2
    <3> QED
      BY <3>1
  <2> QED
    BY <2>1, <2>2
<1> QED
  BY <1>1, <1>2, <1>3

(* One row more for one client more.                                       *)
LEMMA BalanceRaised ==
  ASSUME NEW jwt, NEW c, NEW row, row \notin RowsOf(jwt),
         Holders(jwt)' \subseteq Holders(jwt) \cup {c}, RowsOf(jwt)' = RowsOf(jwt) \cup {row},
         Cardinality(Holders(jwt)) <= Cardinality(RowsOf(jwt))
  PROVE  Cardinality(Holders(jwt)') <= Cardinality(RowsOf(jwt)')
<1>1. /\ IsFiniteSet(Holders(jwt)) /\ Cardinality(Holders(jwt)) \in Nat
      /\ IsFiniteSet(RowsOf(jwt)) /\ Cardinality(RowsOf(jwt)) \in Nat
  BY Countable
<1>2. Cardinality(RowsOf(jwt) \cup {row}) = Cardinality(RowsOf(jwt)) + 1
  BY <1>1, FS_AddElement
<1>3. IsFiniteSet(Holders(jwt) \cup {c})
  BY <1>1, FS_AddElement
<1>4. \/ Cardinality(Holders(jwt) \cup {c}) = Cardinality(Holders(jwt)) + 1
      \/ Cardinality(Holders(jwt) \cup {c}) = Cardinality(Holders(jwt))
  <2>1. CASE c \in Holders(jwt)
    <3>1. Holders(jwt) \cup {c} = Holders(jwt)
      BY <2>1
    <3> QED
      BY <3>1
  <2>2. CASE c \notin Holders(jwt)
    BY <1>1, <2>2, FS_AddElement
  <2> QED
    BY <2>1, <2>2
<1>5. Cardinality(Holders(jwt)') <= Cardinality(Holders(jwt) \cup {c})
  BY <1>3, FS_Subset
<1>6. Cardinality(Holders(jwt)') \in Nat
  BY CountableNext
<1> QED
  BY <1>1, <1>2, <1>4, <1>5, <1>6

(* A step that leaves tokens alone, and lets nobody rely on one again      *)
(* whose exchange was given up.                                            *)
LEMMA RowsKept ==
  ASSUME TablesInv, RowsInv, UNCHANGED <<tokens, issued, held>>, spoiled \subseteq spoiled',
         \A c \in Clients :
           \/ calls'[c] = calls[c]
           \/ /\ calls'[c].op # "revoke"
              /\ \/ calls[c].op \notin {"recheck", "issue"}
                 \/ calls'[c].op \in {"recheck", "issue"}
                 \/ held[c] \in spoiled' \cup {NoToken}
  PROVE  RowsInv'
<1>1. RowInHand'
  BY DEF RowsInv, RowInHand, In
<1>2. ASSUME NEW jwt \in Jwt \ spoiled'
      PROVE  Cardinality(Holders(jwt)') <= Cardinality(RowsOf(jwt)')
  <2>1. jwt # NoToken /\ jwt \in Jwt \ spoiled
    BY AccountsAssumption
  <2>2. Holders(jwt)' \subseteq Holders(jwt)
    BY <1>2, <2>1 DEF Holders, In
  <2>3. RowsOf(jwt)' = RowsOf(jwt)
    BY DEF RowsOf
  <2> QED
    BY <2>1, <2>2, <2>3, BalanceKept DEF RowsInv
<1> QED
  BY <1>1, <1>2 DEF RowsInv

LEMMA RevokeKeepsRows ==
  ASSUME TablesInv, RowsInv, NEW c \in Clients, RevokeToken(c)
  PROVE  RowsInv'
<1> DEFINE row == calls[c].row
<1>1. c \in Workers /\ calls[c] \in Call /\ calls[c].op = "revoke"
  BY DEF Workers, TablesInv, CallsTyped, RevokeToken, In
<1>2. row \in 1..MaxTokens /\ tokens[row] \in {held[c], NoToken}
  BY <1>1, CallKinds DEF RowsInv, RowInHand, In
<1>3. [calls[c] EXCEPT !.op = "recheck"] =
        [op |-> "recheck", user |-> calls[c].user, row |-> calls[c].row]
  BY <1>1, NextOp
<1>4. Goto(c, [op |-> "recheck", user |-> calls[c].user, row |-> calls[c].row])
  BY <1>3 DEF RevokeToken
<1>5. \A v \in Workers : v # c => calls'[v] = calls[v]
  BY <1>1, <1>4, NextCall
<1>6. calls'[c].op = "recheck"
  <2>1. calls'[c] = [op |-> "recheck", user |-> calls[c].user, row |-> calls[c].row]
    BY <1>1, <1>4, NextCall
  <2> QED
    BY <2>1
<1>7. UNCHANGED <<held, spoiled, issued>> /\ tokens' = [tokens EXCEPT ![row] = NoToken]
  BY DEF RevokeToken, Revoked
<1>8. \A i \in 1..MaxTokens : tokens'[i] = IF i = row THEN NoToken ELSE tokens[i]
  BY <1>7 DEF TablesInv, SessionsTyped
<1>9. RowInHand'
  BY <1>5, <1>6, <1>7, <1>8, CallKinds
  DEF RowsInv, RowInHand, In, Workers, TablesInv, CallsTyped
<1>10. ASSUME NEW jwt \in Jwt \ spoiled'
       PROVE  Cardinality(Holders(jwt)') <= Cardinality(RowsOf(jwt)')
  <2>1. jwt # NoToken /\ jwt \in Jwt \ spoiled
    BY <1>7, AccountsAssumption
  <2>2. Cardinality(Holders(jwt)) <= Cardinality(RowsOf(jwt))
    BY <2>1 DEF RowsInv
  <2>3. Holders(jwt)' = Holders(jwt) \ {c}
    BY <1>5, <1>6, <1>7 DEF Holders, In, Workers
  <2>4. RowsOf(jwt)' = RowsOf(jwt) \ {row}
    BY <1>8, <2>1 DEF RowsOf
  <2>5. CASE held[c] = jwt
    <3>1. c \in Holders(jwt)
      BY <1>1, <2>5 DEF Holders, In
    <3> QED
      BY <2>2, <2>3, <2>4, <3>1, BalanceLowered
  <2>6. CASE held[c] # jwt
    <3>1. RowsOf(jwt)' = RowsOf(jwt)
      BY <1>2, <2>1, <2>4, <2>6 DEF RowsOf
    <3> QED
      BY <2>2, <2>3, <3>1, BalanceKept
  <2> QED
    BY <2>5, <2>6
<1> QED
  BY <1>9, <1>10 DEF RowsInv

LEMMA IssueKeepsRows ==
  ASSUME TablesInv, RowsInv, NEW c \in Clients, IssueTokens(c)
  PROVE  RowsInv'
<1>1. c \in Workers /\ calls[c] \in Call /\ calls[c].op = "issue"
  BY DEF Workers, TablesInv, CallsTyped, IssueTokens, In
<1>2. \A v \in Workers : calls'[v] = IF v = c THEN Idle ELSE calls[v]
  BY <1>1, NextCall DEF IssueTokens
<1>3. CASE Spoil({held[c]}) /\ UNCHANGED <<sessions>>
  <2>1. UNCHANGED <<tokens, issued, held>> /\ spoiled \subseteq spoiled'
        /\ held[c] \in spoiled' \cup {NoToken}
    BY <1>3 DEF sessions, Spoil
  <2> QED
    BY <1>2, <2>1, RowsKept DEF Idle, Workers
<1>4. CASE Exists(calls[c].user) /\ issued < MaxTokens /\ issued' = issued + 1
  <2> DEFINE row == issued + 1
  <2>1. PICK second \in Seconds :
          LET jwt == [user |-> calls[c].user, role |-> calls[c].role, at |-> clock,
                      second |-> second]
          IN  /\ tokens' = [tokens EXCEPT ![issued + 1] = jwt]
              /\ \/ held' = [held EXCEPT ![c] = jwt] /\ UNCHANGED spoiled
                 \/ Spoil({held[c]}) /\ UNCHANGED held
    BY <1>4 DEF IssueTokens
  <2> DEFINE new == [user |-> calls[c].user, role |-> calls[c].role, at |-> clock,
                     second |-> second]
  <2>2. /\ tokens' = [tokens EXCEPT ![row] = new]
        /\ \/ held' = [held EXCEPT ![c] = new] /\ UNCHANGED spoiled
           \/ Spoil({held[c]}) /\ UNCHANGED held
    BY <2>1
  <2> HIDE DEF new
  <2>3. issued \in Nat /\ row \in 1..MaxTokens
    BY <1>4, AccountsAssumption DEF TablesInv, SessionsTyped
  <2>4. tokens[row] = NoToken
    BY <2>3 DEF TablesInv, SessionsTyped
  <2>5. \A i \in 1..MaxTokens : tokens'[i] = IF i = row THEN new ELSE tokens[i]
    BY <2>2, <2>3 DEF TablesInv, SessionsTyped
  <2>6. \A d \in Clients : d # c => held'[d] = held[d]
    BY <2>2 DEF TablesInv, SessionsTyped
  <2>7. RowInHand'
    <3>1. SUFFICES ASSUME NEW d \in Clients, calls'[d].op = "revoke"
                   PROVE  /\ calls'[d].row <= issued'
                          /\ tokens'[calls'[d].row] \in {held'[d], NoToken}
      BY DEF RowInHand, In
    <3>2. d # c /\ calls'[d] = calls[d]
      BY <1>2, <3>1 DEF Idle, Workers
    <3>3. calls[d].row \in 1..MaxTokens /\ calls[d].row <= issued
          /\ tokens[calls[d].row] \in {held[d], NoToken}
      BY <3>1, <3>2, CallKinds DEF RowsInv, RowInHand, In, TablesInv, CallsTyped, Workers
    <3> QED
      BY <1>4, <2>3, <2>5, <2>6, <3>2, <3>3
  <2>8. ASSUME NEW jwt \in Jwt \ spoiled'
        PROVE  Cardinality(Holders(jwt)') <= Cardinality(RowsOf(jwt)')
    <3>1. jwt # NoToken /\ jwt \in Jwt \ spoiled
      BY <2>2, AccountsAssumption DEF Spoil
    <3>2. Cardinality(Holders(jwt)) <= Cardinality(RowsOf(jwt))
      BY <3>1 DEF RowsInv
    <3>3. CASE jwt = new
      <4>1. RowsOf(jwt)' = RowsOf(jwt) \cup {row} /\ row \notin RowsOf(jwt)
        BY <2>3, <2>4, <2>5, <3>1, <3>3 DEF RowsOf
      <4>2. Holders(jwt)' \subseteq Holders(jwt) \cup {c}
        BY <1>2, <2>6 DEF Holders, In, Workers
      <4> QED
        BY <3>2, <4>1, <4>2, BalanceRaised
    <3>4. CASE jwt # new
      <4>1. RowsOf(jwt)' = RowsOf(jwt)
        BY <2>3, <2>4, <2>5, <3>1, <3>4 DEF RowsOf
      <4>2. held'[c] # jwt
        BY <2>2, <2>8, <3>1, <3>4 DEF Spoil, TablesInv, SessionsTyped
      <4>3. Holders(jwt)' \subseteq Holders(jwt)
        BY <1>2, <2>6, <4>2 DEF Holders, In, Workers
      <4> QED
        BY <3>2, <4>1, <4>3, BalanceKept
    <3> QED
      BY <3>3, <3>4
  <2> QED
    BY <2>7, <2>8 DEF RowsInv
<1> QED
  BY <1>3, <1>4 DEF IssueTokens

(* A removed user's tokens are given up by all who hold one.               *)
LEMMA RemoveKeepsRows ==
  ASSUME TablesInv, RowsInv, NEW u \in Ids, RemoveUser(u)
  PROVE  RowsInv'
<1>1. /\ tokens' = TokensWithout(u)
      /\ Spoil({t \in Relied : t.user = u})
      /\ UNCHANGED <<calls, issued, held>>
  BY DEF RemoveUser
<1>2. \A i \in 1..MaxTokens :
        tokens'[i] = IF tokens[i] # NoToken /\ tokens[i].user = u THEN NoToken ELSE tokens[i]
  BY <1>1 DEF TokensWithout
<1>3. RowInHand'
  BY <1>1, <1>2, CallKinds DEF RowsInv, RowInHand, In, TablesInv, CallsTyped, Workers
<1>4. ASSUME NEW jwt \in Jwt \ spoiled'
      PROVE  Cardinality(Holders(jwt)') <= Cardinality(RowsOf(jwt)')
  <2>1. jwt # NoToken /\ jwt \in Jwt \ spoiled
    BY <1>1, AccountsAssumption DEF Spoil
  <2>2. Cardinality(Holders(jwt)) <= Cardinality(RowsOf(jwt))
    BY <2>1 DEF RowsInv
  <2>3. Holders(jwt)' = Holders(jwt)
    BY <1>1 DEF Holders, In
  <2>4. CASE jwt.user = u
    <3>1. \A c \in Clients : held[c] # jwt
      BY <1>1, <1>4, <2>1, <2>4 DEF Spoil, Relied
    <3>2. Holders(jwt)' = {}
      BY <2>3, <3>1 DEF Holders
    <3> QED
      BY <3>2, FS_EmptySet, CountableNext
  <2>5. CASE jwt.user # u
    <3>1. RowsOf(jwt)' = RowsOf(jwt)
      BY <1>2, <2>1, <2>5 DEF RowsOf
    <3> QED
      BY <2>2, <2>3, <3>1, BalanceKept
  <2> QED
    BY <2>4, <2>5
<1> QED
  BY <1>3, <1>4 DEF RowsInv

LEMMA RefreshKeepsRows ==
  ASSUME TablesInv, RowsInv, NEW c \in Clients, BeginRefresh(c)
  PROVE  RowsInv'
<1>1. c \in Workers /\ calls[c] = Idle /\ UNCHANGED <<tokens, issued, held, spoiled>>
  BY DEF BeginRefresh, Accept, sessions, Workers
<1>2. PICK row \in 1..MaxTokens :
        /\ tokens[row] # NoToken
        /\ tokens[row] = held[c]
        /\ Goto(c, [op |-> "revoke", user |-> held[c].user, row |-> row])
  BY DEF BeginRefresh, Accept
<1>3. \A v \in Workers :
        calls'[v] = IF v = c THEN [op |-> "revoke", user |-> held[c].user, row |-> row]
                    ELSE calls[v]
  BY <1>1, <1>2, NextCall
<1>4. row <= issued
  BY <1>2 DEF TablesInv, SessionsTyped
<1>5. RowInHand'
  BY <1>1, <1>2, <1>3, <1>4 DEF RowsInv, RowInHand, In, Workers
<1>6. ASSUME NEW jwt \in Jwt \ spoiled'
      PROVE  Cardinality(Holders(jwt)') <= Cardinality(RowsOf(jwt)')
  <2>1. Holders(jwt)' \subseteq Holders(jwt)
    BY <1>1, <1>3 DEF Holders, In, Idle, Workers
  <2>2. RowsOf(jwt)' = RowsOf(jwt)
    BY <1>1 DEF RowsOf
  <2> QED
    BY <1>1, <2>1, <2>2, BalanceKept DEF RowsInv
<1> QED
  BY <1>5, <1>6 DEF RowsInv

(* What a client does without a refresh token.                             *)
LEMMA ClientKeepsRows ==
  ASSUME TablesInv, RowsInv, NEW c \in Clients,
         \/ \E mobile \in Mobiles, portal \in Portals :
              \/ RequestCode(c, mobile, portal)
              \/ BeginVerify(c, mobile, portal)
              \/ LoginWithPassword(c, mobile, portal)
         \/ InsertUser(c)
         \/ CommitSignup(c)
         \/ SendCode(c)
         \/ AcceptCode(c)
  PROVE  RowsInv'
<1>1. c \in Workers /\ calls[c] \in Call
  BY DEF Workers, TablesInv, CallsTyped
<1>2. UNCHANGED <<tokens, issued, held, spoiled>>
  BY DEF RequestCode, BeginVerify, LoginWithPassword, InsertUser, CommitSignup, SendCode,
         AcceptCode, sessions
<1>3. calls[c].op \notin {"recheck", "issue"}
  <2>1. calls[c] = Idle \/ calls[c].op \in {"insert", "commit", "code", "accept"}
    BY DEF RequestCode, BeginVerify, LoginWithPassword, InsertUser, CommitSignup, SendCode,
           AcceptCode, Accept, In
  <2> QED
    BY <2>1 DEF Idle
<1>4. ASSUME NEW call, Goto(c, call), call.op # "revoke"
      PROVE  RowsInv'
  <2>1. \A v \in Workers : calls'[v] = IF v = c THEN call ELSE calls[v]
    BY <1>1, <1>4, NextCall
  <2> QED
    BY <1>2, <1>3, <1>4, <2>1, RowsKept DEF Workers
<1>5. CASE \E mobile \in Mobiles, portal \in Portals : RequestCode(c, mobile, portal)
  BY <1>4, <1>5 DEF RequestCode, Accept
<1>6. CASE \E mobile \in Mobiles, portal \in Portals : BeginVerify(c, mobile, portal)
  BY <1>4, <1>6 DEF BeginVerify, Accept
<1>7. CASE \E mobile \in Mobiles, portal \in Portals : LoginWithPassword(c, mobile, portal)
  BY <1>4, <1>7 DEF LoginWithPassword, Accept
<1>8. CASE InsertUser(c)
  BY <1>4, <1>8 DEF InsertUser, Idle
<1>9. CASE CommitSignup(c) \/ SendCode(c)
  BY <1>4, <1>9 DEF CommitSignup, SendCode, Idle
<1>10. CASE AcceptCode(c)
  <2>1. [calls[c] EXCEPT !.op = "issue"] =
          [op |-> "issue", user |-> calls[c].user, role |-> calls[c].role]
    BY <1>1, <1>10, NextOp DEF AcceptCode, In
  <2> QED
    BY <1>4, <1>10, <2>1 DEF AcceptCode
<1> QED
  BY <1>5, <1>6, <1>7, <1>8, <1>9, <1>10

LEMMA RecheckKeepsRows ==
  ASSUME TablesInv, RowsInv, NEW c \in Clients, NEW portal \in Portals, Recheck(c, portal)
  PROVE  RowsInv'
<1>1. c \in Workers
  BY DEF Workers
<1>2. UNCHANGED <<tokens, issued, held>> /\ spoiled \subseteq spoiled'
  BY DEF Recheck, sessions, Spoil
<1>3. CASE Goto(c, Idle) /\ Spoil({held[c]})
  <2>1. \A v \in Workers : calls'[v] = IF v = c THEN Idle ELSE calls[v]
    BY <1>1, <1>3, NextCall
  <2>2. held[c] \in spoiled' \cup {NoToken}
    BY <1>3 DEF Spoil
  <2> QED
    BY <1>2, <2>1, <2>2, RowsKept DEF Idle, Workers
<1>4. CASE Goto(c, [op |-> "issue", user |-> calls[c].user, role |-> users[calls[c].user].role])
  <2>1. \A v \in Workers :
          calls'[v] = IF v = c
                      THEN [op |-> "issue", user |-> calls[c].user,
                            role |-> users[calls[c].user].role]
                      ELSE calls[v]
    BY <1>1, <1>4, NextCall
  <2> QED
    BY <1>2, <2>1, RowsKept DEF Workers
<1> QED
  BY <1>3, <1>4 DEF Recheck

LEMMA AdminKeepsRows ==
  ASSUME TablesInv, RowsInv, NEW a \in Admins,
         \/ \E mobile \in Mobiles : BeginCreate(a, mobile)
         \/ \E u \in Ids : BeginUpdate(a, u)
         \/ StoreUser(a)
         \/ InitWallet(a)
         \/ SaveUser(a)
  PROVE  RowsInv'
<1>1. a \in Workers /\ a \notin Clients
  BY AccountsAssumption DEF Workers
<1>2. UNCHANGED <<tokens, issued, held, spoiled>>
  BY DEF BeginCreate, BeginUpdate, StoreUser, InitWallet, SaveUser, sessions
<1>3. \E call : Goto(a, call)
  BY DEF BeginCreate, BeginUpdate, StoreUser, InitWallet, SaveUser, Accept
<1>4. \A c \in Clients : calls'[c] = calls[c]
  BY <1>1, <1>3, NextCall DEF Workers
<1> QED
  BY <1>2, <1>4, RowsKept

LEMMA CutOffKeepsRows ==
  ASSUME TablesInv, RowsInv, NEW w \in Workers, CutOff(w)
  PROVE  RowsInv'
<1>1. UNCHANGED <<tokens, issued, held>> /\ spoiled \subseteq spoiled'
  BY DEF CutOff, sessions, Spoil
<1>2. \A v \in Workers : calls'[v] = IF v = w THEN Idle ELSE calls[v]
  BY NextCall DEF CutOff
<1>3. calls[w].op \in {"recheck", "issue"} => held[w] \in spoiled' \cup {NoToken}
  BY DEF CutOff, Spoil, In
<1> QED
  BY <1>1, <1>2, <1>3, RowsKept DEF Idle, Workers

LEMMA RowsStart ==
  AccountsInit => RowsInv
<1> SUFFICES ASSUME AccountsInit PROVE RowsInv
  OBVIOUS
<1>1. RowInHand
  BY DEF AccountsInit, RowInHand, In, Idle, Workers
<1>2. ASSUME NEW jwt \in Jwt \ spoiled
      PROVE  Cardinality(Holders(jwt)) <= Cardinality(RowsOf(jwt))
  <2>1. Holders(jwt) = {}
    BY AccountsAssumption DEF AccountsInit, Holders
  <2> QED
    BY <2>1, FS_EmptySet, Countable
<1> QED
  BY <1>1, <1>2 DEF RowsInv

LEMMA RowsStep ==
  TablesInv /\ RowsInv /\ [AccountsNext]_accountVars => RowsInv'
<1>1. ASSUME TablesInv, RowsInv, AccountsNext PROVE RowsInv'
  <2>1. StepCases
    BY <1>1, Cases
  <2>2. CASE \/ Tick
             \/ \E u \in Ids : SetPassword(u) \/ AssignRole(u)
    <3>1. UNCHANGED <<tokens, issued, held, spoiled, calls>>
      BY <2>2 DEF Tick, SetPassword, AssignRole, sessions
    <3> QED
      BY <1>1, <3>1, RowsKept
  <2>3. CASE \E c \in Clients : ClientReads(c) \/ CommitSignup(c) \/ SendCode(c) \/ AcceptCode(c)
    BY <1>1, <2>3, RefreshKeepsRows, ClientKeepsRows, RecheckKeepsRows DEF ClientReads
  <2> QED
    BY <1>1, <2>1, <2>2, <2>3, IssueKeepsRows, RevokeKeepsRows, AdminKeepsRows,
       RemoveKeepsRows, CutOffKeepsRows
    DEF StepCases
<1>2. ASSUME RowsInv, UNCHANGED accountVars PROVE RowsInv'
  <2>1. \A jwt : Holders(jwt)' = Holders(jwt) /\ RowsOf(jwt)' = RowsOf(jwt)
    BY <1>2 DEF accountVars, Holders, RowsOf, In
  <2>2. RowInHand' /\ UNCHANGED spoiled
    BY <1>2 DEF accountVars, RowsInv, RowInHand, In
  <2> QED
    BY <1>2, <2>1, <2>2 DEF RowsInv
<1> QED
  BY <1>1, <1>2

-----------------------------------------------------------------------------
(* The invariant: what ids, requests, rights and tokens have to do with    *)
(* one another, whatever requests overlap and wherever they are cut short. *)
THEOREM AccountsInvariant ==
  AccountsSpec => []AccountsInv
<1>1. AccountsInit => AccountsInv
  BY TablesStart, RightsStart, RowsStart DEF AccountsInv
<1>2. AccountsInv /\ [AccountsNext]_accountVars => AccountsInv'
  BY TablesStep, RightsStep, RowsStep DEF AccountsInv
<1> QED
  BY <1>1, <1>2, PTL DEF AccountsSpec

(* Tables, tokens and requests keep their types, and a valid refresh token *)
(* belongs to an account that exists.                                      *)
THEOREM AccountsTypes ==
  AccountsSpec => []AccountsTypeOK
<1>1. AccountsInv => AccountsTypeOK
  BY TypesOfTables DEF AccountsInv
<1> QED
  BY <1>1, AccountsInvariant, PTL

(* An account has its wallet, and one made by sign-up its cart too: the    *)
(* transaction of loginOrSignup commits all three, and no request reads a  *)
(* user whose sign-up is in progress.                                      *)
THEOREM AccountsComplete ==
  AccountsSpec => []AccountComplete
<1>1. AccountsInv => AccountComplete
  BY DEF AccountsInv, TablesInv
<1> QED
  BY <1>1, AccountsInvariant, PTL

(* An access token gives a role its user had in the tick the token was     *)
(* signed, and the account was on in it: by sign-up or an admin, for the   *)
(* user is read again by refreshTokens and loginWithPassword; or by a      *)
(* one-time code, with which verifyOtp switches on what an admin had       *)
(* switched off.                                                           *)
THEOREM RightsEnd ==
  AccountsSpec => []RightsEndUnlessReopened
<1>1. AccountsInv => RightsEndUnlessReopened
  BY DEF AccountsInv, RightsInv
<1> QED
  BY <1>1, AccountsInvariant, PTL

(* Of clients with equal refresh tokens none is logged out by another's    *)
(* refresh: RefreshTokenRepository.revoke takes one row for each exchange. *)
THEOREM SessionsKept ==
  AccountsSpec => []SessionKept
<1>1. AccountsInv => SessionKept
  <2>1. SUFFICES ASSUME AccountsInv, NEW jwt \in Relied \ spoiled
                 PROVE  Cardinality(Holders(jwt)) <= Cardinality(RowsOf(jwt))
    BY DEF SessionKept, Holders, RowsOf
  <2>2. jwt \in Jwt \ spoiled
    BY <2>1 DEF AccountsInv, TablesInv, SessionsTyped, Relied
  <2> QED
    BY <2>1, <2>2 DEF AccountsInv, RowsInv
<1> QED
  BY <1>1, AccountsInvariant, PTL
=============================================================================
