------------------------------ MODULE Accounts ------------------------------
(***************************************************************************)
(* AuthService with its two repositories, and the operations of            *)
(* UsersService on one account: sign-up by one-time code, login by code or *)
(* password, the exchange of a refresh token, and what an admin does to    *)
(* the account meanwhile.                                                  *)
(*                                                                         *)
(* A request reads a row, waits, and writes; a step of the model is one    *)
(* statement on the database.  A JSON web token is a string: two signed    *)
(* for one user in the same second are the same string, and refresh_tokens *)
(* has no unique index on its hash.                                        *)
(***************************************************************************)
EXTENDS Integers, FiniteSets

CONSTANTS
  Ids,        \* ids that newId() may give to users
  NoUser,     \* an id without a row in users
  Mobiles,    \* usernames
  Clients,    \* browsers, each with one request at a time
  Admins,     \* who may create, update and remove users
  NoToken,    \* no refresh token
  Seconds,    \* the seconds of one tick of the clock
  MaxTokens,  \* bound: refresh tokens issued
  MaxCodes,   \* bound: one-time codes sent
  MaxEdits,   \* bound: what admins do to accounts
  MaxClock    \* bound: ticks of the clock; a tick is the life of an access token

VARIABLES
  users,    \* the table users
  wallets,  \* ids of users with a row in user_credits
  carts,    \* ids of users whose cart was made at sign-up
  tokens,   \* the rows of refresh_tokens that are not revoked
  issued,   \* number of rows inserted in refresh_tokens
  access,   \* access tokens signed
  held,     \* held[c]: the refresh token client c has
  codes,    \* number of one-time codes sent; 0 is null
  stale,    \* codes that have expired
  clock,    \* ticks
  edits,    \* number of operations of admins
  calls,    \* the request each client and admin is in the middle of
  made,     \* history: how an account came to be
  spoiled,  \* history: refresh tokens whose exchange was cut short or refused
  hadRole,  \* history: hadRole[u] is the set of roles u had in this tick
  reopened, \* history: accounts that a one-time code switched on after an admin had not
  wasOn,    \* history: accounts that sign-up or an admin had switched on in this tick
  wasReopened \* history: accounts that only a one-time code had switched on in this tick

accountVars ==
  <<users, wallets, carts, tokens, issued, access, held, codes, stale, clock, edits, calls, made,
    spoiled, hadRole, reopened, wasOn, wasReopened>>

accounts == <<users, wallets, carts>>
sessions == <<tokens, issued, access, held>>
times == <<codes, stale, clock>>

(* What the roles of a user, primary and extra, amount to at a portal.     *)
Roles == {"user", "seller"}

(* AUTH_PORTAL_ROLES: the user portal is open to every account.            *)
Portals == Roles
MayEnter(role, portal) == portal = "user" \/ role = portal

User == [mobile : Mobiles, role : Roles, active : BOOLEAN, otp : 0..MaxCodes,
         password : BOOLEAN]

Jwt == [user : Ids, role : Roles, at : 0..MaxClock, second : Seconds]

ASSUME AccountsAssumption ==
  /\ MaxTokens \in Nat
  /\ MaxCodes \in Nat
  /\ MaxEdits \in Nat
  /\ MaxClock \in Nat
  /\ Clients \cap Admins = {}
  /\ IsFiniteSet(Clients)
  /\ NoUser \notin User
  /\ NoToken \notin Jwt

Idle == [op |-> "idle"]

Call ==
  {Idle}
  \cup [op : {"insert", "store"}, mobile : Mobiles]
  \cup [op : {"commit"}, mobile : Mobiles, user : Ids]
  \cup [op : {"code", "wallet"}, user : Ids]
  \cup [op : {"accept", "issue"}, user : Ids, role : Roles]
  \cup [op : {"revoke", "recheck"}, user : Ids, row : 1..MaxTokens]
  \cup [op : {"save"}, user : Ids, mobile : Mobiles, role : Roles, active : BOOLEAN]

Workers == Clients \cup Admins

-----------------------------------------------------------------------------
Exists(u) == users[u] # NoUser

(* findByUsername                                                          *)
Named(mobile) == {u \in Ids : Exists(u) /\ users[u].mobile = mobile}

In(w, op) == calls[w].op = op

Goto(w, call) == calls' = [calls EXCEPT ![w] = call]

Accept(w, call) == calls[w] = Idle /\ Goto(w, call)

(* Rows of sign-ups that are not committed hold their key in the index.    *)
Locked(mobile) == \E w \in Workers : In(w, "commit") /\ calls[w].mobile = mobile

(* The refresh tokens that clients hold.                                   *)
Relied == {held[c] : c \in Clients} \ {NoToken}

Spoil(jwts) == spoiled' = spoiled \cup (jwts \ {NoToken})

Edit ==
  /\ edits < MaxEdits
  /\ edits' = edits + 1

FreeIds ==
  {u \in Ids : made[u] = "no" /\ \A w \in Workers : ~(In(w, "commit") /\ calls[w].user = u)}

NewUser(mobile, active) ==
  [mobile |-> mobile, role |-> "user", active |-> active, otp |-> 0, password |-> FALSE]

-----------------------------------------------------------------------------
(* loginOrSignup, first read.  The role of a user cannot be missing: the   *)
(* foreign key forbids it, so the repair of a missing role never runs.     *)
RequestCode(c, mobile, portal) ==
  /\ \/ \E u \in Named(mobile) :
          /\ MayEnter(users[u].role, portal)
          /\ Accept(c, [op |-> "code", user |-> u])
     \/ /\ Named(mobile) = {}
        /\ portal = "user"
        /\ Accept(c, [op |-> "insert", mobile |-> mobile])
  /\ UNCHANGED <<accounts, sessions, times, made, spoiled, edits, reopened>>

(* The unique index refuses a key that is committed; one that is not makes *)
(* the insertion wait, which is this step not being enabled.               *)
KeyIsFree(mobile) == Named(mobile) = {}

InsertUser(c) ==
  /\ In(c, "insert")
  /\ ~Locked(calls[c].mobile)
  /\ IF KeyIsFree(calls[c].mobile)
     THEN \E u \in FreeIds :
            Goto(c, [op |-> "commit", mobile |-> calls[c].mobile, user |-> u])
     ELSE Goto(c, Idle)
  /\ UNCHANGED <<accounts, sessions, times, made, spoiled, edits, reopened>>

(* Mutant: the wallet is left for later.                                   *)
WithoutWallet(u) == wallets
(* CreditService.init with the transaction's manager.                      *)
WithWallet(u) == wallets \cup {u}

(* The transaction inserts cart and wallet after the user and commits all  *)
(* three; what is rolled back is seen by nobody.                           *)
CommitSignup(c) ==
  /\ In(c, "commit")
  /\ LET u == calls[c].user
     IN  /\ users' = [users EXCEPT ![u] = NewUser(calls[c].mobile, TRUE)]
         /\ carts' = carts \cup {u}
         /\ wallets' = WithWallet(u)
         /\ made' = [made EXCEPT ![u] = "signup"]
         /\ Goto(c, [op |-> "code", user |-> u])
  /\ UNCHANGED <<sessions, times, spoiled, edits, reopened>>

SendCode(c) ==
  /\ In(c, "code")
  /\ codes < MaxCodes
  /\ codes' = codes + 1
  /\ users' = IF Exists(calls[c].user)
              THEN [users EXCEPT ![calls[c].user].otp = codes + 1]
              ELSE users
  /\ Goto(c, Idle)
  /\ UNCHANGED <<wallets, carts, sessions, stale, clock, made, spoiled, edits, reopened>>

(* verifyOtp up to the update, with the right code; a wrong or expired one *)
(* is refused and changes nothing.                                         *)
BeginVerify(c, mobile, portal) ==
  /\ \E u \in Named(mobile) :
       /\ users[u].otp # 0
       /\ users[u].otp \notin stale
       /\ MayEnter(users[u].role, portal)
       /\ Accept(c, [op |-> "accept", user |-> u, role |-> users[u].role])
  /\ UNCHANGED <<accounts, sessions, times, made, spoiled, edits, reopened>>

(* The update names the user and no code, and switches the account on      *)
(* whoever has switched it off.                                            *)
AcceptCode(c) ==
  /\ In(c, "accept")
  /\ LET u == calls[c].user
     IN  /\ users' = IF Exists(u)
                     THEN [users EXCEPT ![u] = [@ EXCEPT !.otp = 0, !.active = TRUE]]
                     ELSE users
         /\ reopened' = IF Exists(u) /\ ~users[u].active THEN reopened \cup {u} ELSE reopened
  /\ Goto(c, [calls[c] EXCEPT !.op = "issue"])
  /\ UNCHANGED <<wallets, carts, sessions, times, made, spoiled, edits>>

LoginWithPassword(c, mobile, portal) ==
  /\ \E u \in Named(mobile) :
       /\ users[u].password
       /\ users[u].active
       /\ MayEnter(users[u].role, portal)
       /\ Accept(c, [op |-> "issue", user |-> u, role |-> users[u].role])
  /\ UNCHANGED <<accounts, sessions, times, made, spoiled, edits, reopened>>

(* issueTokens: sign both tokens with the role read earlier and insert the *)
(* row, which the foreign key refuses when the user is gone.  The answer   *)
(* may be lost on its way to the client.                                   *)
IssueTokens(c) ==
  /\ In(c, "issue")
  /\ Goto(c, Idle)
  /\ \/ /\ Exists(calls[c].user)
        /\ issued < MaxTokens
        /\ issued' = issued + 1
        /\ \E second \in Seconds :
             LET jwt == [user |-> calls[c].user, role |-> calls[c].role, at |-> clock,
                         second |-> second]
             IN  /\ tokens' = [tokens EXCEPT ![issued + 1] = jwt]
                 /\ \/ held' = [held EXCEPT ![c] = jwt] /\ UNCHANGED spoiled
                    \/ Spoil({held[c]}) /\ UNCHANGED held
        /\ access' = access \cup {[user |-> calls[c].user, role |-> calls[c].role, at |-> clock]}
     \/ /\ ~Exists(calls[c].user)
        /\ Spoil({held[c]})
        /\ UNCHANGED <<sessions>>
  /\ UNCHANGED <<accounts, times, made, edits, reopened>>

(* refreshTokens, reached from validateToken when the access token is no   *)
(* longer valid: findValidToken returns any row with the hash.             *)
BeginRefresh(c) ==
  /\ \E row \in 1..MaxTokens :
       /\ tokens[row] # NoToken
       /\ tokens[row] = held[c]
       /\ Accept(c, [op |-> "revoke", user |-> held[c].user, row |-> row])
  /\ UNCHANGED <<accounts, sessions, times, made, spoiled, edits, reopened>>

(* Mutant: every row with this hash is revoked.                            *)
RevokedByHash(row) == [i \in 1..MaxTokens |-> IF tokens[i] = tokens[row] THEN NoToken ELSE tokens[i]]
Revoked(row) == [tokens EXCEPT ![row] = NoToken]

RevokeToken(c) ==
  /\ In(c, "revoke")
  /\ tokens' = Revoked(calls[c].row)
  /\ Goto(c, [calls[c] EXCEPT !.op = "recheck"])
  /\ UNCHANGED <<accounts, issued, access, held, times, made, spoiled, edits, reopened>>

(* Mutant: whether the account is active is not looked at again.           *)
MayRefreshAny(u) == Exists(u)
MayRefresh(u) == Exists(u) /\ users[u].active

(* The user is read again, after the revocation, and only now it matters   *)
(* for which portal the token is exchanged.                                *)
Recheck(c, portal) ==
  /\ In(c, "recheck")
  /\ LET u == calls[c].user
     IN  \/ /\ MayRefresh(u)
            /\ MayEnter(users[u].role, portal)
            /\ Goto(c, [op |-> "issue", user |-> u, role |-> users[u].role])
            /\ UNCHANGED spoiled
         \/ /\ ~(MayRefresh(u) /\ MayEnter(users[u].role, portal))
            /\ Goto(c, Idle)
            /\ Spoil({held[c]})
  /\ UNCHANGED <<accounts, sessions, times, made, edits, reopened>>

(* setPassword: the guard looks at the access token only, the service at   *)
(* the user.  No token is revoked.  access holds the tokens still valid.   *)
SetPassword(u) ==
  /\ \E t \in access : t.user = u
  /\ Exists(u)
  /\ users' = [users EXCEPT ![u].password = TRUE]
  /\ UNCHANGED <<wallets, carts, sessions, times, calls, made, spoiled, edits, reopened>>

-----------------------------------------------------------------------------
(* UsersService.create: no transaction; the unique index decides.          *)
BeginCreate(a, mobile) ==
  /\ Named(mobile) = {}
  /\ Accept(a, [op |-> "store", mobile |-> mobile])
  /\ Edit
  /\ UNCHANGED <<accounts, sessions, times, made, spoiled, reopened>>

StoreUser(a) ==
  /\ In(a, "store")
  /\ ~Locked(calls[a].mobile)
  /\ \/ /\ KeyIsFree(calls[a].mobile)
        /\ \E u \in FreeIds, active \in BOOLEAN :
             /\ users' = [users EXCEPT ![u] = NewUser(calls[a].mobile, active)]
             /\ made' = [made EXCEPT ![u] = "bare"]
             /\ Goto(a, [op |-> "wallet", user |-> u])
     \/ /\ ~KeyIsFree(calls[a].mobile)
        /\ Goto(a, Idle)
        /\ UNCHANGED <<users, made>>
  /\ UNCHANGED <<wallets, carts, sessions, times, spoiled, edits, reopened>>

(* CreditService.init without a manager; the foreign key needs the user.   *)
WalletOf(u) == IF Exists(u) THEN wallets \cup {u} ELSE wallets

InitWallet(a) ==
  /\ In(a, "wallet")
  /\ wallets' = WalletOf(calls[a].user)
  /\ made' = [made EXCEPT ![calls[a].user] = IF @ = "revived" THEN @ ELSE "admin"]
  /\ Goto(a, Idle)
  /\ UNCHANGED <<users, carts, sessions, times, spoiled, edits, reopened>>

(* UsersService.update: the row is loaded, isActive and the extra roles    *)
(* changed or not, and saved.                                              *)
BeginUpdate(a, u) ==
  /\ Exists(u)
  /\ \E active \in BOOLEAN, role \in Roles :
       Accept(a, [op |-> "save", user |-> u, mobile |-> users[u].mobile, role |-> role,
                  active |-> active])
  /\ Edit
  /\ UNCHANGED <<accounts, sessions, times, made, spoiled, reopened>>

(* save() writes the columns the entity has loaded, code and password not  *)
(* among them, and inserts the row again when it is gone.                  *)
SaveUser(a) ==
  /\ In(a, "save")
  /\ LET u == calls[a].user
         old == calls[a]
     IN  /\ \/ /\ Exists(u)
               /\ users' = [users EXCEPT ![u] = [@ EXCEPT !.active = old.active,
                                                         !.role = old.role]]
               /\ UNCHANGED made
            \/ /\ ~Exists(u)
               /\ ~Locked(old.mobile)
               /\ IF KeyIsFree(old.mobile)
                  THEN /\ users' = [users EXCEPT ![u] =
                            [NewUser(old.mobile, old.active) EXCEPT !.role = old.role]]
                       /\ made' = [made EXCEPT ![u] = "revived"]
                  ELSE UNCHANGED <<users, made>>
         /\ reopened' = reopened \ {u}
  /\ Goto(a, Idle)
  /\ UNCHANGED <<wallets, carts, sessions, times, spoiled, edits>>

(* Foreign keys ON DELETE CASCADE: refresh_tokens, user_credits.  The one  *)
(* of shopping_carts does not outlive the migrations: the cart stays.      *)
TokensWithout(u) ==
  [i \in 1..MaxTokens |->
    IF tokens[i] # NoToken /\ tokens[i].user = u THEN NoToken ELSE tokens[i]]

RemoveUser(u) ==
  /\ Exists(u)
  /\ users' = [users EXCEPT ![u] = NoUser]
  /\ wallets' = wallets \ {u}
  /\ tokens' = TokensWithout(u)
  /\ Spoil({t \in Relied : t.user = u})
  /\ Edit
  /\ reopened' = reopened \ {u}
  /\ UNCHANGED <<carts, issued, access, held, times, calls, made>>

(* SellersService.create gives its users their role by an UPDATE.          *)
AssignRole(u) ==
  /\ Exists(u)
  /\ users[u].role = "user"
  /\ users' = [users EXCEPT ![u].role = "seller"]
  /\ Edit
  /\ UNCHANGED <<wallets, carts, sessions, times, calls, made, spoiled, reopened>>

(* A request ends between two statements: the process stops, a connection  *)
(* is lost.  Its transaction, if any, is rolled back.                      *)
CutOff(w) ==
  /\ calls[w] # Idle
  /\ Goto(w, Idle)
  /\ IF In(w, "recheck") \/ In(w, "issue") THEN Spoil({held[w]}) ELSE UNCHANGED spoiled
  /\ UNCHANGED <<accounts, sessions, times, made, edits, reopened>>

(* The lifetime of an access token passes; no request takes that long, and *)
(* the codes sent are older than OTP_TTL_MINUTES.                          *)
Tick ==
  /\ clock < MaxClock
  /\ \A w \in Workers : calls[w] = Idle
  /\ clock' = clock + 1
  /\ stale' = 1..codes
  /\ access' = {t \in access : clock' <= t.at + 1}
  /\ UNCHANGED <<accounts, tokens, issued, held, codes, calls, made, spoiled, edits, reopened>>

(* Histories of one tick.                                                  *)
RolesNow(u) == IF Exists(u) THEN {users[u].role} ELSE {}
OnNow == {u \in Ids : Exists(u) /\ users[u].active} \ reopened

Remember ==
  /\ hadRole' = [u \in Ids |->
       RolesNow(u) \cup RolesNow(u)' \cup IF clock' = clock THEN hadRole[u] ELSE {}]
  /\ wasOn' = OnNow \cup OnNow' \cup IF clock' = clock THEN wasOn ELSE {}
  /\ wasReopened' =
       (reopened \cup reopened' \cup IF clock' = clock THEN wasReopened ELSE {}) \ wasOn'

-----------------------------------------------------------------------------
AccountsInit ==
  /\ users = [u \in Ids |-> NoUser]
  /\ wallets = {}
  /\ carts = {}
  /\ tokens = [i \in 1..MaxTokens |-> NoToken]
  /\ issued = 0
  /\ access = {}
  /\ held = [c \in Clients |-> NoToken]
  /\ codes = 0
  /\ stale = {}
  /\ clock = 0
  /\ edits = 0
  /\ calls = [w \in Workers |-> Idle]
  /\ made = [u \in Ids |-> "no"]
  /\ spoiled = {}
  /\ hadRole = [u \in Ids |-> {}]
  /\ reopened = {}
  /\ wasOn = {}
  /\ wasReopened = {}

AccountsNext ==
  /\ \/ \E c \in Clients, mobile \in Mobiles, portal \in Portals :
          \/ RequestCode(c, mobile, portal)
          \/ BeginVerify(c, mobile, portal)
          \/ LoginWithPassword(c, mobile, portal)
     \/ \E c \in Clients :
          \/ InsertUser(c) \/ CommitSignup(c) \/ SendCode(c) \/ AcceptCode(c)
          \/ IssueTokens(c)
          \/ BeginRefresh(c) \/ RevokeToken(c) \/ \E portal \in Portals : Recheck(c, portal)
     \/ \E a \in Admins, mobile \in Mobiles : BeginCreate(a, mobile)
     \/ \E a \in Admins, u \in Ids : BeginUpdate(a, u)
     \/ \E a \in Admins : StoreUser(a) \/ InitWallet(a) \/ SaveUser(a)
     \/ \E u \in Ids : SetPassword(u) \/ RemoveUser(u) \/ AssignRole(u)
     \/ \E w \in Workers : CutOff(w)
     \/ Tick
  /\ Remember

AccountsSpec == AccountsInit /\ [][AccountsNext]_accountVars

-----------------------------------------------------------------------------
(* Types; and a valid refresh token belongs to an account that exists.     *)
AccountsTypeOK ==
  /\ users \in [Ids -> User \cup {NoUser}]
  /\ wallets \subseteq Ids
  /\ carts \subseteq Ids
  /\ tokens \in [1..MaxTokens -> Jwt \cup {NoToken}]
  /\ issued \in 0..MaxTokens
  /\ \A i \in 1..MaxTokens : tokens[i] # NoToken => i <= issued /\ Exists(tokens[i].user)
  /\ access \subseteq [user : Ids, role : Roles, at : 0..MaxClock]
  /\ held \in [Clients -> Jwt \cup {NoToken}]
  /\ codes \in 0..MaxCodes
  /\ stale \subseteq 1..codes
  /\ clock \in 0..MaxClock
  /\ edits \in 0..MaxEdits
  /\ calls \in [Workers -> Call]
  /\ made \in [Ids -> {"no", "bare", "signup", "admin", "revived"}]
  /\ spoiled \subseteq Jwt
  /\ hadRole \in [Ids -> SUBSET Roles]
  /\ reopened \subseteq Ids
  /\ wasOn \subseteq Ids
  /\ wasReopened \subseteq Ids

(* An account has its wallet: from the first moment when it was made by    *)
(* sign-up, wherever that was interrupted, and with its cart; from the end *)
(* of the request when it was made by an admin.  Without a wallet are the  *)
(* accounts whose creation was cut short, or which a late save inserted    *)
(* again.                                                                  *)
AccountComplete ==
  \A u \in Ids :
    Exists(u) =>
      /\ made[u] \notin {"bare", "revived"} => u \in wallets
      /\ made[u] = "signup" => u \in carts

(* An access token was signed in a tick in which its user held its role.   *)
(* Who is given another role, or is removed, keeps the old rights for the  *)
(* life of one access token.  The same is true of who is switched off, for *)
(* what a refresh token or a password can give: in that tick sign-up or an *)
(* admin had the account on.  Only a one-time code gives more: verifyOtp   *)
(* sets isActive without having looked at it, so the user of an account    *)
(* that was switched off can switch it on again; wasReopened names these.  *)
(* (An account removed while a code is verified, and inserted again by a   *)
(* late save, need not be on.)                                             *)
RightsEndUnlessReopened ==
  \A t \in access :
    t.at = clock =>
      /\ t.role \in hadRole[t.user]
      /\ \/ t.user \in wasOn
         \/ t.user \in wasReopened
         \/ made[t.user] = "revived"

(* Clients may hold equal refresh tokens.  As long as no exchange of such  *)
(* a token was cut short or refused, there are as many valid rows for it   *)
(* as clients that rely on it: nobody is logged out by the refresh of      *)
(* another.                                                                *)
SessionKept ==
  \A jwt \in Relied \ spoiled :
    Cardinality({c \in Clients : held[c] = jwt /\ ~In(c, "recheck") /\ ~In(c, "issue")})
      <= Cardinality({i \in 1..MaxTokens : tokens[i] = jwt})
=============================================================================
