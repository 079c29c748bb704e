-------------------------- MODULE CreditStatements --------------------------
(***************************************************************************)
(* CreditService.apply and the transactions it runs in, statement by       *)
(* statement: a request takes a connection from the pool, locks rows in    *)
(* the order its code names them, reads the wallet in the snapshot of its  *)
(* transaction, changes it by a guarded UPDATE and logs the balances.      *)
(*                                                                         *)
(* InnoDB reads at REPEATABLE READ: the first plain SELECT of a            *)
(* transaction fixes what later ones see, except for rows the transaction  *)
(* wrote itself, while UPDATE and SELECT ... FOR UPDATE work on the        *)
(* current rows and lock them until the end.  A cycle of waiting           *)
(* transactions costs one of them its work, a long wait for a lock too;    *)
(* waiting for a connection has no limit.                                  *)
(***************************************************************************)
EXTENDS Integers, Sequences, FiniteSets

CONSTANTS
  Users,      \* the users
  Amount,     \* Amount[u]: what each request of u is about
  Opening,    \* Opening[u]: the row of user_credits, or NoWallet
  NoWallet,   \* no row in user_credits
  Deposits,   \* deposits the gateways have verified
  Orders,     \* orders
  Withdraws,  \* pending withdraws
  Owner,      \* the user of each deposit, order and withdraw
  NoOrder,    \* the orderId of a wallet top-up
  OrderOf,    \* OrderOf[d]: the order a deposit is for
  Requests,   \* the requests of a behaviour
  Mixes,      \* what they may be about: functions from Requests to handlers
  NoRequest,  \* the holder of a free row
  NoView,     \* no snapshot yet
  PoolSize    \* connections of the pool

Wallet == [amount : Nat, lockedAmount : Nat]
Rows == Deposits \cup Orders \cup Withdraws \cup Users

(* A user without a wallet has no order: what a request does after it was  *)
(* the victim of a deadlock inside ensureWallet, which swallows the error, *)
(* is not modelled.                                                        *)
ASSUME StatementsAssumption ==
  /\ PoolSize \in Nat \ {0}
  /\ Amount \in [Users -> Nat \ {0}]
  /\ Opening \in [Users -> Wallet \cup {NoWallet}]
  /\ Owner \in [Deposits \cup Orders \cup Withdraws -> Users]
  /\ OrderOf \in [Deposits -> Orders \cup {NoOrder}]
  /\ \A o \in Orders : Opening[Owner[o]] # NoWallet
  /\ Deposits \cap Withdraws = {}
  /\ (Deposits \cup Withdraws) \cap (Orders \cup Users) = {}
  /\ NoRequest \notin Requests
  /\ NoWallet \notin Wallet
  /\ NoView \notin [wallet : Wallet \cup {NoWallet}, seen : Nat]

VARIABLES
  wallets,   \* user_credits as committed
  creditLog, \* credit_logs as committed; the wallet's row lock orders it per user
  closed,    \* deposits settled, orders paid and withdraws reviewed, as committed
  locks,     \* locks[row]: the request whose transaction has the row locked
  requests   \* what each request does

moneyVars == <<wallets, creditLog, closed, locks, requests>>

-----------------------------------------------------------------------------
(* The statements of each handler's transaction, in the order of the code. *)

Lock(row) == <<<<"lock", row>>>>       \* SELECT ... FOR UPDATE and the check of the status
Look == <<<<"look">>>>                 \* a plain SELECT, or the one TypeORM reloads an insert with
Apply(type) == <<<<"ensureWallet">>, <<"update", type>>>>
Write(row) == <<<<"write", row>>>>     \* UPDATE of a row not locked before
Balance == <<<<"balance">>>>           \* getBalance, without the transaction's manager

(* Mutant: the answer to an order's payment reads the balance as well.     *)
SettleWithBalance(d) ==
  IF OrderOf[d] = NoOrder
  THEN Lock(d) \o Apply("IN") \o Balance
  ELSE Lock(d) \o Apply("IN") \o Apply("OUT") \o Write(OrderOf[d]) \o Balance

Settle(d) ==
  IF OrderOf[d] = NoOrder
  THEN Lock(d) \o Apply("IN") \o Balance
  ELSE Lock(d) \o Apply("IN") \o Apply("OUT") \o Write(OrderOf[d])

PayOrderWithCredit(o) == Lock(o) \o Look \o Apply("OUT")
CreateWithdraw == Look \o Apply("LOCK")
Approve(w) == Lock(w) \o Look \o Apply("UNLOCK") \o Apply("OUT")
Reject(w) == Lock(w) \o Look \o Apply("UNLOCK")

Handlers ==
  [kind : {"settle"}, of : Deposits] \cup [kind : {"pay"}, of : Orders]
  \cup [kind : {"withdraw"}, of : Users]
  \cup [kind : {"approve", "reject"}, of : Withdraws]

ASSUME MixesAssumption == Mixes # {} /\ Mixes \subseteq [Requests -> Handlers]

Statements(h) ==
  CASE h.kind = "settle" -> Settle(h.of)
    [] h.kind = "pay" -> PayOrderWithCredit(h.of)
    [] h.kind = "withdraw" -> CreateWithdraw
    [] h.kind = "approve" -> Approve(h.of)
    [] h.kind = "reject" -> Reject(h.of)

UserOf(h) == IF h.of \in Users THEN h.of ELSE Owner[h.of]

(* The rows a handler leaves settled, paid or reviewed.                    *)
Closes(h) ==
  CASE h.kind = "withdraw" -> {}
    [] h.kind = "settle" -> {h.of} \cup ({OrderOf[h.of]} \ {NoOrder})
    [] OTHER -> {h.of}

-----------------------------------------------------------------------------
(* A request: its handler, the statements it has left, its snapshot, the   *)
(* wallet row as its transaction has written it (NoWallet before),     *)
(* what apply read before its UPDATE, and its uncommitted log rows.        *)
NewRequest(h) ==
  [handler |-> h, stage |-> "waiting", todo |-> Statements(h), view |-> NoView,
   own |-> NoWallet, before |-> NoWallet, logged |-> <<>>]

Open(r) == requests[r].stage = "open"
User(r) == UserOf(requests[r].handler)
AtEnd(r) == requests[r].todo = <<>>
Statement(r) == Head(requests[r].todo)
At(r, do) == Open(r) /\ ~ AtEnd(r) /\ Statement(r)[1] = do

(* An open transaction holds one connection.                               *)
ConnectionFree == Cardinality({r \in Requests : Open(r)}) < PoolSize

FreeFor(r, row) == locks[row] \in {r, NoRequest}
WithLock(r, row) == [locks EXCEPT ![row] = r]
Released(r) == [row \in Rows |-> IF locks[row] = r THEN NoRequest ELSE locks[row]]

Advanced(r) == [requests EXCEPT ![r].todo = Tail(@)]

(* COMMIT or ROLLBACK, and the connection goes back to the pool.           *)
End(r, stage) ==
  /\ requests' = [requests EXCEPT ![r].stage = stage]
  /\ locks' = Released(r)

(* What a plain SELECT of the wallet returns.                              *)
View(r) ==
  IF requests[r].view = NoView
  THEN [wallet |-> wallets[User(r)], seen |-> Len(creditLog)]
  ELSE requests[r].view
(* Mutant: the row is read without the manager of the transaction.         *)
VisibleToOthers(r) == View(r).wallet
Visible(r) == IF requests[r].own = NoWallet THEN View(r).wallet ELSE requests[r].own
Current(r) == IF requests[r].own = NoWallet THEN wallets[User(r)] ELSE requests[r].own

(* The SET and the WHERE of the four UPDATEs of apply.                     *)
Changed(type, w, a) ==
  CASE type = "IN" -> [w EXCEPT !.amount = @ + a]
    [] type = "OUT" -> [w EXCEPT !.amount = @ - a]
    [] type = "LOCK" -> [amount |-> w.amount - a, lockedAmount |-> w.lockedAmount + a]
    [] type = "UNLOCK" -> [amount |-> w.amount + a, lockedAmount |-> w.lockedAmount - a]

Affects(type, w, a) ==
  /\ type \in {"OUT", "LOCK"} => w.amount >= a
  /\ type = "UNLOCK" => w.lockedAmount >= a

-----------------------------------------------------------------------------
Begin(r) ==
  /\ requests[r].stage = "waiting"
  /\ ConnectionFree
  /\ requests' = [requests EXCEPT ![r].stage = "open"]
  /\ UNCHANGED <<wallets, creditLog, closed, locks>>

(* Mutant: the row is read without FOR UPDATE.                             *)
ReadRow(r) ==
  /\ At(r, "lock")
  /\ IF Statement(r)[2] \in closed
     THEN End(r, "refused")
     ELSE requests' = Advanced(r) /\ UNCHANGED locks
  /\ UNCHANGED <<wallets, creditLog, closed>>

LockRow(r) ==
  /\ At(r, "lock")
  /\ FreeFor(r, Statement(r)[2])
  /\ IF Statement(r)[2] \in closed
     THEN End(r, "refused")
     ELSE /\ requests' = Advanced(r)
          /\ locks' = WithLock(r, Statement(r)[2])
  /\ UNCHANGED <<wallets, creditLog, closed>>

LookUp(r) ==
  /\ At(r, "look")
  /\ requests' = [Advanced(r) EXCEPT ![r].view = View(r)]
  /\ UNCHANGED <<wallets, creditLog, closed, locks>>

(* ensureWallet: the SELECT, and the INSERT when there is no row.  The     *)
(* INSERT waits for one of another transaction; after a duplicate key the  *)
(* second SELECT reads the snapshot of the first, finds nothing again and  *)
(* apply throws.                                                           *)
FindWallet(r) ==
  /\ At(r, "ensureWallet")
  /\ requests[r].view = NoView \/ Visible(r) # NoWallet
  /\ requests' = [requests EXCEPT
       ![r].view = View(r),
       ![r].before = Visible(r),
       ![r].todo = IF Visible(r) = NoWallet THEN @ ELSE Tail(@)]
  /\ UNCHANGED <<wallets, creditLog, closed, locks>>

InsertWallet(r) ==
  /\ At(r, "ensureWallet")
  /\ requests[r].view # NoView /\ Visible(r) = NoWallet
  /\ FreeFor(r, User(r))
  /\ IF wallets[User(r)] # NoWallet
     THEN End(r, "refused")
     ELSE /\ requests' = [Advanced(r) EXCEPT ![r].before = [amount |-> 0, lockedAmount |-> 0],
                                             ![r].own = [amount |-> 0, lockedAmount |-> 0]]
          /\ locks' = WithLock(r, User(r))
  /\ UNCHANGED <<wallets, creditLog, closed>>

MayUpdate(r, type) == Affects(type, Current(r), Amount[User(r)])

(* Mutant: the balance after is computed from the one read before.         *)
LogRowComputed(r, type) ==
  [user |-> User(r), by |-> r, type |-> type, before |-> requests[r].before,
   after |-> Changed(type, requests[r].before, Amount[User(r)]),
   seen |-> requests[r].view.seen]
(* The row of credit_logs; by and seen tell which transaction wrote it and *)
(* how many rows were committed when its snapshot was taken.               *)
LogRow(r, type) ==
  [user |-> User(r), by |-> r, type |-> type, before |-> requests[r].before,
   after |-> Changed(type, Current(r), Amount[User(r)]),
   seen |-> requests[r].view.seen]

(* The UPDATE, the SELECT of the changed row and the INSERT of the log.    *)
UpdateWallet(r) ==
  /\ At(r, "update")
  /\ FreeFor(r, User(r))
  /\ LET type == Statement(r)[2] IN
     IF MayUpdate(r, type)
     THEN /\ requests' = [Advanced(r) EXCEPT
               ![r].own = Changed(type, Current(r), Amount[User(r)]),
               ![r].logged = Append(@, LogRow(r, type))]
          /\ locks' = WithLock(r, User(r))
     ELSE End(r, "refused")
  /\ UNCHANGED <<wallets, creditLog, closed>>

WriteRow(r) ==
  /\ At(r, "write")
  /\ FreeFor(r, Statement(r)[2])
  /\ requests' = Advanced(r)
  /\ locks' = WithLock(r, Statement(r)[2])
  /\ UNCHANGED <<wallets, creditLog, closed>>

(* The second connection is taken, used and given back while the first is  *)
(* held; the SELECT waits for no lock.                                     *)
ReadBalance(r) ==
  /\ At(r, "balance")
  /\ ConnectionFree
  /\ requests' = Advanced(r)
  /\ UNCHANGED <<wallets, creditLog, closed, locks>>

Commit(r) ==
  /\ Open(r) /\ AtEnd(r)
  /\ wallets' = [wallets EXCEPT ![User(r)] = Current(r)]
  /\ creditLog' = creditLog \o requests[r].logged
  /\ closed' = closed \cup Closes(requests[r].handler)
  /\ End(r, "committed")

-----------------------------------------------------------------------------
(* Waiting for rows: at most one statement, and so one row, at a time.     *)
Wanted(r) ==
  IF At(r, "lock") \/ At(r, "write") THEN {Statement(r)[2]}
  ELSE IF \/ At(r, "update")
          \/ At(r, "ensureWallet") /\ requests[r].view # NoView /\ Visible(r) = NoWallet
  THEN {User(r)} ELSE {}

WaitsFor(r, s) == Open(r) /\ s # r /\ \E row \in Wanted(r) : locks[row] = s
Blocked(r) == \E s \in Requests : WaitsFor(r, s)

OnCycle(r) ==
  \E S \in SUBSET Requests :
    /\ r \in S
    /\ \A x \in S : (\E y \in S : WaitsFor(x, y)) /\ (\E y \in S : WaitsFor(y, x))

Abort(r) ==
  /\ End(r, "aborted")
  /\ UNCHANGED <<wallets, creditLog, closed>>

BreakDeadlock(r) == Blocked(r) /\ OnCycle(r) /\ Abort(r)
LockWaitTimeout(r) == Blocked(r) /\ Abort(r)

-----------------------------------------------------------------------------
TablesInit ==
  /\ wallets = Opening
  /\ creditLog = <<>>
  /\ closed = {}
  /\ locks = [row \in Rows |-> NoRequest]

StatementsInit ==
  /\ TablesInit
  /\ requests \in {[r \in Requests |-> NewRequest(mix[r])] : mix \in Mixes}

(* No request about money comes.                                           *)
NoMoneyInit ==
  /\ TablesInit
  /\ requests \in {[r \in Requests |-> [NewRequest(mix[r]) EXCEPT !.stage = "absent"]] :
                     mix \in {CHOOSE mix \in Mixes : TRUE}}

Step(r) ==
  \/ Begin(r)
  \/ LockRow(r)
  \/ LookUp(r)
  \/ FindWallet(r)
  \/ InsertWallet(r)
  \/ UpdateWallet(r)
  \/ WriteRow(r)
  \/ ReadBalance(r)
  \/ Commit(r)
  \/ BreakDeadlock(r)
  \/ LockWaitTimeout(r)

MoneyNext == \E r \in Requests : Step(r)

(* The database goes on while it can run some statement, and a wait for a  *)
(* lock ends with the lock or after innodb_lock_wait_timeout.              *)
MoneyFairness == WF_moneyVars(MoneyNext)

-----------------------------------------------------------------------------
Stages == {"absent", "waiting", "open", "refused", "aborted", "committed"}
LogRows ==
  [user : Users, by : Requests, type : {"IN", "OUT", "LOCK", "UNLOCK"},
   before : Wallet, after : Wallet, seen : Nat]

(* The tables have rows the schema allows, and requests the stages below.  *)
StatementsTypeOK ==
  /\ \A u \in Users : wallets[u] # NoWallet =>
       wallets[u].amount \in Nat /\ wallets[u].lockedAmount \in Nat
  /\ \A i \in DOMAIN creditLog : creditLog[i] \in LogRows
  /\ closed \subseteq Rows
  /\ locks \in [Rows -> Requests \cup {NoRequest}]
  /\ \A r \in Requests : requests[r].stage \in Stages

LogOf(u) == {i \in DOMAIN creditLog : creditLog[i].user = u}
Earlier(i) == {j \in LogOf(creditLog[i].user) : j < i}
First(u) == IF Opening[u] = NoWallet THEN [amount |-> 0, lockedAmount |-> 0] ELSE Opening[u]

(* The balance of u after the rows in S, the log's last word.              *)
BalanceAfter(u, S) ==
  IF S = {} THEN First(u)
  ELSE creditLog[CHOOSE i \in S : \A j \in S : j <= i].after

(* CreditLog, read from its first row to its last, accounts for the wallet:*)
(* each row's balance after is that of the row before it, changed by the   *)
(* row, and the last one is what the wallet has.  None is below zero,      *)
(* however many requests read one balance before they update it.           *)
LogIsChained ==
  /\ \A i \in DOMAIN creditLog :
       /\ creditLog[i].after =
            Changed(creditLog[i].type, BalanceAfter(creditLog[i].user, Earlier(i)),
                    Amount[creditLog[i].user])
       /\ creditLog[i].after \in [amount : Nat, lockedAmount : Nat]
  /\ \A u \in Users :
       LogOf(u) # {} => wallets[u] = BalanceAfter(u, LogOf(u))

(* The balance before of a row is read ahead of the UPDATE and may be      *)
(* stale, but it is never invented: it is the balance the wallet had when  *)
(* the transaction took its snapshot, or the one the transaction's own     *)
(* earlier row left.  It differs from the balance after of the row before  *)
(* only when that row was committed between the snapshot and the UPDATE.   *)
BeforeWasHeld ==
  \A i \in DOMAIN creditLog :
    LET row == creditLog[i]
        known == {j \in Earlier(i) : j <= row.seen \/ creditLog[j].by = row.by}
    IN  row.before = BalanceAfter(row.user, known)

(* The row lock makes handlers of the same deposit or withdraw take turns, *)
(* and the second reads the status the first one left: one of them moves   *)
(* money.                                                                  *)
EffectOnce ==
  \A row \in Deposits \cup Withdraws :
    Cardinality({r \in Requests : /\ requests[r].handler.of = row
                                  /\ requests[r].stage = "committed"}) <= 1

(* The whole pool is held by settlements of top-ups that wait for another  *)
(* connection of it.                                                       *)
Starved ==
  /\ ~ ConnectionFree
  /\ \A r \in Requests : Open(r) =>
       At(r, "balance") /\ OrderOf[requests[r].handler.of] = NoOrder

(* Every request comes to an end, whatever the order in which handlers     *)
(* lock deposits, wallets and orders, unless the pool is starved by        *)
(* top-ups: nothing else makes everyone wait for everyone.                 *)
EndsUnlessStarved ==
  \A r \in Requests :
    requests[r].stage = "waiting" ~>
      requests[r].stage \in {"refused", "aborted", "committed"} \/ Starved
=============================================================================
