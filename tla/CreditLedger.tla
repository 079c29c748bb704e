---------------------------- MODULE CreditLedger ----------------------------
(***************************************************************************)
(* The two tables every money movement of the shop writes: user_credits    *)
(* (one wallet per user, CreditService) and transactions (TransactionService).*)
(*                                                                         *)
(* CreditService.apply is one guarded UPDATE per call; the four operations *)
(* below are its four SET clauses and CanSpend/CanUnlock its WHERE clauses.*)
(* A call whose guard fails throws, which rolls back the transaction it    *)
(* runs in, so the actions of the components take the guards as enabling   *)
(* conditions.                                                             *)
(***************************************************************************)
EXTENDS Integers, Sequences, RowSums

CONSTANTS
  Users,      \* the users that have a wallet
  Orders,     \* the order ids a transaction may refer to
  NoOrder,    \* the null of the nullable orderId column
  Opening     \* Opening[u]: spendable balance of u before the first transaction row

ASSUME LedgerAssumption ==
  /\ Opening \in [Users -> Nat]
  /\ NoOrder \notin Orders

VARIABLES
  wallets,      \* user_credits: wallets[u] = [amount, lockedAmount]
  transactions  \* the rows of transactions, in insertion order

ledgerVars == <<wallets, transactions>>

Amounts == Nat \ {0}
Wallet == [amount : Nat, lockedAmount : Nat]

(* sourceId is the id of a deposit or a withdraw, or null.                 *)
Sources == {"deposits", "withdraws", "null"} \X Nat
NoSource == <<"null", 0>>
OfDeposit(d) == <<"deposits", d>>
OfWithdraw(w) == <<"withdraws", w>>

Transaction ==
  [user : Users, amount : Amounts, type : {"credit", "debit"},
   sourceType : {"DEPOSIT", "WITHDRAW", "ORDER_PAYMENT"},
   source : Sources, order : Orders \cup {NoOrder},
   state : {"pending", "executed", "rejected"}]

-----------------------------------------------------------------------------
(* CreditService: incrementTotalAmount, decrementTotalAmount, lock, unlock. *)

(* Mutant: the UPDATE has no WHERE amount >= :amount.                      *)
CanSpendUnguarded(w, a) == TRUE
CanSpend(w, a) == w.amount >= a
CanUnlock(w, a) == w.lockedAmount >= a

Increment(w, a) == [w EXCEPT !.amount = @ + a]
Decrement(w, a) == [w EXCEPT !.amount = @ - a]
(* Mutant: the amount leaves the balance and is locked nowhere.            *)
LockNowhere(w, a) == [w EXCEPT !.amount = @ - a]
Lock(w, a) == [amount |-> w.amount - a, lockedAmount |-> w.lockedAmount + a]
Unlock(w, a) == [amount |-> w.amount + a, lockedAmount |-> w.lockedAmount - a]

(* TransactionService: a new row, the rows still pending for a source, the *)
(* one findOne returns (the oldest, or none), and a change of state.       *)

Row(u, a, type, sourceType, source, o, state) ==
  [user |-> u, amount |-> a, type |-> type, sourceType |-> sourceType,
   source |-> source, order |-> o, state |-> state]

PendingBySource(rows, source) ==
  {i \in DOMAIN rows : rows[i].source = source /\ rows[i].state = "pending"}

(* Mutant: WHERE state = 'pending' without the sourceId.                   *)
FindAnyPending(rows, source) ==
  {i \in DOMAIN rows :
     /\ rows[i].state = "pending"
     /\ \A j \in DOMAIN rows : rows[j].state = "pending" => i <= j}

FindPendingBySource(rows, source) ==
  {i \in PendingBySource(rows, source) :
     \A j \in PendingBySource(rows, source) : i <= j}

UpdateTransactions(rows, ids, state) ==
  [i \in DOMAIN rows |->
     IF i \in ids THEN [rows[i] EXCEPT !.state = state] ELSE rows[i]]

LedgerInit ==
  /\ wallets = [u \in Users |-> [amount |-> Opening[u], lockedAmount |-> 0]]
  /\ transactions = <<>>

-----------------------------------------------------------------------------
(* The effect of the executed rows on the money of user u, row by row.     *)
Flow(u, t) ==
  IF t.user = u /\ t.state = "executed"
  THEN IF t.type = "credit" THEN t.amount ELSE 0 - t.amount
  ELSE 0

ExecutedFlow(u, rows) == [i \in DOMAIN rows |-> Flow(u, rows[i])]

NetExecuted(u) == SumRows(ExecutedFlow(u, transactions), Len(transactions))

(* The wallet and the ledger agree: what a user owns, spendable or locked, *)
(* is what the wallet opened with plus the executed rows of transactions.  *)
(* Every operation moves money in user_credits and marks rows executed in  *)
(* transactions by separate statements of one database transaction; a      *)
(* forgotten, doubled or misdirected one breaks the equation.              *)
LedgerReconciles ==
  \A u \in Users :
    wallets[u].amount + wallets[u].lockedAmount = Opening[u] + NetExecuted(u)
=============================================================================
