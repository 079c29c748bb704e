---------------------------- MODULE Withdrawals ----------------------------
(***************************************************************************)
(* WalletService: a user asks for a payout (createWithdraw), an admin      *)
(* approves or rejects it (reviewWithdraw).  Each is one database          *)
(* transaction that writes withdraws, user_credits and transactions; the   *)
(* review locks its withdraw row with SELECT ... FOR UPDATE, so that two   *)
(* admins reviewing the same request are serialized, and each handler is   *)
(* one action.                                                             *)
(***************************************************************************)
EXTENDS CreditLedger

CONSTANTS
  WithdrawAmounts,  \* amounts a user may ask for
  MaxWithdraws      \* bound: rows of withdraws explored

ASSUME WithdrawAssumption ==
  /\ WithdrawAmounts \subseteq Amounts
  /\ MaxWithdraws \in Nat

VARIABLE withdraws  \* the rows of withdraws, in insertion order

withdrawVars == <<wallets, transactions, withdraws>>

Withdraw ==
  [user : Users, amount : Amounts, status : {"pending", "success", "rejected"}]

(* createWithdraw: insert the row, lock the money (throws when the         *)
(* spendable balance is too small), insert the pending debit.              *)
CreateWithdraw(u, a) ==
  /\ Len(withdraws) < MaxWithdraws
  /\ CanSpend(wallets[u], a)
  /\ withdraws' = Append(withdraws, [user |-> u, amount |-> a, status |-> "pending"])
  /\ wallets' = [wallets EXCEPT ![u] = Lock(@, a)]
  /\ transactions' =
       Append(transactions,
              Row(u, a, "debit", "WITHDRAW", OfWithdraw(Len(withdraws) + 1),
                  NoOrder, "pending"))

(* Mutant: every review ends in success.                                   *)
CloseAsSuccess(w, status, state) ==
  /\ withdraws' = [withdraws EXCEPT ![w].status = "success"]
  /\ transactions' =
       UpdateTransactions(transactions,
                          FindPendingBySource(transactions, OfWithdraw(w)), state)

(* What both reviews do to withdraw w: its row takes its final status and  *)
(* its pending debit, if there is one, the matching state.                 *)
Close(w, status, state) ==
  /\ withdraws' = [withdraws EXCEPT ![w].status = status]
  /\ transactions' =
       UpdateTransactions(transactions,
                          FindPendingBySource(transactions, OfWithdraw(w)), state)

(* reviewWithdraw(w, 'approve'): unlock, then decrement, then close.       *)
ApproveWithdraw(w) ==
  LET u == withdraws[w].user
      a == withdraws[w].amount
  IN  /\ withdraws[w].status = "pending"
      /\ CanUnlock(wallets[u], a)
      /\ CanSpend(Unlock(wallets[u], a), a)
      /\ wallets' = [wallets EXCEPT ![u] = Decrement(Unlock(@, a), a)]
      /\ Close(w, "success", "executed")

(* reviewWithdraw(w, 'reject'): unlock, then close.                        *)
RejectWithdraw(w) ==
  LET u == withdraws[w].user
      a == withdraws[w].amount
  IN  /\ withdraws[w].status = "pending"
      /\ CanUnlock(wallets[u], a)
      /\ wallets' = [wallets EXCEPT ![u] = Unlock(@, a)]
      /\ Close(w, "rejected", "rejected")

WithdrawInit ==
  /\ LedgerInit
  /\ withdraws = <<>>

WithdrawNext ==
  \/ \E u \in Users, a \in WithdrawAmounts : CreateWithdraw(u, a)
  \/ \E w \in DOMAIN withdraws : ApproveWithdraw(w)
  \/ \E w \in DOMAIN withdraws : RejectWithdraw(w)

WithdrawSpec == WithdrawInit /\ [][WithdrawNext]_withdrawVars

-----------------------------------------------------------------------------
(* Types of the three tables; balances and amounts are never negative.     *)
WithdrawTypeOK ==
  /\ wallets \in [Users -> Wallet]
  /\ transactions \in Seq(Transaction)
  /\ withdraws \in Seq(Withdraw)

PendingAmount(u, rows) ==
  [w \in DOMAIN rows |->
     IF rows[w].user = u /\ rows[w].status = "pending" THEN rows[w].amount ELSE 0]

(* The locked part of a wallet is exactly the sum of the user's requests   *)
(* still under review: createWithdraw locks and reviewWithdraw unlocks     *)
(* what was asked for, once, whatever else happens to the wallet between.  *)
LockedIsPending ==
  \A u \in Users :
    wallets[u].lockedAmount = SumRows(PendingAmount(u, withdraws), Len(withdraws))

(* A request under review can always be reviewed: neither guard of the     *)
(* review (INSUFFICIENT_LOCKED_CREDIT, INSUFFICIENT_CREDIT) can fail.      *)
ReviewNeverStuck ==
  \A w \in DOMAIN withdraws :
    withdraws[w].status = "pending" =>
      LET v == wallets[withdraws[w].user]
      IN  /\ CanUnlock(v, withdraws[w].amount)
          /\ CanSpend(Unlock(v, withdraws[w].amount), withdraws[w].amount)

TransactionState ==
  [pending |-> "pending", success |-> "executed", rejected |-> "rejected"]

(* Every request has exactly one transaction, for its user and its amount, *)
(* and the two rows tell the same story: the debit is pending, executed or *)
(* rejected as the request is pending, paid out or rejected.               *)
WithdrawsMatchTransactions ==
  \A w \in DOMAIN withdraws :
    \E t \in DOMAIN transactions :
      /\ transactions[t].user = withdraws[w].user
      /\ transactions[t].amount = withdraws[w].amount
      /\ transactions[t].type = "debit"
      /\ transactions[t].state = TransactionState[withdraws[w].status]
      /\ \A s \in DOMAIN transactions :
           transactions[s].source = OfWithdraw(w) <=> s = t

(* No transaction names a request that does not exist (yet).               *)
SourcesExist ==
  \A t \in DOMAIN transactions :
    transactions[t].source[1] = "withdraws" =>
      transactions[t].source[2] \in DOMAIN withdraws

(* Inductive: the types carry the arithmetic, and the last two say which   *)
(* transaction a review closes and that an insert does not meet its own.   *)
WithdrawInv ==
  /\ WithdrawTypeOK
  /\ LockedIsPending
  /\ LedgerReconciles
  /\ WithdrawsMatchTransactions
  /\ SourcesExist

RequestsWith(status) ==
  {[id |-> w, user |-> withdraws[w].user, amount |-> withdraws[w].amount] :
     w \in {v \in DOMAIN withdraws : withdraws[v].status = status}}

Promise == INSTANCE PayoutPromise WITH
  MaxRequests <- MaxWithdraws,
  spendable <- [u \in Users |-> wallets[u].amount],
  held <- RequestsWith("pending"),
  paid <- RequestsWith("success"),
  returned <- RequestsWith("rejected")
=============================================================================
