---------------------------- MODULE PaymentProofs ----------------------------
(***************************************************************************)
(* Proofs about Withdrawals and Payments, for any users, orders, gateways, *)
(* balances, amounts and number of requests and concurrent handlers.       *)
(*                                                                         *)
(* First the payouts alone.  WithdrawInv is inductive: the locked money is *)
(* the sum of the pending requests (LockedIsPending) only together with    *)
(* the types; the ledger needs that a review finds the one transaction row *)
(* of its request, which is WithdrawsMatchTransactions.                    *)
(*                                                                         *)
(* Then the payments, with the payouts going on next to them.  WithdrawInv *)
(* stays inductive because a payment never touches a row of transactions   *)
(* that belongs to a withdraw.  What PaymentInv adds is the same           *)
(* bookkeeping for deposits: every row that names a deposit carries its    *)
(* user and amount, and is executed only after the gateway has verified    *)
(* the payment, which a handler about to settle remembers while anything   *)
(* else may happen.                                                        *)
(***************************************************************************)
EXTENDS Payments, RowSumTheorems, FiniteSetTheorems

(* The four wallet operations, under their guards, keep a wallet a wallet. *)
LEMMA WalletOperations ==
  ASSUME NEW w \in Wallet, NEW a \in Amounts
  PROVE  /\ w.amount \in Nat /\ w.lockedAmount \in Nat /\ a \in Nat /\ a > 0
         /\ Increment(w, a) = [amount |-> w.amount + a, lockedAmount |-> w.lockedAmount]
         /\ Decrement(w, a) = [amount |-> w.amount - a, lockedAmount |-> w.lockedAmount]
         /\ Lock(w, a) = [amount |-> w.amount - a, lockedAmount |-> w.lockedAmount + a]
         /\ Unlock(w, a) = [amount |-> w.amount + a, lockedAmount |-> w.lockedAmount - a]
         /\ Decrement(Unlock(w, a), a) =
              [amount |-> w.amount, lockedAmount |-> w.lockedAmount - a]
         /\ Decrement(Increment(w, a), a) = w
<1>1. PICK x \in Nat, y \in Nat : w = [amount |-> x, lockedAmount |-> y]
  BY DEF Wallet
<1>2. a \in Nat /\ a > 0
  BY DEF Amounts
<1>3. w.amount = x /\ w.lockedAmount = y
  BY <1>1
<1>4. Increment(w, a) = [amount |-> x + a, lockedAmount |-> y]
  BY <1>1 DEF Increment
<1>5. Decrement(w, a) = [amount |-> x - a, lockedAmount |-> y]
  BY <1>1 DEF Decrement
<1>6. Lock(w, a) = [amount |-> x - a, lockedAmount |-> y + a]
  BY <1>1 DEF Lock
<1>7. Unlock(w, a) = [amount |-> x + a, lockedAmount |-> y - a]
  BY <1>1 DEF Unlock
<1>8. Decrement(Unlock(w, a), a) = [amount |-> x, lockedAmount |-> y - a]
  <2>1. (x + a) - a = x
    BY <1>2
  <2> QED BY <1>7, <2>1 DEF Decrement
<1>9. Decrement(Increment(w, a), a) = [amount |-> x, lockedAmount |-> y]
  <2>1. (x + a) - a = x
    BY <1>2
  <2> QED BY <1>4, <2>1 DEF Decrement
<1> QED BY <1>1, <1>2, <1>3, <1>4, <1>5, <1>6, <1>7, <1>8, <1>9

(* Inserting a transaction row and changing states keep the table typed.   *)
LEMMA RowType ==
  ASSUME NEW rows \in Seq(Transaction)
  PROVE  /\ \A t \in Transaction : Append(rows, t) \in Seq(Transaction)
         /\ \A ids : \A state \in {"pending", "executed", "rejected"} :
              UpdateTransactions(rows, ids, state) \in Seq(Transaction)
<1>1. \A t \in Transaction : Append(rows, t) \in Seq(Transaction)
  OBVIOUS
<1>2. ASSUME NEW ids, NEW state \in {"pending", "executed", "rejected"}
      PROVE  UpdateTransactions(rows, ids, state) \in Seq(Transaction)
  <2>1. \A i \in DOMAIN rows : rows[i] \in Transaction
    OBVIOUS
  <2>2. \A i \in DOMAIN rows : [rows[i] EXCEPT !.state = state] \in Transaction
    BY <2>1 DEF Transaction
  <2> QED BY <2>1, <2>2 DEF UpdateTransactions
<1> QED BY <1>1, <1>2

-----------------------------------------------------------------------------
(* The money column of transactions when a row is inserted, and when the   *)
(* state of one pending row changes.                                       *)
LEMMA FlowType ==
  ASSUME NEW u \in Users, NEW t \in Transaction
  PROVE  /\ Flow(u, t) \in Int
         /\ t.state # "executed" => Flow(u, t) = 0
         /\ t.user # u => Flow(u, t) = 0
<1>1. t.amount \in Nat
  BY DEF Transaction, Amounts
<1> QED BY <1>1 DEF Flow

LEMMA NetOfInsert ==
  ASSUME NEW u \in Users, NEW rows \in Seq(Transaction), NEW t \in Transaction
  PROVE  SumRows(ExecutedFlow(u, Append(rows, t)), Len(Append(rows, t)))
           = SumRows(ExecutedFlow(u, rows), Len(rows)) + Flow(u, t)
<1> DEFINE n == Len(rows)
           col == ExecutedFlow(u, rows)
           new == ExecutedFlow(u, Append(rows, t))
<1>1. n \in Nat /\ Len(Append(rows, t)) = n + 1
  OBVIOUS
<1>2. \A i \in 1..n : rows[i] \in Transaction /\ Append(rows, t)[i] = rows[i]
  OBVIOUS
<1>3. Append(rows, t)[n + 1] = t
  OBVIOUS
<1>4. \A i \in 1..n : col[i] \in Int /\ new[i] = col[i]
  <2>1. \A i \in 1..n : Flow(u, rows[i]) \in Int
    BY <1>2, FlowType
  <2>2. \A i \in 1..n : i \in DOMAIN rows /\ i \in DOMAIN Append(rows, t)
    OBVIOUS
  <2> QED BY <2>1, <2>2, <1>2 DEF ExecutedFlow
<1>5. new[n + 1] = Flow(u, t)
  <2>1. n + 1 \in DOMAIN Append(rows, t)
    OBVIOUS
  <2> QED BY <2>1, <1>3 DEF ExecutedFlow
<1>6. new[n + 1] \in Int
  BY <1>5, FlowType
<1>7. SumRows(new, n + 1) = SumRows(col, n) + new[n + 1]
  <2> HIDE DEF n, col, new
  <2> QED BY <1>1, <1>4, <1>6, SumAppend
<1> QED BY <1>1, <1>5, <1>7

LEMMA NetOfUpdate ==
  ASSUME NEW u \in Users, NEW rows \in Seq(Transaction),
         NEW k \in DOMAIN rows, rows[k].state = "pending",
         NEW state \in {"pending", "executed", "rejected"}
  PROVE  SumRows(ExecutedFlow(u, UpdateTransactions(rows, {k}, state)), Len(rows))
           = SumRows(ExecutedFlow(u, rows), Len(rows))
             + Flow(u, [rows[k] EXCEPT !.state = state])
<1> DEFINE n == Len(rows)
           after == UpdateTransactions(rows, {k}, state)
           col == ExecutedFlow(u, rows)
           new == ExecutedFlow(u, after)
<1>1. n \in Nat /\ k \in 1..n /\ DOMAIN rows = 1..n /\ DOMAIN after = 1..n
  BY DEF UpdateTransactions
<1>2. /\ \A i \in 1..n : i # k => after[i] = rows[i]
      /\ after[k] = [rows[k] EXCEPT !.state = state]
  BY <1>1 DEF UpdateTransactions
<1>3. \A i \in 1..n : rows[i] \in Transaction /\ after[i] \in Transaction
  <2>1. after \in Seq(Transaction)
    BY RowType
  <2> QED BY <1>1, <2>1
<1>4. \A i \in 1..n : col[i] = Flow(u, rows[i]) /\ new[i] = Flow(u, after[i])
  BY <1>1 DEF ExecutedFlow
<1>5. \A i \in 1..n : col[i] \in Int /\ new[i] \in Int
  BY <1>3, <1>4, FlowType
<1>6. \A i \in 1..n : i # k => new[i] = col[i]
  BY <1>2, <1>4
<1>7. col[k] = 0
  BY <1>1, <1>3, <1>4, FlowType
<1>8. new[k] = Flow(u, [rows[k] EXCEPT !.state = state])
  BY <1>1, <1>2, <1>4
<1>9. SumRows(new, n) = SumRows(col, n) + new[k] - col[k]
  <2> HIDE DEF n, col, new, after
  <2> QED BY <1>1, <1>5, <1>6, SumUpdate
<1>10. SumRows(col, n) \in Int
  <2> HIDE DEF n, col, new, after
  <2> QED BY <1>1, <1>5, SumType
<1>11. new[k] \in Int
  BY <1>1, <1>5
<1> QED BY <1>7, <1>8, <1>9, <1>10, <1>11

-----------------------------------------------------------------------------
(* The locked column of withdraws: a new request adds its amount for its   *)
(* user, a review takes it away.                                           *)
Under(u, r) == IF r.user = u /\ r.status = "pending" THEN r.amount ELSE 0

LEMMA UnderType ==
  ASSUME NEW u \in Users, NEW r \in Withdraw
  PROVE  Under(u, r) \in Nat
<1>1. r.amount \in Nat
  BY DEF Withdraw, Amounts
<1> QED BY <1>1 DEF Under

LEMMA PendingColumn ==
  ASSUME NEW u \in Users, NEW rows \in Seq(Withdraw)
  PROVE  /\ Len(rows) \in Nat /\ DOMAIN rows = 1..Len(rows)
         /\ \A i \in 1..Len(rows) :
              /\ rows[i] \in Withdraw
              /\ PendingAmount(u, rows)[i] = Under(u, rows[i])
              /\ PendingAmount(u, rows)[i] \in Nat
<1>1. Len(rows) \in Nat /\ DOMAIN rows = 1..Len(rows)
  OBVIOUS
<1>2. \A i \in 1..Len(rows) : rows[i] \in Withdraw
  OBVIOUS
<1>3. \A i \in 1..Len(rows) : PendingAmount(u, rows)[i] = Under(u, rows[i])
  BY <1>1 DEF PendingAmount, Under
<1> QED BY <1>1, <1>2, <1>3, UnderType

LEMMA LockedOfInsert ==
  ASSUME NEW u \in Users, NEW rows \in Seq(Withdraw), NEW r \in Withdraw
  PROVE  SumRows(PendingAmount(u, Append(rows, r)), Len(Append(rows, r)))
           = SumRows(PendingAmount(u, rows), Len(rows)) + Under(u, r)
<1> DEFINE n == Len(rows)
           more == Append(rows, r)
           col == PendingAmount(u, rows)
           new == PendingAmount(u, more)
<1>1. /\ n \in Nat /\ Len(more) = n + 1 /\ more \in Seq(Withdraw)
      /\ more[n + 1] = r
      /\ \A i \in 1..n : more[i] = rows[i]
  OBVIOUS
<1>2. \A i \in 1..n : col[i] = Under(u, rows[i]) /\ col[i] \in Nat
  BY PendingColumn
<1>3. \A i \in 1..n+1 : new[i] = Under(u, more[i]) /\ new[i] \in Nat
  <2>1. \A i \in 1..Len(more) : new[i] = Under(u, more[i]) /\ new[i] \in Nat
    BY <1>1, PendingColumn, Zenon
  <2> QED BY <2>1, <1>1
<1>4. \A i \in 1..n : col[i] \in Int /\ new[i] = col[i]
  BY <1>1, <1>2, <1>3
<1>5. new[n + 1] = Under(u, r) /\ new[n + 1] \in Int
  BY <1>1, <1>3
<1>6. SumRows(new, n + 1) = SumRows(col, n) + new[n + 1]
  <2> HIDE DEF n, col, new, more
  <2> QED BY <1>1, <1>4, <1>5, SumAppend
<1> QED BY <1>1, <1>5, <1>6

LEMMA LockedOfReview ==
  ASSUME NEW u \in Users, NEW rows \in Seq(Withdraw),
         NEW w \in DOMAIN rows, rows[w].status = "pending",
         NEW status \in {"success", "rejected"}
  PROVE  SumRows(PendingAmount(u, [rows EXCEPT ![w].status = status]), Len(rows))
           = SumRows(PendingAmount(u, rows), Len(rows)) - Under(u, rows[w])
<1> DEFINE n == Len(rows)
           after == [rows EXCEPT ![w].status = status]
           col == PendingAmount(u, rows)
           new == PendingAmount(u, after)
<1>1. n \in Nat /\ w \in 1..n /\ rows[w] \in Withdraw
  BY PendingColumn
<1>2. [rows[w] EXCEPT !.status = status] \in Withdraw
  BY <1>1 DEF Withdraw
<1>3. after \in Seq(Withdraw) /\ Len(after) = n
  BY <1>1, <1>2
<1>4. \A i \in 1..n : col[i] = Under(u, rows[i]) /\ col[i] \in Int
  BY PendingColumn
<1>5. \A i \in 1..n : new[i] = Under(u, after[i]) /\ new[i] \in Int
  <2>1. \A i \in 1..Len(after) : new[i] = Under(u, after[i]) /\ new[i] \in Nat
    BY <1>3, PendingColumn, Zenon
  <2> HIDE DEF n, after, new
  <2> QED BY <2>1, <1>3
<1>6. \A i \in 1..n : i # w => new[i] = col[i]
  <2>1. \A i \in 1..n : i # w => after[i] = rows[i]
    BY <1>1
  <2> HIDE DEF n, col, new, after
  <2> QED BY <2>1, <1>4, <1>5
<1>7. new[w] = 0
  <2>1. after[w].status = status
    BY <1>1, <1>2 DEF Withdraw
  <2> QED BY <1>1, <1>5, <2>1 DEF Under
<1>8. SumRows(new, n) = SumRows(col, n) + new[w] - col[w]
  <2> HIDE DEF n, col, new, after
  <2> QED BY <1>1, <1>4, <1>5, <1>6, SumUpdate
<1>9. SumRows(col, n) \in Int
  <2> HIDE DEF n, col, new, after
  <2> QED BY <1>1, <1>4, SumType
<1> QED BY <1>1, <1>4, <1>7, <1>8, <1>9

-----------------------------------------------------------------------------
(* findPendingBySourceId returns the one transaction of a pending request. *)
LEMMA RowOfRequest ==
  ASSUME WithdrawTypeOK, WithdrawsMatchTransactions,
         NEW w \in DOMAIN withdraws, withdraws[w].status = "pending"
  PROVE  \E t \in DOMAIN transactions :
           /\ transactions[t].user = withdraws[w].user
           /\ transactions[t].amount = withdraws[w].amount
           /\ transactions[t].type = "debit"
           /\ transactions[t].state = "pending"
           /\ \A s \in DOMAIN transactions :
                transactions[s].source = OfWithdraw(w) <=> s = t
           /\ FindPendingBySource(transactions, OfWithdraw(w)) = {t}
<1>1. PICK t \in DOMAIN transactions :
        /\ transactions[t].user = withdraws[w].user
        /\ transactions[t].amount = withdraws[w].amount
        /\ transactions[t].type = "debit"
        /\ transactions[t].state = TransactionState[withdraws[w].status]
        /\ \A s \in DOMAIN transactions :
             transactions[s].source = OfWithdraw(w) <=> s = t
  BY DEF WithdrawsMatchTransactions
<1>2. transactions[t].state = "pending"
  BY <1>1 DEF TransactionState
<1>3. PendingBySource(transactions, OfWithdraw(w)) = {t}
  BY <1>1, <1>2 DEF PendingBySource
<1>4. t \in Nat
  BY DEF WithdrawTypeOK
<1>5. FindPendingBySource(transactions, OfWithdraw(w)) = {t}
  BY <1>3, <1>4 DEF FindPendingBySource
<1> QED BY <1>1, <1>2, <1>5

(* What Close does to the two tables, for either review.                   *)
LEMMA CloseTables ==
  ASSUME WithdrawInv, NEW w \in DOMAIN withdraws, withdraws[w].status = "pending",
         NEW status \in {"success", "rejected"},
         Close(w, status, TransactionState[status])
  PROVE  /\ transactions' \in Seq(Transaction)
         /\ withdraws' \in Seq(Withdraw)
         /\ WithdrawsMatchTransactions'
         /\ SourcesExist'
         /\ \A u \in Users :
              /\ SumRows(PendingAmount(u, withdraws), Len(withdraws))'
                   = SumRows(PendingAmount(u, withdraws), Len(withdraws))
                     - Under(u, withdraws[w])
              /\ NetExecuted(u)'
                   = NetExecuted(u)
                     - (IF status = "success" THEN Under(u, withdraws[w]) ELSE 0)
<1> DEFINE state == TransactionState[status]
<1>1. PICK t \in DOMAIN transactions :
        /\ transactions[t].user = withdraws[w].user
        /\ transactions[t].amount = withdraws[w].amount
        /\ transactions[t].type = "debit"
        /\ transactions[t].state = "pending"
        /\ \A s \in DOMAIN transactions :
             transactions[s].source = OfWithdraw(w) <=> s = t
        /\ FindPendingBySource(transactions, OfWithdraw(w)) = {t}
  BY RowOfRequest DEF WithdrawInv
<1>2. /\ transactions \in Seq(Transaction)
      /\ withdraws \in Seq(Withdraw)
  BY DEF WithdrawInv, WithdrawTypeOK
<1>3. state \in {"executed", "rejected"} /\ (state = "executed" <=> status = "success")
  BY DEF TransactionState
<1>4. /\ transactions' = UpdateTransactions(transactions, {t}, state)
      /\ withdraws' = [withdraws EXCEPT ![w].status = status]
  BY <1>1 DEF Close
<1>5. transactions' \in Seq(Transaction) /\ Len(transactions') = Len(transactions)
  <2>1. transactions' \in Seq(Transaction)
    <3> HIDE DEF state
    <3> QED BY <1>2, <1>3, <1>4, RowType, Zenon
  <2>2. DOMAIN transactions' = DOMAIN transactions
    BY <1>4 DEF UpdateTransactions
  <2> QED BY <1>2, <2>1, <2>2
<1>6. /\ DOMAIN transactions' = DOMAIN transactions
      /\ \A s \in DOMAIN transactions :
           /\ transactions'[s].user = transactions[s].user
           /\ transactions'[s].amount = transactions[s].amount
           /\ transactions'[s].type = transactions[s].type
           /\ transactions'[s].source = transactions[s].source
           /\ s # t => transactions'[s].state = transactions[s].state
      /\ transactions'[t].state = state
  <2>1. DOMAIN transactions' = DOMAIN transactions
    BY <1>4 DEF UpdateTransactions
  <2>2. /\ \A s \in DOMAIN transactions : s # t => transactions'[s] = transactions[s]
        /\ transactions'[t] = [transactions[t] EXCEPT !.state = state]
    BY <1>4 DEF UpdateTransactions
  <2>3. transactions[t] \in Transaction
    BY <1>2
  <2>4. /\ transactions'[t].user = transactions[t].user
        /\ transactions'[t].amount = transactions[t].amount
        /\ transactions'[t].type = transactions[t].type
        /\ transactions'[t].source = transactions[t].source
        /\ transactions'[t].state = state
    BY <2>2, <2>3 DEF Transaction
  <2> QED BY <2>1, <2>2, <2>4
<1>7. /\ DOMAIN withdraws' = DOMAIN withdraws
      /\ \A v \in DOMAIN withdraws :
           /\ withdraws'[v].user = withdraws[v].user
           /\ withdraws'[v].amount = withdraws[v].amount
           /\ v # w => withdraws'[v].status = withdraws[v].status
      /\ withdraws'[w].status = status
      /\ withdraws' \in Seq(Withdraw)
      /\ Len(withdraws') = Len(withdraws)
  <2>1. withdraws[w] \in Withdraw
    BY <1>2
  <2>2. [withdraws[w] EXCEPT !.status = status] \in Withdraw
    BY <2>1 DEF Withdraw
  <2>3. withdraws' \in Seq(Withdraw) /\ Len(withdraws') = Len(withdraws)
    BY <1>2, <1>4, <2>2
  <2>4. withdraws'[w] = [withdraws[w] EXCEPT !.status = status]
    BY <1>2, <1>4
  <2>5. /\ withdraws'[w].user = withdraws[w].user
        /\ withdraws'[w].amount = withdraws[w].amount
        /\ withdraws'[w].status = status
    BY <2>1, <2>4 DEF Withdraw
  <2>6. \A v \in DOMAIN withdraws : v # w => withdraws'[v] = withdraws[v]
    BY <1>2, <1>4
  <2>7. DOMAIN withdraws' = DOMAIN withdraws
    BY <1>4
  <2> QED BY <2>3, <2>5, <2>6, <2>7
<1>8. WithdrawsMatchTransactions'
  <2> SUFFICES ASSUME NEW v \in DOMAIN withdraws'
               PROVE  \E r \in DOMAIN transactions' :
                        /\ transactions'[r].user = withdraws'[v].user
                        /\ transactions'[r].amount = withdraws'[v].amount
                        /\ transactions'[r].type = "debit"
                        /\ transactions'[r].state = TransactionState[withdraws'[v].status]
                        /\ \A s \in DOMAIN transactions' :
                             transactions'[s].source = OfWithdraw(v) <=> s = r
    BY DEF WithdrawsMatchTransactions, OfWithdraw, TransactionState
  <2>1. CASE v = w
    BY <1>1, <1>6, <1>7, <2>1
  <2>2. CASE v # w
    <3>1. v \in DOMAIN withdraws
      BY <1>7
    <3>2. PICK r \in DOMAIN transactions :
            /\ transactions[r].user = withdraws[v].user
            /\ transactions[r].amount = withdraws[v].amount
            /\ transactions[r].type = "debit"
            /\ transactions[r].state = TransactionState[withdraws[v].status]
            /\ \A s \in DOMAIN transactions :
                 transactions[s].source = OfWithdraw(v) <=> s = r
      BY <3>1 DEF WithdrawInv, WithdrawsMatchTransactions
    <3>3. r # t
      <4>1. OfWithdraw(v) # OfWithdraw(w)
        BY <2>2 DEF OfWithdraw
      <4> QED BY <1>1, <3>2, <4>1
    <3> QED BY <1>6, <1>7, <2>2, <3>1, <3>2, <3>3
  <2> QED BY <2>1, <2>2
<1>9. SourcesExist'
  BY <1>6, <1>7 DEF WithdrawInv, SourcesExist
<1>10. ASSUME NEW u \in Users
       PROVE  SumRows(PendingAmount(u, withdraws'), Len(withdraws'))
                = SumRows(PendingAmount(u, withdraws), Len(withdraws))
                  - Under(u, withdraws[w])
  <2>1. SumRows(PendingAmount(u, [withdraws EXCEPT ![w].status = status]), Len(withdraws))
          = SumRows(PendingAmount(u, withdraws), Len(withdraws)) - Under(u, withdraws[w])
    BY <1>2, LockedOfReview, Zenon
  <2> QED BY <2>1, <1>4, <1>7
<1>11. ASSUME NEW u \in Users
       PROVE  NetExecuted(u)'
                = NetExecuted(u)
                  - (IF status = "success" THEN Under(u, withdraws[w]) ELSE 0)
  <2>1. NetExecuted(u)'
          = NetExecuted(u) + Flow(u, [transactions[t] EXCEPT !.state = state])
    <3> HIDE DEF state
    <3>1. SumRows(ExecutedFlow(u, UpdateTransactions(transactions, {t}, state)),
                  Len(transactions))
            = SumRows(ExecutedFlow(u, transactions), Len(transactions))
              + Flow(u, [transactions[t] EXCEPT !.state = state])
      BY <1>1, <1>2, <1>3, NetOfUpdate
    <3> QED BY <1>4, <1>5, <3>1 DEF NetExecuted
  <2>2. transactions[t] \in Transaction /\ withdraws[w] \in Withdraw
    BY <1>2
  <2>3. Flow(u, [transactions[t] EXCEPT !.state = state])
          = 0 - (IF status = "success" THEN Under(u, withdraws[w]) ELSE 0)
    <3> DEFINE row == [transactions[t] EXCEPT !.state = state]
    <3>1. /\ row.user = withdraws[w].user
          /\ row.amount = withdraws[w].amount
          /\ row.type = "debit"
          /\ row.state = state
      BY <1>1, <2>2 DEF Transaction
    <3>2. withdraws[w].amount \in Nat
      BY <2>2 DEF Withdraw, Amounts
    <3> HIDE DEF row, state
    <3>3. Flow(u, row) = 0 - (IF status = "success" THEN Under(u, withdraws[w]) ELSE 0)
      BY <1>3, <3>1, <3>2 DEF Flow, Under
    <3> QED BY <3>3 DEF row
  <2>4. NetExecuted(u) \in Int
    <3>1. \A i \in 1..Len(transactions) : ExecutedFlow(u, transactions)[i] \in Int
      <4>1. \A i \in 1..Len(transactions) : transactions[i] \in Transaction
        BY <1>2
      <4>2. DOMAIN transactions = 1..Len(transactions)
        BY <1>2
      <4> QED BY <4>1, <4>2, FlowType DEF ExecutedFlow
    <3>2. Len(transactions) \in Nat
      BY <1>2
    <3> QED BY <3>1, <3>2, SumType DEF NetExecuted
  <2>5. Under(u, withdraws[w]) \in Int
    BY <2>2, UnderType
  <2> QED BY <2>1, <2>3, <2>4, <2>5
<1> QED BY <1>5, <1>7, <1>8, <1>9, <1>10, <1>11

-----------------------------------------------------------------------------
(* Every step of the component preserves WithdrawInv.                      *)

LEMMA InitEstablishes == WithdrawInit => WithdrawInv
<1> SUFFICES ASSUME WithdrawInit PROVE WithdrawInv
  OBVIOUS
<1>1. /\ wallets = [u \in Users |-> [amount |-> Opening[u], lockedAmount |-> 0]]
      /\ transactions = <<>> /\ withdraws = <<>>
  BY DEF WithdrawInit, LedgerInit
<1>2. \A u \in Users : Opening[u] \in Nat
  BY LedgerAssumption
<1>3. WithdrawTypeOK
  BY <1>1, <1>2 DEF WithdrawTypeOK, Wallet
<1>4. \A u \in Users : wallets[u].amount = Opening[u] /\ wallets[u].lockedAmount = 0
  BY <1>1
<1>5. LockedIsPending
  <2>1. Len(withdraws) = 0
    BY <1>1
  <2>2. \A u \in Users : SumRows(PendingAmount(u, withdraws), 0) = 0
    BY SumEmpty
  <2> QED BY <1>4, <2>1, <2>2 DEF LockedIsPending
<1>6. LedgerReconciles
  <2>1. Len(transactions) = 0
    BY <1>1
  <2>2. \A u \in Users : NetExecuted(u) = 0
    BY <2>1, SumEmpty DEF NetExecuted
  <2> QED BY <1>2, <1>4, <2>2 DEF LedgerReconciles
<1>7. WithdrawsMatchTransactions /\ SourcesExist
  BY <1>1 DEF WithdrawsMatchTransactions, SourcesExist
<1> QED BY <1>3, <1>5, <1>6, <1>7 DEF WithdrawInv

LEMMA NetType ==
  ASSUME WithdrawTypeOK, NEW u \in Users
  PROVE  NetExecuted(u) \in Int
<1>1. Len(transactions) \in Nat /\ DOMAIN transactions = 1..Len(transactions)
  BY DEF WithdrawTypeOK
<1>2. \A i \in 1..Len(transactions) : transactions[i] \in Transaction
  BY DEF WithdrawTypeOK
<1>3. \A i \in 1..Len(transactions) : ExecutedFlow(u, transactions)[i] \in Int
  BY <1>1, <1>2, FlowType DEF ExecutedFlow
<1> QED BY <1>1, <1>3, SumType DEF NetExecuted

LEMMA CreatePreserves ==
  ASSUME WithdrawInv, NEW u \in Users, NEW a \in WithdrawAmounts, CreateWithdraw(u, a)
  PROVE  WithdrawInv'
<1> DEFINE k == Len(withdraws) + 1
           request == [user |-> u, amount |-> a, status |-> "pending"]
           row == Row(u, a, "debit", "WITHDRAW", OfWithdraw(k), NoOrder, "pending")
<1>1. /\ wallets \in [Users -> Wallet]
      /\ transactions \in Seq(Transaction)
      /\ withdraws \in Seq(Withdraw)
  BY DEF WithdrawInv, WithdrawTypeOK
<1>2. /\ withdraws' = Append(withdraws, request)
      /\ transactions' = Append(transactions, row)
      /\ wallets' = [wallets EXCEPT ![u] = Lock(wallets[u], a)]
      /\ wallets[u].amount >= a
  BY DEF CreateWithdraw, CanSpend
<1>3. a \in Amounts /\ a \in Nat
  BY WithdrawAssumption DEF Amounts
<1>4. k \in Nat /\ DOMAIN withdraws = 1..Len(withdraws)
  BY <1>1
<1>5. request \in Withdraw /\ row \in Transaction
  BY <1>3, <1>4 DEF Withdraw, Transaction, Row, Sources, OfWithdraw
<1>6. /\ wallets[u].amount \in Nat /\ wallets[u].lockedAmount \in Nat
      /\ wallets'[u] = [amount |-> wallets[u].amount - a,
                        lockedAmount |-> wallets[u].lockedAmount + a]
      /\ \A v \in Users : v # u => wallets'[v] = wallets[v]
  BY <1>1, <1>2, <1>3, WalletOperations
<1>7. WithdrawTypeOK'
  <2>1. wallets'[u] \in Wallet
    BY <1>2, <1>3, <1>6 DEF Wallet
  <2>2. wallets' \in [Users -> Wallet]
    BY <1>1, <1>2, <1>6, <2>1
  <2>3. transactions' \in Seq(Transaction) /\ withdraws' \in Seq(Withdraw)
    BY <1>1, <1>2, <1>5
  <2> QED BY <2>2, <2>3 DEF WithdrawTypeOK
<1>8. LockedIsPending'
  <2> SUFFICES ASSUME NEW v \in Users
               PROVE  wallets'[v].lockedAmount
                        = SumRows(PendingAmount(v, withdraws'), Len(withdraws'))
    BY DEF LockedIsPending, PendingAmount
  <2>1. SumRows(PendingAmount(v, withdraws'), Len(withdraws'))
          = SumRows(PendingAmount(v, withdraws), Len(withdraws)) + Under(v, request)
    BY <1>1, <1>2, <1>5, LockedOfInsert, Zenon
  <2>2. wallets[v].lockedAmount = SumRows(PendingAmount(v, withdraws), Len(withdraws))
    BY DEF WithdrawInv, LockedIsPending
  <2>3. Under(v, request) = IF v = u THEN a ELSE 0
    BY DEF Under
  <2>4. wallets[v].lockedAmount \in Nat
    BY <1>1 DEF Wallet
  <2> HIDE DEF request
  <2> QED BY <1>3, <1>6, <2>1, <2>2, <2>3, <2>4
<1>9. LedgerReconciles'
  <2> SUFFICES ASSUME NEW v \in Users
               PROVE  wallets'[v].amount + wallets'[v].lockedAmount
                        = Opening[v] + NetExecuted(v)'
    BY DEF LedgerReconciles, NetExecuted, ExecutedFlow, Flow
  <2>1. NetExecuted(v)' = NetExecuted(v) + Flow(v, row)
    BY <1>1, <1>2, <1>5, NetOfInsert, Zenon DEF NetExecuted
  <2>2. row.state # "executed"
    BY DEF Row
  <2>3. Flow(v, row) = 0
    BY <1>5, <2>2, FlowType
  <2>4. NetExecuted(v) \in Int
    BY NetType DEF WithdrawInv
  <2>5. wallets[v].amount + wallets[v].lockedAmount = Opening[v] + NetExecuted(v)
    BY DEF WithdrawInv, LedgerReconciles
  <2>6. wallets[v].amount \in Nat /\ wallets[v].lockedAmount \in Nat
    BY <1>1 DEF Wallet
  <2> HIDE DEF row
  <2>7. wallets'[v].amount + wallets'[v].lockedAmount
          = wallets[v].amount + wallets[v].lockedAmount
    BY <1>3, <1>6, <2>6
  <2> QED BY <2>1, <2>3, <2>4, <2>5, <2>7
<1>10. /\ DOMAIN transactions' = 1..(Len(transactions) + 1)
       /\ DOMAIN withdraws' = 1..k
       /\ \A s \in DOMAIN transactions : transactions'[s] = transactions[s]
       /\ transactions'[Len(transactions) + 1] = row
       /\ \A w \in DOMAIN withdraws : withdraws'[w] = withdraws[w]
       /\ withdraws'[k] = request
       /\ Len(transactions) \in Nat /\ DOMAIN transactions = 1..Len(transactions)
  BY <1>1, <1>2
<1>11. /\ row.user = u /\ row.amount = a /\ row.type = "debit"
       /\ row.state = "pending" /\ row.source = OfWithdraw(k)
  BY DEF Row
<1>12. \A s \in DOMAIN transactions : transactions[s].source # OfWithdraw(k)
  BY <1>4 DEF WithdrawInv, SourcesExist, OfWithdraw
<1>13. WithdrawsMatchTransactions'
  <2> SUFFICES ASSUME NEW v \in DOMAIN withdraws'
               PROVE  \E r \in DOMAIN transactions' :
                        /\ transactions'[r].user = withdraws'[v].user
                        /\ transactions'[r].amount = withdraws'[v].amount
                        /\ transactions'[r].type = "debit"
                        /\ transactions'[r].state = TransactionState[withdraws'[v].status]
                        /\ \A s \in DOMAIN transactions' :
                             transactions'[s].source = OfWithdraw(v) <=> s = r
    BY DEF WithdrawsMatchTransactions, OfWithdraw, TransactionState
  <2>1. CASE v = k
    <3> DEFINE r == Len(transactions) + 1
    <3>1. r \in DOMAIN transactions'
      BY <1>10
    <3>2. \A s \in DOMAIN transactions' : transactions'[s].source = OfWithdraw(v) <=> s = r
      <4> HIDE DEF row, request, k
      <4>1. \A s \in DOMAIN transactions' : s = r \/ s \in DOMAIN transactions
        BY <1>10
      <4>2. r \notin DOMAIN transactions
        BY <1>10
      <4> QED BY <1>10, <1>11, <1>12, <2>1, <4>1, <4>2
    <3>3. /\ request.user = u /\ request.amount = a
          /\ TransactionState[request.status] = "pending"
      BY DEF TransactionState
    <3> HIDE DEF row, request, k
    <3> QED BY <1>10, <1>11, <2>1, <3>1, <3>2, <3>3
  <2>2. CASE v # k
    <3>1. v \in DOMAIN withdraws
      BY <1>4, <1>10, <2>2
    <3>2. PICK r \in DOMAIN transactions :
            /\ transactions[r].user = withdraws[v].user
            /\ transactions[r].amount = withdraws[v].amount
            /\ transactions[r].type = "debit"
            /\ transactions[r].state = TransactionState[withdraws[v].status]
            /\ \A s \in DOMAIN transactions :
                 transactions[s].source = OfWithdraw(v) <=> s = r
      BY <3>1 DEF WithdrawInv, WithdrawsMatchTransactions
    <3>3. OfWithdraw(v) # OfWithdraw(k)
      BY <2>2 DEF OfWithdraw
    <3> HIDE DEF row, request, k
    <3>4. \A s \in DOMAIN transactions' : s = Len(transactions) + 1 \/ s \in DOMAIN transactions
      BY <1>10
    <3>5. Len(transactions) + 1 # r /\ r \in DOMAIN transactions'
      BY <1>10
    <3>6. \A s \in DOMAIN transactions' : transactions'[s].source = OfWithdraw(v) <=> s = r
      BY <1>10, <1>11, <3>2, <3>3, <3>4, <3>5
    <3> QED BY <1>10, <3>1, <3>2, <3>5, <3>6
  <2> QED BY <2>1, <2>2
<1>14. SourcesExist'
  <2> SUFFICES ASSUME NEW t \in DOMAIN transactions',
                      transactions'[t].source[1] = "withdraws"
               PROVE  transactions'[t].source[2] \in DOMAIN withdraws'
    BY DEF SourcesExist
  <2>1. CASE t \in DOMAIN transactions
    <3>1. transactions[t].source[2] \in DOMAIN withdraws
      BY <1>10, <2>1 DEF WithdrawInv, SourcesExist
    <3> QED BY <1>4, <1>10, <2>1, <3>1
  <2>2. CASE t \notin DOMAIN transactions
    <3>1. transactions'[t].source = OfWithdraw(k)
      BY <1>10, <1>11, <2>2
    <3> QED BY <1>4, <1>10, <3>1 DEF OfWithdraw
  <2> QED BY <2>1, <2>2
<1> QED BY <1>7, <1>8, <1>9, <1>13, <1>14 DEF WithdrawInv

(* Neither guard of a review can fail: the amount of a pending request is  *)
(* one of the terms of the sum that is locked.                             *)
LEMMA PendingIsLocked ==
  ASSUME WithdrawTypeOK, LockedIsPending,
         NEW w \in DOMAIN withdraws, withdraws[w].status = "pending"
  PROVE  /\ withdraws[w].user \in Users
         /\ withdraws[w].amount \in Amounts
         /\ wallets[withdraws[w].user] \in Wallet
         /\ CanUnlock(wallets[withdraws[w].user], withdraws[w].amount)
         /\ CanSpend(Unlock(wallets[withdraws[w].user], withdraws[w].amount),
                     withdraws[w].amount)
<1> DEFINE u == withdraws[w].user
           a == withdraws[w].amount
           col == PendingAmount(u, withdraws)
<1>1. withdraws[w] \in Withdraw /\ u \in Users /\ a \in Amounts /\ a \in Nat
  <2>1. withdraws[w] \in Withdraw
    BY DEF WithdrawTypeOK
  <2> QED BY <2>1 DEF Withdraw, Amounts
<1>2. wallets[u] \in Wallet
  BY <1>1 DEF WithdrawTypeOK
<1>3. /\ Len(withdraws) \in Nat /\ w \in 1..Len(withdraws)
      /\ \A i \in 1..Len(withdraws) : col[i] \in Nat
      /\ col[w] = Under(u, withdraws[w])
  BY <1>1, PendingColumn DEF WithdrawTypeOK
<1>4. col[w] = a
  BY <1>3 DEF Under
<1>5. col[w] <= SumRows(col, Len(withdraws))
  <2> HIDE DEF col, u
  <2> QED BY <1>3, SumCovers
<1>6. wallets[u].lockedAmount = SumRows(col, Len(withdraws))
  BY <1>1 DEF LockedIsPending
<1>7. wallets[u].lockedAmount >= a
  <2>1. wallets[u].lockedAmount \in Nat
    BY <1>2 DEF Wallet
  <2> HIDE DEF col, u, a
  <2> QED BY <1>1, <1>4, <1>5, <1>6, <2>1
<1>8. Unlock(wallets[u], a).amount >= a
  <2>1. wallets[u].amount \in Nat
    BY <1>2 DEF Wallet
  <2>2. Unlock(wallets[u], a).amount = wallets[u].amount + a
    BY <1>1, <1>2, WalletOperations
  <2> QED BY <1>1, <2>1, <2>2
<1> QED BY <1>1, <1>2, <1>7, <1>8 DEF CanUnlock, CanSpend

(* Both reviews: what they do to the wallet, then the two tables.          *)
LEMMA ReviewPreserves ==
  ASSUME WithdrawInv, NEW w \in DOMAIN withdraws, withdraws[w].status = "pending",
         NEW status \in {"success", "rejected"},
         NEW wallet,
         wallet = (IF status = "success"
                   THEN Decrement(Unlock(wallets[withdraws[w].user], withdraws[w].amount),
                                  withdraws[w].amount)
                   ELSE Unlock(wallets[withdraws[w].user], withdraws[w].amount)),
         wallets' = [wallets EXCEPT ![withdraws[w].user] = wallet],
         Close(w, status, TransactionState[status])
  PROVE  WithdrawInv'
<1> DEFINE u == withdraws[w].user
           a == withdraws[w].amount
<1>1. /\ WithdrawTypeOK /\ LockedIsPending /\ LedgerReconciles
      /\ wallets \in [Users -> Wallet]
  BY DEF WithdrawInv, WithdrawTypeOK
<1>2. /\ u \in Users /\ a \in Amounts /\ a \in Nat /\ wallets[u] \in Wallet
      /\ wallets[u].lockedAmount >= a
  BY <1>1, PendingIsLocked DEF CanUnlock, Amounts
<1>3. /\ wallets[u].amount \in Nat /\ wallets[u].lockedAmount \in Nat
      /\ wallet = [amount |-> IF status = "success" THEN wallets[u].amount
                                                   ELSE wallets[u].amount + a,
                   lockedAmount |-> wallets[u].lockedAmount - a]
  BY <1>2, WalletOperations
<1>4. wallet \in Wallet
  BY <1>2, <1>3 DEF Wallet
<1>5. /\ wallets' \in [Users -> Wallet]
      /\ wallets'[u] = wallet
      /\ \A v \in Users : v # u => wallets'[v] = wallets[v]
  BY <1>1, <1>2, <1>4
<1>6. /\ transactions' \in Seq(Transaction)
      /\ withdraws' \in Seq(Withdraw)
      /\ WithdrawsMatchTransactions'
      /\ SourcesExist'
      /\ \A v \in Users :
           /\ SumRows(PendingAmount(v, withdraws), Len(withdraws))'
                = SumRows(PendingAmount(v, withdraws), Len(withdraws))
                  - Under(v, withdraws[w])
           /\ NetExecuted(v)'
                = NetExecuted(v)
                  - (IF status = "success" THEN Under(v, withdraws[w]) ELSE 0)
  BY CloseTables
<1>7. WithdrawTypeOK'
  BY <1>5, <1>6 DEF WithdrawTypeOK
<1>8. \A v \in Users : Under(v, withdraws[w]) = IF v = u THEN a ELSE 0
  BY DEF Under
<1>9. LockedIsPending'
  <2> SUFFICES ASSUME NEW v \in Users
               PROVE  wallets'[v].lockedAmount
                        = SumRows(PendingAmount(v, withdraws), Len(withdraws))'
    BY DEF LockedIsPending
  <2>1. wallets[v].lockedAmount = SumRows(PendingAmount(v, withdraws), Len(withdraws))
    BY <1>1 DEF LockedIsPending
  <2>2. wallets[v].lockedAmount \in Nat
    BY <1>1 DEF Wallet
  <2>3. wallets'[v].lockedAmount = wallets[v].lockedAmount - (IF v = u THEN a ELSE 0)
    BY <1>2, <1>3, <1>5, <2>2
  <2>4. SumRows(PendingAmount(v, withdraws), Len(withdraws))'
          = wallets[v].lockedAmount - (IF v = u THEN a ELSE 0)
    BY <1>6, <1>8, <2>1
  <2> QED BY <2>3, <2>4
<1>10. LedgerReconciles'
  <2> SUFFICES ASSUME NEW v \in Users
               PROVE  wallets'[v].amount + wallets'[v].lockedAmount
                        = Opening[v] + NetExecuted(v)'
    BY DEF LedgerReconciles
  <2> DEFINE out == IF status = "success" /\ v = u THEN a ELSE 0
  <2>1. wallets[v].amount + wallets[v].lockedAmount = Opening[v] + NetExecuted(v)
    BY <1>1 DEF LedgerReconciles
  <2>2. wallets[v].amount \in Nat /\ wallets[v].lockedAmount \in Nat
    BY <1>1 DEF Wallet
  <2>3. NetExecuted(v) \in Int /\ Opening[v] \in Nat
    BY <1>1, NetType, LedgerAssumption
  <2>4. wallets'[v].amount + wallets'[v].lockedAmount
          = wallets[v].amount + wallets[v].lockedAmount - out
    BY <1>2, <1>3, <1>5, <2>2
  <2>5. NetExecuted(v)' = NetExecuted(v) - out
    BY <1>6, <1>8
  <2>6. out \in Nat
    BY <1>2
  <2> HIDE DEF out
  <2> QED BY <2>1, <2>2, <2>3, <2>4, <2>5, <2>6
<1> QED BY <1>6, <1>7, <1>9, <1>10 DEF WithdrawInv

LEMMA ApprovePreserves ==
  ASSUME WithdrawInv, NEW w \in DOMAIN withdraws, ApproveWithdraw(w)
  PROVE  WithdrawInv'
<1> DEFINE wallet == Decrement(Unlock(wallets[withdraws[w].user], withdraws[w].amount),
                               withdraws[w].amount)
<1>1. /\ withdraws[w].status = "pending"
      /\ wallets' = [wallets EXCEPT ![withdraws[w].user] = wallet]
      /\ Close(w, "success", TransactionState["success"])
  BY DEF ApproveWithdraw, TransactionState
<1> HIDE DEF wallet
<1>2. wallet = (IF "success" = "success"
                THEN Decrement(Unlock(wallets[withdraws[w].user], withdraws[w].amount),
                               withdraws[w].amount)
                ELSE Unlock(wallets[withdraws[w].user], withdraws[w].amount))
  BY DEF wallet
<1> QED BY <1>1, <1>2, ReviewPreserves

LEMMA RejectPreserves ==
  ASSUME WithdrawInv, NEW w \in DOMAIN withdraws, RejectWithdraw(w)
  PROVE  WithdrawInv'
<1> DEFINE wallet == Unlock(wallets[withdraws[w].user], withdraws[w].amount)
<1>1. /\ withdraws[w].status = "pending"
      /\ wallets' = [wallets EXCEPT ![withdraws[w].user] = wallet]
      /\ Close(w, "rejected", TransactionState["rejected"])
  BY DEF RejectWithdraw, TransactionState
<1> HIDE DEF wallet
<1>2. wallet = (IF "rejected" = "success"
                THEN Decrement(Unlock(wallets[withdraws[w].user], withdraws[w].amount),
                               withdraws[w].amount)
                ELSE Unlock(wallets[withdraws[w].user], withdraws[w].amount))
  BY DEF wallet
<1> QED BY <1>1, <1>2, ReviewPreserves

LEMMA NextPreserves ==
  ASSUME WithdrawInv, WithdrawNext
  PROVE  WithdrawInv'
<1>1. CASE \E u \in Users, a \in WithdrawAmounts : CreateWithdraw(u, a)
  BY <1>1, CreatePreserves
<1>2. CASE \E w \in DOMAIN withdraws : ApproveWithdraw(w)
  BY <1>2, ApprovePreserves
<1>3. CASE \E w \in DOMAIN withdraws : RejectWithdraw(w)
  BY <1>3, RejectPreserves
<1> QED BY <1>1, <1>2, <1>3 DEF WithdrawNext

LEMMA StutterPreserves ==
  ASSUME WithdrawInv, UNCHANGED withdrawVars
  PROVE  WithdrawInv'
<1>1. wallets' = wallets /\ transactions' = transactions /\ withdraws' = withdraws
  BY DEF withdrawVars
<1>2. WithdrawTypeOK'
  BY <1>1 DEF WithdrawInv, WithdrawTypeOK
<1>3. LockedIsPending'
  BY <1>1 DEF WithdrawInv, LockedIsPending, PendingAmount
<1>4. LedgerReconciles'
  BY <1>1 DEF WithdrawInv, LedgerReconciles, NetExecuted, ExecutedFlow, Flow
<1>5. WithdrawsMatchTransactions'
  BY <1>1, Zenon DEF WithdrawInv, WithdrawsMatchTransactions, OfWithdraw, TransactionState
<1>6. SourcesExist'
  BY <1>1, Zenon DEF WithdrawInv, SourcesExist
<1> QED BY <1>2, <1>3, <1>4, <1>5, <1>6 DEF WithdrawInv

-----------------------------------------------------------------------------
(* The wallet implements PayoutPromise: the request a row of withdraws     *)
(* stands for moves between the sets of the promise as its status does.    *)
RequestOf(w) == [id |-> w, user |-> withdraws[w].user, amount |-> withdraws[w].amount]

Statuses == {"pending", "success", "rejected"}

LEMMA RequestsOfInsert ==
  ASSUME withdraws \in Seq(Withdraw), NEW u \in Users, NEW a \in Amounts,
         withdraws' = Append(withdraws, [user |-> u, amount |-> a, status |-> "pending"])
  PROVE  /\ RequestsWith("pending")' = RequestsWith("pending")
                \cup {[id |-> Len(withdraws) + 1, user |-> u, amount |-> a]}
         /\ RequestsWith("success")' = RequestsWith("success")
         /\ RequestsWith("rejected")' = RequestsWith("rejected")
<1> DEFINE n == Len(withdraws) + 1
<1>1. /\ DOMAIN withdraws' = DOMAIN withdraws \cup {n}
      /\ n \notin DOMAIN withdraws
      /\ \A w \in DOMAIN withdraws : withdraws'[w] = withdraws[w]
      /\ withdraws'[n] = [user |-> u, amount |-> a, status |-> "pending"]
  OBVIOUS
<1> HIDE DEF n
<1>2. \A status :
        {v \in DOMAIN withdraws' : withdraws'[v].status = status}
          = {v \in DOMAIN withdraws : withdraws[v].status = status}
              \cup (IF status = "pending" THEN {n} ELSE {})
  BY <1>1
<1>3. RequestsWith("pending")' = RequestsWith("pending")
                \cup {[id |-> n, user |-> u, amount |-> a]}
  BY <1>1, <1>2 DEF RequestsWith
<1>4. RequestsWith("success")' = RequestsWith("success")
  BY <1>1, <1>2 DEF RequestsWith
<1>5. RequestsWith("rejected")' = RequestsWith("rejected")
  BY <1>1, <1>2 DEF RequestsWith
<1> QED BY <1>3, <1>4, <1>5 DEF n

LEMMA RequestsOfReview ==
  ASSUME withdraws \in Seq(Withdraw), NEW w \in DOMAIN withdraws,
         withdraws[w].status = "pending",
         NEW status \in {"success", "rejected"},
         withdraws' = [withdraws EXCEPT ![w].status = status]
  PROVE  /\ RequestOf(w) \in RequestsWith("pending")
         /\ RequestsWith("pending")' = RequestsWith("pending") \ {RequestOf(w)}
         /\ RequestsWith(status)' = RequestsWith(status) \cup {RequestOf(w)}
         /\ \A other \in {"success", "rejected"} \ {status} :
              RequestsWith(other)' = RequestsWith(other)
<1>1. /\ DOMAIN withdraws' = DOMAIN withdraws
      /\ \A v \in DOMAIN withdraws : v # w => withdraws'[v] = withdraws[v]
      /\ withdraws'[w].status = status
      /\ \A v \in DOMAIN withdraws : withdraws'[v].user = withdraws[v].user
                                     /\ withdraws'[v].amount = withdraws[v].amount
  <2>1. withdraws[w] \in Withdraw
    OBVIOUS
  <2>2. withdraws'[w] = [withdraws[w] EXCEPT !.status = status]
    OBVIOUS
  <2>3. /\ withdraws'[w].status = status
        /\ withdraws'[w].user = withdraws[w].user
        /\ withdraws'[w].amount = withdraws[w].amount
    BY <2>1, <2>2 DEF Withdraw
  <2>4. /\ DOMAIN withdraws' = DOMAIN withdraws
        /\ \A v \in DOMAIN withdraws : v # w => withdraws'[v] = withdraws[v]
    OBVIOUS
  <2> QED BY <2>3, <2>4, Zenon
<1>2. RequestOf(w) \in RequestsWith("pending")
  BY DEF RequestOf, RequestsWith
<1>3. \A q : {v \in DOMAIN withdraws' : withdraws'[v].status = q}
               = IF q = "pending" THEN {v \in DOMAIN withdraws : withdraws[v].status = q} \ {w}
                 ELSE IF q = status THEN {v \in DOMAIN withdraws : withdraws[v].status = q} \cup {w}
                 ELSE {v \in DOMAIN withdraws : withdraws[v].status = q}
  BY <1>1
<1>4. RequestsWith("pending")' = RequestsWith("pending") \ {RequestOf(w)}
  BY <1>1, <1>3 DEF RequestsWith, RequestOf
<1>5. RequestsWith(status)' = RequestsWith(status) \cup {RequestOf(w)}
  BY <1>1, <1>3 DEF RequestsWith, RequestOf
<1>6. ASSUME NEW other \in {"success", "rejected"} \ {status}
      PROVE  RequestsWith(other)' = RequestsWith(other)
  BY <1>1, <1>3 DEF RequestsWith
<1> QED BY <1>2, <1>4, <1>5, <1>6

LEMMA CreateHolds ==
  ASSUME WithdrawInv, NEW u \in Users, NEW a \in WithdrawAmounts, CreateWithdraw(u, a)
  PROVE  Promise!PromiseNext
<1> DEFINE r == [id |-> Len(withdraws) + 1, user |-> u, amount |-> a]
           spendable == [v \in Users |-> wallets[v].amount]
<1>1. /\ wallets \in [Users -> Wallet] /\ withdraws \in Seq(Withdraw)
      /\ a \in Amounts /\ a \in Nat /\ a > 0
  BY WithdrawAssumption DEF WithdrawInv, WithdrawTypeOK, Amounts
<1>2. /\ Len(withdraws) < MaxWithdraws
      /\ wallets[u].amount >= a
      /\ wallets' = [wallets EXCEPT ![u] = Lock(@, a)]
      /\ withdraws' = Append(withdraws, [user |-> u, amount |-> a, status |-> "pending"])
  BY DEF CreateWithdraw, CanSpend
<1>3. /\ RequestsWith("pending")' = RequestsWith("pending") \cup {r}
      /\ RequestsWith("success")' = RequestsWith("success")
      /\ RequestsWith("rejected")' = RequestsWith("rejected")
  BY <1>1, <1>2, RequestsOfInsert
<1>4. \A q \in RequestsWith("pending") \cup RequestsWith("success") \cup RequestsWith("rejected") :
        q.id # r.id
  BY <1>1 DEF RequestsWith
<1>5. spendable[r.user] >= r.amount
  BY <1>2
<1>6. spendable' = [spendable EXCEPT ![r.user] = @ - r.amount]
  BY <1>1, <1>2 DEF Lock
<1>7. Len(withdraws) + 1 \in 1..MaxWithdraws
  BY <1>1, <1>2, WithdrawAssumption
<1>8. a \in 1..spendable[u]
  BY <1>1, <1>2 DEF Wallet
<1>9. PICK i \in 1..MaxWithdraws : i = Len(withdraws) + 1
  BY <1>7
<1>10. Promise!Hold([id |-> i, user |-> u, amount |-> a])
  BY <1>3, <1>4, <1>5, <1>6, <1>9 DEF Promise!Hold
<1> QED BY <1>8, <1>10 DEF Promise!PromiseNext

LEMMA ApprovePaysOut ==
  ASSUME WithdrawInv, NEW w \in DOMAIN withdraws, ApproveWithdraw(w)
  PROVE  Promise!PromiseNext
<1> DEFINE u == withdraws[w].user
           a == withdraws[w].amount
<1>1. /\ wallets \in [Users -> Wallet] /\ withdraws \in Seq(Withdraw)
      /\ u \in Users /\ a \in Amounts /\ wallets[u] \in Wallet
  <2>1. wallets \in [Users -> Wallet] /\ withdraws \in Seq(Withdraw)
    BY DEF WithdrawInv, WithdrawTypeOK
  <2>2. withdraws[w] \in Withdraw
    BY <2>1
  <2> QED BY <2>1, <2>2 DEF Withdraw
<1>2. /\ withdraws[w].status = "pending"
      /\ CanUnlock(wallets[u], a)
      /\ wallets' = [wallets EXCEPT ![u] = Decrement(Unlock(@, a), a)]
      /\ withdraws' = [withdraws EXCEPT ![w].status = "success"]
  BY DEF ApproveWithdraw, Close
<1>3. /\ RequestOf(w) \in RequestsWith("pending")
      /\ RequestsWith("pending")' = RequestsWith("pending") \ {RequestOf(w)}
      /\ RequestsWith("success")' = RequestsWith("success") \cup {RequestOf(w)}
      /\ RequestsWith("rejected")' = RequestsWith("rejected")
  BY <1>1, <1>2, RequestsOfReview
<1>4. Decrement(Unlock(wallets[u], a), a).amount = wallets[u].amount
  BY <1>1 DEF Decrement, Unlock, Wallet, Amounts
<1>5. [v \in Users |-> wallets[v].amount]' = [v \in Users |-> wallets[v].amount]
  BY <1>1, <1>2, <1>4
<1>6. Promise!PayOut(RequestOf(w))
  BY <1>3, <1>5 DEF Promise!PayOut
<1> QED BY <1>3, <1>6 DEF Promise!PromiseNext

LEMMA RejectReturns ==
  ASSUME WithdrawInv, NEW w \in DOMAIN withdraws, RejectWithdraw(w)
  PROVE  Promise!PromiseNext
<1> DEFINE u == withdraws[w].user
           a == withdraws[w].amount
           spendable == [v \in Users |-> wallets[v].amount]
<1>1. /\ wallets \in [Users -> Wallet] /\ withdraws \in Seq(Withdraw)
      /\ u \in Users /\ a \in Amounts /\ wallets[u] \in Wallet
  <2>1. wallets \in [Users -> Wallet] /\ withdraws \in Seq(Withdraw)
    BY DEF WithdrawInv, WithdrawTypeOK
  <2>2. withdraws[w] \in Withdraw
    BY <2>1
  <2> QED BY <2>1, <2>2 DEF Withdraw
<1>2. /\ withdraws[w].status = "pending"
      /\ CanUnlock(wallets[u], a)
      /\ wallets' = [wallets EXCEPT ![u] = Unlock(@, a)]
      /\ withdraws' = [withdraws EXCEPT ![w].status = "rejected"]
  BY DEF RejectWithdraw, Close
<1>3. /\ RequestOf(w) \in RequestsWith("pending")
      /\ RequestsWith("pending")' = RequestsWith("pending") \ {RequestOf(w)}
      /\ RequestsWith("rejected")' = RequestsWith("rejected") \cup {RequestOf(w)}
      /\ RequestsWith("success")' = RequestsWith("success")
  BY <1>1, <1>2, RequestsOfReview
<1>4. Unlock(wallets[u], a).amount = wallets[u].amount + a
  BY DEF Unlock
<1>5. spendable' = [spendable EXCEPT ![u] = @ + a]
  BY <1>1, <1>2, <1>4
<1>6. RequestOf(w).user = u /\ RequestOf(w).amount = a
  BY DEF RequestOf
<1>7. PICK r \in RequestsWith("pending") : r = RequestOf(w)
  BY <1>3
<1>8. Promise!Return(r)
  BY <1>3, <1>5, <1>6, <1>7 DEF Promise!Return
<1> QED BY <1>8 DEF Promise!PromiseNext

LEMMA PayoutKeepsPromise ==
  ASSUME WithdrawInv, WithdrawNext
  PROVE  Promise!PromiseNext
<1>1. CASE \E u \in Users, a \in WithdrawAmounts : CreateWithdraw(u, a)
  BY <1>1, CreateHolds
<1>2. CASE \E w \in DOMAIN withdraws : ApproveWithdraw(w)
  BY <1>2, ApprovePaysOut
<1>3. CASE \E w \in DOMAIN withdraws : RejectWithdraw(w)
  BY <1>3, RejectReturns
<1> QED BY <1>1, <1>2, <1>3 DEF WithdrawNext

(* Any step that leaves withdraws alone is other business of the promise.  *)
LEMMA OtherBusiness ==
  ASSUME wallets' \in [Users -> Wallet], withdraws' = withdraws
  PROVE  Promise!EarnOrSpend
<1>1. [u \in Users |-> wallets[u].amount]' \in [Users -> Nat]
  BY DEF Wallet
<1>2. \A status \in Statuses : RequestsWith(status)' = RequestsWith(status)
  BY DEF RequestsWith
<1> QED BY <1>1, <1>2 DEF Promise!EarnOrSpend, Statuses

LEMMA PromiseInitially == WithdrawInit => Promise!PromiseInit
<1> SUFFICES ASSUME WithdrawInit PROVE Promise!PromiseInit
  OBVIOUS
<1>1. [u \in Users |-> wallets[u].amount] = Opening
  BY LedgerAssumption DEF WithdrawInit, LedgerInit
<1>2. \A status : RequestsWith(status) = {}
  BY DEF WithdrawInit, RequestsWith
<1> QED BY <1>1, <1>2 DEF Promise!PromiseInit

-----------------------------------------------------------------------------
(* WithdrawInv holds in every reachable state of the wallet service, for   *)
(* any users, opening balances, amounts and number of requests.            *)
THEOREM WithdrawInvariant == WithdrawSpec => []WithdrawInv
<1>1. WithdrawInit => WithdrawInv
  BY InitEstablishes
<1>2. WithdrawInv /\ [WithdrawNext]_withdrawVars => WithdrawInv'
  BY NextPreserves, StutterPreserves
<1> QED BY <1>1, <1>2, PTL DEF WithdrawSpec

(* Balances, locked balances and row amounts never go below zero.          *)
THEOREM WithdrawTypes == WithdrawSpec => []WithdrawTypeOK
<1>1. WithdrawInv => WithdrawTypeOK
  BY DEF WithdrawInv
<1> QED BY <1>1, WithdrawInvariant, PTL

(* createWithdraw and reviewWithdraw lock and unlock each request's amount *)
(* exactly once.                                                           *)
THEOREM LockedMoney == WithdrawSpec => []LockedIsPending
<1>1. WithdrawInv => LockedIsPending
  BY DEF WithdrawInv
<1> QED BY <1>1, WithdrawInvariant, PTL

(* user_credits and transactions agree about every user's money.           *)
THEOREM LedgerOfPayouts == WithdrawSpec => []LedgerReconciles
<1>1. WithdrawInv => LedgerReconciles
  BY DEF WithdrawInv
<1> QED BY <1>1, WithdrawInvariant, PTL

(* Every request has one transaction, in the matching state.               *)
THEOREM RequestAndTransaction == WithdrawSpec => []WithdrawsMatchTransactions
<1>1. WithdrawInv => WithdrawsMatchTransactions
  BY DEF WithdrawInv
<1> QED BY <1>1, WithdrawInvariant, PTL

(* reviewWithdraw never throws for lack of locked or spendable credit.     *)
THEOREM ReviewsSucceed == WithdrawSpec => []ReviewNeverStuck
<1>1. WithdrawInv => ReviewNeverStuck
  BY PendingIsLocked DEF WithdrawInv, ReviewNeverStuck
<1> QED BY <1>1, WithdrawInvariant, PTL

(* createWithdraw and reviewWithdraw implement PayoutPromise: a request    *)
(* takes its amount out of what the user can spend, and that money leaves  *)
(* the shop once or comes back once.                                       *)
THEOREM PayoutsKeepPromise == WithdrawSpec => Promise!PromiseSpec
<1>1. WithdrawInit => Promise!PromiseInit
  BY PromiseInitially
<1>2. ASSUME WithdrawInv, [WithdrawNext]_withdrawVars
      PROVE  [Promise!PromiseNext \/ Promise!EarnOrSpend]_Promise!promiseVars
  <2>1. CASE WithdrawNext
    BY <1>2, <2>1, PayoutKeepsPromise
  <2>2. CASE UNCHANGED withdrawVars
    <3>1. wallets' \in [Users -> Wallet] /\ withdraws' = withdraws
      BY <1>2, <2>2 DEF withdrawVars, WithdrawInv, WithdrawTypeOK
    <3> QED BY <3>1, OtherBusiness
  <2> QED BY <1>2, <2>1, <2>2
<1> QED BY <1>1, <1>2, WithdrawInvariant, PTL DEF WithdrawSpec, Promise!PromiseSpec

-----------------------------------------------------------------------------
(* A row of transactions that names deposit d.                             *)
RowOfDeposit(d, t) ==
  /\ t.user = deposits[d].user
  /\ t.amount = deposits[d].amount
  /\ \/ t.sourceType = "DEPOSIT" /\ t.type = "credit"
     \/ t.sourceType = "ORDER_PAYMENT" /\ t.type = "debit" /\ t.state = "executed"
  /\ t.state = "executed" => sessions[d] = "verified"

DepositRowsAgree ==
  \A t \in DOMAIN transactions :
    transactions[t].source[1] = "deposits" =>
      /\ transactions[t].source[2] \in DOMAIN deposits
      /\ RowOfDeposit(transactions[t].source[2], transactions[t])

(* What a handler carries about a deposit stays true until it is used.     *)
CallsOfDeposits ==
  \A h \in Handlers :
    calls[h].op \in {"cancel", "verify", "settle"} =>
      /\ calls[h].deposit \in DOMAIN deposits
      /\ calls[h].op = "settle" => sessions[calls[h].deposit] = "verified"

PaymentInv ==
  /\ PaymentTypeOK
  /\ WithdrawInv
  /\ DepositRowsAgree
  /\ CallsOfDeposits
  /\ GatewayMoneyInThenOut

-----------------------------------------------------------------------------
(* Every change a handler makes to transactions concerns the rows of one   *)
(* source: it adds rows of that source and changes states of such rows.    *)
OnlyRowsOf(source, old, new) ==
  /\ DOMAIN old \subseteq DOMAIN new
  /\ \A t \in DOMAIN old :
       /\ new[t].source = old[t].source
       /\ old[t].source # source => new[t] = old[t]
  /\ \A t \in DOMAIN new \ DOMAIN old : new[t].source = source

LEMMA NoRows ==
  ASSUME NEW rows, NEW source
  PROVE  OnlyRowsOf(source, rows, rows)
BY DEF OnlyRowsOf

LEMMA RowsThenRows ==
  ASSUME NEW a, NEW b, NEW c, NEW source,
         OnlyRowsOf(source, a, b), OnlyRowsOf(source, b, c)
  PROVE  OnlyRowsOf(source, a, c)
BY DEF OnlyRowsOf

LEMMA InsertedRow ==
  ASSUME NEW rows \in Seq(Transaction), NEW t \in Transaction
  PROVE  /\ OnlyRowsOf(t.source, rows, Append(rows, t))
         /\ DOMAIN rows = 1..Len(rows) /\ Len(rows) \in Nat
         /\ DOMAIN Append(rows, t) = DOMAIN rows \cup {Len(rows) + 1}
         /\ Len(rows) + 1 \notin DOMAIN rows
         /\ Append(rows, t)[Len(rows) + 1] = t
         /\ \A i \in DOMAIN rows : Append(rows, t)[i] = rows[i]
<1>1. /\ DOMAIN rows = 1..Len(rows) /\ Len(rows) \in Nat
      /\ DOMAIN Append(rows, t) = DOMAIN rows \cup {Len(rows) + 1}
      /\ Len(rows) + 1 \notin DOMAIN rows
      /\ Append(rows, t)[Len(rows) + 1] = t
      /\ \A i \in DOMAIN rows : Append(rows, t)[i] = rows[i]
  OBVIOUS
<1> QED BY <1>1, Zenon DEF OnlyRowsOf

LEMMA UpdatedRows ==
  ASSUME NEW rows \in Seq(Transaction), NEW source, NEW ids,
         \A i \in ids : i \in DOMAIN rows => rows[i].source = source,
         NEW state \in {"pending", "executed", "rejected"}
  PROVE  /\ OnlyRowsOf(source, rows, UpdateTransactions(rows, ids, state))
         /\ DOMAIN UpdateTransactions(rows, ids, state) = DOMAIN rows
         /\ \A i \in DOMAIN rows \ ids : UpdateTransactions(rows, ids, state)[i] = rows[i]
         /\ \A i \in DOMAIN rows \cap ids :
              UpdateTransactions(rows, ids, state)[i] = [rows[i] EXCEPT !.state = state]
<1>1. \A i \in DOMAIN rows : [rows[i] EXCEPT !.state = state].source = rows[i].source
  <2>1. \A i \in DOMAIN rows : rows[i] \in Transaction
    OBVIOUS
  <2> QED BY <2>1 DEF Transaction
<1> QED BY <1>1 DEF OnlyRowsOf, UpdateTransactions

(* The facts about requests survive every change to rows of other sources. *)
LEMMA RequestsUndisturbed ==
  ASSUME WithdrawInv, NEW source, source[1] # "withdraws",
         OnlyRowsOf(source, transactions, transactions'),
         withdraws' = withdraws
  PROVE  WithdrawsMatchTransactions' /\ SourcesExist'
<1>1. ASSUME NEW w, NEW t \in DOMAIN transactions'
      PROVE  transactions'[t].source = OfWithdraw(w) =>
               /\ t \in DOMAIN transactions
               /\ transactions'[t] = transactions[t]
  BY DEF OnlyRowsOf, OfWithdraw
<1>2. ASSUME NEW w, NEW t \in DOMAIN transactions, transactions[t].source = OfWithdraw(w)
      PROVE  t \in DOMAIN transactions' /\ transactions'[t] = transactions[t]
  BY <1>2 DEF OnlyRowsOf, OfWithdraw
<1>3. WithdrawsMatchTransactions'
  <2> SUFFICES ASSUME NEW w \in DOMAIN withdraws
               PROVE  \E t \in DOMAIN transactions' :
                        /\ transactions'[t].user = withdraws[w].user
                        /\ transactions'[t].amount = withdraws[w].amount
                        /\ transactions'[t].type = "debit"
                        /\ transactions'[t].state = TransactionState[withdraws[w].status]
                        /\ \A s \in DOMAIN transactions' :
                             transactions'[s].source = OfWithdraw(w) <=> s = t
    BY DEF WithdrawsMatchTransactions, OfWithdraw, TransactionState
  <2>1. PICK t \in DOMAIN transactions :
          /\ transactions[t].user = withdraws[w].user
          /\ transactions[t].amount = withdraws[w].amount
          /\ transactions[t].type = "debit"
          /\ transactions[t].state = TransactionState[withdraws[w].status]
          /\ \A s \in DOMAIN transactions :
               transactions[s].source = OfWithdraw(w) <=> s = t
    BY Zenon DEF WithdrawInv, WithdrawsMatchTransactions
  <2>2. t \in DOMAIN transactions' /\ transactions'[t] = transactions[t]
    BY <1>2, <2>1
  <2>3. \A s \in DOMAIN transactions' : transactions'[s].source = OfWithdraw(w) <=> s = t
    BY <1>1, <2>1, <2>2
  <2> QED BY <2>1, <2>2, <2>3
<1>4. SourcesExist'
  BY DEF WithdrawInv, SourcesExist, OnlyRowsOf
<1> QED BY <1>3, <1>4

(* The columns of deposits nobody writes after the insert, and what a      *)
(* gateway has verified.                                                   *)
DepositsKept ==
  /\ DOMAIN deposits' = DOMAIN deposits
  /\ \A d \in DOMAIN deposits :
       /\ deposits'[d].user = deposits[d].user
       /\ deposits'[d].amount = deposits[d].amount
       /\ deposits'[d].order = deposits[d].order
       /\ sessions[d] = "verified" => sessions'[d] = "verified"

(* What belongs to a deposit survives every change to rows of others.      *)
LEMMA CreditsUndisturbed ==
  ASSUME NEW d, NEW source, source # OfDeposit(d),
         OnlyRowsOf(source, transactions, transactions')
  PROVE  CreditsOf(d)' = CreditsOf(d) /\ ChargesOf(d)' = ChargesOf(d)
<1>1. \A t \in DOMAIN transactions' :
        transactions'[t].source = OfDeposit(d) =>
          t \in DOMAIN transactions /\ transactions'[t] = transactions[t]
  BY DEF OnlyRowsOf
<1>2. \A t \in DOMAIN transactions :
        transactions[t].source = OfDeposit(d) =>
          t \in DOMAIN transactions' /\ transactions'[t] = transactions[t]
  BY DEF OnlyRowsOf
<1> QED BY <1>1, <1>2 DEF CreditsOf, ChargesOf, ExecutedRows, OfDeposit

LEMMA DepositsUndisturbed ==
  ASSUME PaymentInv, NEW source, source[1] # "deposits",
         OnlyRowsOf(source, transactions, transactions'),
         DepositsKept
  PROVE  DepositRowsAgree' /\ GatewayMoneyInThenOut'
<1>1. DepositRowsAgree'
  BY DEF PaymentInv, DepositRowsAgree, RowOfDeposit, OnlyRowsOf, DepositsKept
<1>2. \A d : source # OfDeposit(d)
  BY DEF OfDeposit
<1>3. \A d : CreditsOf(d)' = CreditsOf(d) /\ ChargesOf(d)' = ChargesOf(d)
  BY <1>2, CreditsUndisturbed
<1>4. GatewayMoneyInThenOut'
  BY <1>3, Zenon DEF PaymentInv, GatewayMoneyInThenOut, DepositsKept
<1> QED BY <1>1, <1>4

-----------------------------------------------------------------------------
(* The parts of PaymentInv, each under what the handlers do to it.         *)
LEMMA LedgerKept ==
  ASSUME PaymentInv, UNCHANGED <<wallets, transactions, withdraws>>, DepositsKept
  PROVE  WithdrawInv' /\ DepositRowsAgree' /\ GatewayMoneyInThenOut'
<1>1. WithdrawInv'
  BY StutterPreserves DEF PaymentInv, withdrawVars
<1>2. OnlyRowsOf(NoSource, transactions, transactions') /\ NoSource[1] # "deposits"
  BY NoRows DEF NoSource
<1> QED BY <1>1, <1>2, DepositsUndisturbed

LEMMA CallsKept ==
  ASSUME PaymentInv, NEW h \in Handlers, NEW call \in Call,
         calls' = [calls EXCEPT ![h] = call],
         DOMAIN deposits \subseteq DOMAIN deposits',
         \A d \in DOMAIN deposits : sessions[d] = "verified" => sessions'[d] = "verified",
         call.op \in {"cancel", "verify", "settle"} =>
           /\ call.deposit \in DOMAIN deposits'
           /\ call.op = "settle" => sessions'[call.deposit] = "verified"
  PROVE  calls' \in [Handlers -> Call] /\ CallsOfDeposits'
<1>1. calls \in [Handlers -> Call]
  BY DEF PaymentInv, PaymentTypeOK
<1>2. /\ calls' \in [Handlers -> Call]
      /\ calls'[h] = call
      /\ \A g \in Handlers : g # h => calls'[g] = calls[g]
  BY <1>1
<1>3. CallsOfDeposits'
  BY <1>2 DEF PaymentInv, CallsOfDeposits
<1> QED BY <1>2, <1>3

LEMMA Replied ==
  ASSUME PaymentInv, NEW h \in Handlers, Reply(h),
         DOMAIN deposits \subseteq DOMAIN deposits',
         \A d \in DOMAIN deposits : sessions[d] = "verified" => sessions'[d] = "verified"
  PROVE  calls' \in [Handlers -> Call] /\ CallsOfDeposits'
<1>1. Idle \in Call /\ Idle.op = "idle" /\ calls' = [calls EXCEPT ![h] = Idle]
  BY DEF Reply, Call, Idle
<1> QED BY <1>1, CallsKept

LEMMA SameCalls ==
  ASSUME PaymentInv, calls' = calls,
         DOMAIN deposits \subseteq DOMAIN deposits',
         \A d \in DOMAIN deposits : sessions[d] = "verified" => sessions'[d] = "verified"
  PROVE  calls' \in [Handlers -> Call] /\ CallsOfDeposits'
BY DEF PaymentInv, PaymentTypeOK, CallsOfDeposits

(* A handler takes a call up: nothing but what it carries changes.         *)
LEMMA AcceptPreserves ==
  ASSUME PaymentInv, NEW h \in Handlers, NEW call \in Call, Accept(h, call),
         call.op \in {"cancel", "verify"} => call.deposit \in DOMAIN deposits,
         call.op # "settle",
         UNCHANGED <<wallets, transactions, withdraws, orders, deposits, sessions,
                     overwritten>>
  PROVE  PaymentInv'
<1>1. DepositsKept
  BY DEF DepositsKept
<1>2. calls' \in [Handlers -> Call] /\ CallsOfDeposits'
  BY CallsKept DEF Accept
<1>3. PaymentTypeOK'
  BY <1>2 DEF PaymentInv, PaymentTypeOK, WithdrawTypeOK
<1> QED BY <1>1, <1>2, <1>3, LedgerKept DEF PaymentInv

LEMMA ReadPreserves ==
  ASSUME PaymentInv, NEW h \in Handlers, NEW o \in Orders,
         \/ \E g \in Gateways : ReadForGateway(h, o, g)
         \/ ReadForCredit(h, o)
         \/ LoadForEdit(h, o)
  PROVE  PaymentInv'
<1>1. orders[o] \in Order /\ orders[o].amount \in Amounts
  BY DEF PaymentInv, PaymentTypeOK, Order
<1>2. ASSUME NEW g \in Gateways, ReadForGateway(h, o, g) PROVE PaymentInv'
  <2> DEFINE call == [op |-> "gateway", order |-> o, gateway |-> g, amount |-> orders[o].amount]
  <2>1. call \in Call /\ call.op = "gateway" /\ Accept(h, call)
    BY <1>1, <1>2 DEF Call, ReadForGateway
  <2> HIDE DEF call
  <2> QED BY <1>2, <2>1, AcceptPreserves DEF ReadForGateway
<1>3. CASE ReadForCredit(h, o)
  <2> DEFINE call == [op |-> "credit", order |-> o, amount |-> orders[o].amount]
  <2>1. call \in Call /\ call.op = "credit" /\ Accept(h, call)
    BY <1>1, <1>3 DEF Call, ReadForCredit
  <2> HIDE DEF call
  <2> QED BY <1>3, <2>1, AcceptPreserves DEF ReadForCredit
<1>4. CASE LoadForEdit(h, o)
  <2> DEFINE call == [op |-> "edit", order |-> o, loaded |-> orders[o]]
  <2>1. call \in Call /\ call.op = "edit" /\ Accept(h, call)
    BY <1>1, <1>4 DEF Call, LoadForEdit
  <2> HIDE DEF call
  <2> QED BY <1>4, <2>1, AcceptPreserves DEF LoadForEdit
<1> QED BY <1>2, <1>3, <1>4

LEMMA CallbackPreserves ==
  ASSUME PaymentInv, NEW h \in Handlers, NEW d \in DOMAIN deposits, Callback(h, d)
  PROVE  PaymentInv'
<1>1. d \in 1..MaxDeposits
  BY PaymentAssumption DEF PaymentInv, PaymentTypeOK
<1>2. ASSUME NEW op \in {"cancel", "verify"}, Accept(h, [op |-> op, deposit |-> d])
      PROVE  PaymentInv'
  <2> DEFINE call == [op |-> op, deposit |-> d]
  <2>1. call \in Call /\ call.op = op /\ call.deposit = d
    BY <1>1 DEF Call
  <2> HIDE DEF call
  <2>2. Accept(h, call)
    BY <1>2 DEF call
  <2> QED BY <2>1, <2>2, AcceptPreserves DEF Callback
<1> QED BY <1>2 DEF Callback

LEMMA AbortPreserves ==
  ASSUME PaymentInv, NEW h \in Handlers, Abort(h)
  PROVE  PaymentInv'
<1>1. DepositsKept
  BY DEF Abort, DepositsKept
<1>2. calls' \in [Handlers -> Call] /\ CallsOfDeposits'
  BY Replied DEF Abort
<1>3. PaymentTypeOK'
  BY <1>2 DEF Abort, PaymentInv, PaymentTypeOK, WithdrawTypeOK
<1> QED BY <1>1, <1>2, <1>3, LedgerKept DEF PaymentInv, Abort

(* The transaction of a failed callback changes two statuses.              *)
LEMMA CancelPreserves ==
  ASSUME PaymentInv, NEW h \in Handlers, CancelDeposit(h)
  PROVE  PaymentInv'
<1> DEFINE d == calls[h].deposit
<1>1. d \in DOMAIN deposits
  BY DEF CancelDeposit, In, PaymentInv, CallsOfDeposits
<1>2. deposits \in Seq(Deposit) /\ orders \in [Orders -> Order]
  BY DEF PaymentInv, PaymentTypeOK
<1>3. /\ deposits' = [deposits EXCEPT ![d].status = "failed"]
      /\ sessions' = sessions
      /\ UNCHANGED <<wallets, transactions, withdraws>>
  BY DEF CancelDeposit
<1> HIDE DEF d
<1>4. deposits[d] \in Deposit /\ [deposits[d] EXCEPT !.status = "failed"] \in Deposit
  <2>1. deposits[d] \in Deposit
    BY <1>1, <1>2
  <2> QED BY <2>1 DEF Deposit
<1>5. deposits' \in Seq(Deposit) /\ Len(deposits') = Len(deposits)
  BY <1>1, <1>2, <1>3, <1>4
<1>6. DepositsKept
  BY <1>1, <1>2, <1>3, <1>4 DEF DepositsKept, Deposit
<1>7. calls' \in [Handlers -> Call] /\ CallsOfDeposits'
  BY <1>6, Replied DEF CancelDeposit, DepositsKept
<1>8. orders' \in [Orders -> Order]
  BY <1>2 DEF CancelDeposit, Order
<1>9. overwritten' \in [1..MaxDeposits -> Nat]
  BY DEF CancelDeposit, PaymentInv, PaymentTypeOK
<1>10. PaymentTypeOK'
  BY <1>3, <1>5, <1>7, <1>8, <1>9 DEF PaymentInv, PaymentTypeOK, WithdrawTypeOK
<1> QED BY <1>3, <1>6, <1>7, <1>10, LedgerKept DEF PaymentInv

LEMMA VerifyPreserves ==
  ASSUME PaymentInv, NEW h \in Handlers, VerifyAtGateway(h)
  PROVE  PaymentInv'
<1> DEFINE d == calls[h].deposit
           call == [op |-> "settle", deposit |-> d]
<1>1. d \in DOMAIN deposits
  BY DEF VerifyAtGateway, In, PaymentInv, CallsOfDeposits
<1>2. /\ sessions \in Seq(Session) /\ deposits \in Seq(Deposit)
      /\ Len(sessions) = Len(deposits) /\ Len(deposits) <= MaxDeposits
  BY DEF PaymentInv, PaymentTypeOK
<1>3. /\ sessions[d] \in {"paid", "verified"}
      /\ sessions' = [sessions EXCEPT ![d] =
                        IF sessions[d] = "paid" THEN "verified" ELSE sessions[d]]
      /\ calls' = [calls EXCEPT ![h] = call]
      /\ UNCHANGED <<wallets, transactions, withdraws, orders, deposits, overwritten>>
  BY DEF VerifyAtGateway, Accepted
<1>4. d \in DOMAIN sessions /\ d \in 1..MaxDeposits
  BY <1>1, <1>2, PaymentAssumption
<1>5. call \in Call /\ call.op = "settle" /\ call.deposit = d
  BY <1>4 DEF Call
<1> HIDE DEF d, call
<1>6. sessions' \in Seq(Session) /\ Len(sessions') = Len(sessions) /\ sessions'[d] = "verified"
  BY <1>2, <1>3, <1>4 DEF Session
<1>7. DepositsKept
  BY <1>1, <1>2, <1>3, <1>4, <1>6 DEF DepositsKept
<1>8. calls' \in [Handlers -> Call] /\ CallsOfDeposits'
  BY <1>1, <1>3, <1>5, <1>6, <1>7, CallsKept DEF DepositsKept
<1>9. PaymentTypeOK'
  BY <1>3, <1>6, <1>8 DEF PaymentInv, PaymentTypeOK, WithdrawTypeOK
<1> QED BY <1>3, <1>7, <1>8, <1>9, LedgerKept DEF PaymentInv

LEMMA EditPreserves ==
  ASSUME PaymentInv, NEW h \in Handlers, SaveEdit(h)
  PROVE  PaymentInv'
<1> DEFINE old == calls[h].loaded
<1>1. calls[h] \in Call /\ calls[h].op = "edit" /\ orders \in [Orders -> Order]
  BY DEF SaveEdit, In, PaymentInv, PaymentTypeOK
<1>2. old \in Order /\ calls[h].order \in Orders
  BY <1>1 DEF Call, Idle
<1> HIDE DEF old
<1>3. /\ \A s \in {"pending", "paid", "failed", "cancelled"} : [old EXCEPT !.status = s] \in Order
      /\ \A a \in OrderAmounts : [old EXCEPT !.amount = a] \in Order
  BY <1>2, PaymentAssumption DEF Order
<1>4. orders' \in [Orders -> Order]
  BY <1>1, <1>3 DEF SaveEdit, old
<1>5. DepositsKept
  BY DEF SaveEdit, DepositsKept
<1>6. calls' \in [Handlers -> Call] /\ CallsOfDeposits'
  BY Replied DEF SaveEdit
<1>7. PaymentTypeOK'
  BY <1>4, <1>6 DEF SaveEdit, PaymentInv, PaymentTypeOK, WithdrawTypeOK
<1> QED BY <1>5, <1>6, <1>7, LedgerKept DEF PaymentInv, SaveEdit

LEMMA CustomerPreserves ==
  ASSUME PaymentInv, NEW d \in DOMAIN deposits, NEW outcome \in {"paid", "cancelled"},
         CustomerEnds(d, outcome)
  PROVE  PaymentInv'
<1>1. /\ sessions \in Seq(Session) /\ deposits \in Seq(Deposit)
      /\ Len(sessions) = Len(deposits)
  BY DEF PaymentInv, PaymentTypeOK
<1>2. d \in DOMAIN sessions
  BY <1>1
<1>3. sessions' \in Seq(Session) /\ Len(sessions') = Len(sessions)
  BY <1>1, <1>2 DEF CustomerEnds, Session
<1>4. DepositsKept
  BY <1>1, <1>2 DEF CustomerEnds, DepositsKept
<1>5. calls' \in [Handlers -> Call] /\ CallsOfDeposits'
  BY <1>4, SameCalls DEF CustomerEnds, DepositsKept
<1>6. PaymentTypeOK'
  BY <1>3, <1>5 DEF CustomerEnds, PaymentInv, PaymentTypeOK, WithdrawTypeOK
<1> QED BY <1>4, <1>5, <1>6, LedgerKept DEF PaymentInv, CustomerEnds

-----------------------------------------------------------------------------
(* A handler moves money: what a wallet gains is what the executed rows of *)
(* its user gain, and locked money stays locked.                           *)
MoneyFollowsRows ==
  \A u \in Users :
    /\ wallets'[u].lockedAmount = wallets[u].lockedAmount
    /\ wallets'[u].amount - wallets[u].amount = NetExecuted(u)' - NetExecuted(u)

LEMMA MoneyMoved ==
  ASSUME WithdrawInv, NEW source, source[1] # "withdraws",
         OnlyRowsOf(source, transactions, transactions'),
         transactions' \in Seq(Transaction),
         withdraws' = withdraws,
         wallets' \in [Users -> Wallet],
         MoneyFollowsRows
  PROVE  WithdrawInv'
<1>1. WithdrawTypeOK'
  BY DEF WithdrawInv, WithdrawTypeOK
<1>2. WithdrawsMatchTransactions' /\ SourcesExist'
  BY RequestsUndisturbed
<1>3. LockedIsPending'
  BY DEF WithdrawInv, LockedIsPending, PendingAmount, MoneyFollowsRows
<1>4. LedgerReconciles'
  <2> SUFFICES ASSUME NEW u \in Users
               PROVE  wallets'[u].amount + wallets'[u].lockedAmount
                        = Opening[u] + NetExecuted(u)'
    BY DEF LedgerReconciles
  <2>1. NetExecuted(u) \in Int /\ NetExecuted(u)' \in Int
    <3>1. NetExecuted(u) \in Int
      BY NetType DEF WithdrawInv
    <3>2. \A i \in 1..Len(transactions') : ExecutedFlow(u, transactions')[i] \in Int
      <4>1. \A i \in 1..Len(transactions') : transactions'[i] \in Transaction
        OBVIOUS
      <4>2. DOMAIN transactions' = 1..Len(transactions')
        OBVIOUS
      <4> QED BY <4>1, <4>2, FlowType DEF ExecutedFlow
    <3>3. Len(transactions') \in Nat
      OBVIOUS
    <3> QED BY <3>1, <3>2, <3>3, SumType DEF NetExecuted
  <2>2. wallets[u].amount + wallets[u].lockedAmount = Opening[u] + NetExecuted(u)
    BY DEF WithdrawInv, LedgerReconciles
  <2>3. /\ wallets[u].amount \in Nat /\ wallets[u].lockedAmount \in Nat
        /\ wallets'[u].amount \in Nat
    BY DEF WithdrawInv, WithdrawTypeOK, Wallet
  <2>4. Opening[u] \in Nat
    BY LedgerAssumption
  <2>5. /\ wallets'[u].lockedAmount = wallets[u].lockedAmount
        /\ wallets'[u].amount - wallets[u].amount = NetExecuted(u)' - NetExecuted(u)
    BY DEF MoneyFollowsRows
  <2>6. wallets'[u].amount = wallets[u].amount + (NetExecuted(u)' - NetExecuted(u))
    BY <2>1, <2>3, <2>5
  <2>7. wallets'[u].amount + wallets[u].lockedAmount
          = (wallets[u].amount + wallets[u].lockedAmount) + (NetExecuted(u)' - NetExecuted(u))
    BY <2>1, <2>3, <2>6
  <2>8. wallets'[u].amount + wallets[u].lockedAmount
          = (Opening[u] + NetExecuted(u)) + (NetExecuted(u)' - NetExecuted(u))
    BY <2>2, <2>7
  <2>9. (Opening[u] + NetExecuted(u)) + (NetExecuted(u)' - NetExecuted(u))
          = Opening[u] + NetExecuted(u)'
    BY <2>1, <2>4
  <2> QED BY <2>5, <2>8, <2>9
<1> QED BY <1>1, <1>2, <1>3, <1>4 DEF WithdrawInv

LEMMA RowsFinite ==
  ASSUME transactions \in Seq(Transaction), NEW d
  PROVE  IsFiniteSet(CreditsOf(d)) /\ IsFiniteSet(ChargesOf(d))
<1>1. IsFiniteSet(DOMAIN transactions)
  <2>1. 1 \in Int /\ Len(transactions) \in Int /\ DOMAIN transactions = 1..Len(transactions)
    OBVIOUS
  <2> QED BY <2>1, FS_Interval, Zenon
<1>2. CreditsOf(d) \subseteq DOMAIN transactions /\ ChargesOf(d) \subseteq DOMAIN transactions
  BY DEF CreditsOf, ChargesOf, ExecutedRows
<1> QED BY <1>1, <1>2, FS_Subset, Zenon

(* Paying from the wallet: the debit names no deposit and no request.      *)
LEMMA PayPreserves ==
  ASSUME PaymentInv, NEW h \in Handlers, PayWithCredit(h)
  PROVE  PaymentInv'
<1> DEFINE o == calls[h].order
           a == calls[h].amount
           u == OrderOwner[o]
           row == OrderPaymentRow(u, a, NoSource, o)
<1>1. /\ WithdrawInv /\ calls[h] \in Call /\ calls[h].op = "credit"
      /\ orders \in [Orders -> Order]
      /\ wallets \in [Users -> Wallet] /\ transactions \in Seq(Transaction)
  BY DEF PayWithCredit, In, PaymentInv, PaymentTypeOK, WithdrawTypeOK
<1>2. o \in Orders /\ a \in Amounts /\ u \in Users
  <2>1. o \in Orders /\ a \in Amounts
    BY <1>1 DEF Call, Idle
  <2> QED BY <2>1, PaymentAssumption
<1>3. DepositsKept /\ calls' \in [Handlers -> Call] /\ CallsOfDeposits'
  BY Replied DEF PayWithCredit, DepositsKept
<1>4. CASE UNCHANGED <<wallets, transactions, orders>>
  <2>1. PaymentTypeOK'
    BY <1>3, <1>4 DEF PayWithCredit, PaymentInv, PaymentTypeOK, WithdrawTypeOK
  <2> QED BY <1>3, <1>4, <2>1, LedgerKept DEF PayWithCredit, PaymentInv
<1>5. CASE ~ UNCHANGED <<wallets, transactions, orders>>
  <2>1. /\ wallets[u].amount >= a
        /\ wallets' = [wallets EXCEPT ![u] = Decrement(wallets[u], a)]
        /\ transactions' = Append(transactions, row)
        /\ orders' = [orders EXCEPT ![o].status = "paid"]
        /\ UNCHANGED <<withdraws, deposits, sessions, overwritten>>
    BY <1>5 DEF PayWithCredit, CanSpend
  <2>2. row \in Transaction
    BY <1>2 DEF Transaction, OrderPaymentRow, Row, Sources, NoSource
  <2>3. row.source = NoSource /\ row.user = u /\ row.amount = a
        /\ row.type = "debit" /\ row.state = "executed"
    BY DEF OrderPaymentRow, Row
  <2>4. NoSource[1] = "null"
    BY DEF NoSource
  <2> HIDE DEF row, o, a, u
  <2>5. /\ wallets[u].amount \in Nat /\ wallets[u].lockedAmount \in Nat
        /\ a \in Nat
        /\ wallets'[u] = [amount |-> wallets[u].amount - a,
                          lockedAmount |-> wallets[u].lockedAmount]
        /\ \A v \in Users : v # u => wallets'[v] = wallets[v]
    BY <1>1, <1>2, <2>1, WalletOperations
  <2>6. wallets' \in [Users -> Wallet]
    <3>1. wallets'[u] \in Wallet
      BY <1>2, <2>1, <2>5 DEF Wallet
    <3> QED BY <1>1, <1>2, <2>1, <3>1
  <2>7. /\ OnlyRowsOf(NoSource, transactions, transactions')
        /\ transactions' \in Seq(Transaction)
    BY <1>1, <2>1, <2>2, <2>3, InsertedRow, RowType
  <2>8. ASSUME NEW v \in Users
        PROVE  NetExecuted(v)' = NetExecuted(v) + (IF v = u THEN 0 - a ELSE 0)
    <3>1. NetExecuted(v)' = NetExecuted(v) + Flow(v, row)
      BY <1>1, <2>1, <2>2, NetOfInsert, Zenon DEF NetExecuted
    <3>2. Flow(v, row) = IF v = u THEN 0 - a ELSE 0
      BY <2>3 DEF Flow
    <3> QED BY <3>1, <3>2
  <2>9. MoneyFollowsRows
    <3> SUFFICES ASSUME NEW v \in Users
                 PROVE  /\ wallets'[v].lockedAmount = wallets[v].lockedAmount
                        /\ wallets'[v].amount - wallets[v].amount
                             = NetExecuted(v)' - NetExecuted(v)
      BY DEF MoneyFollowsRows
    <3>1. NetExecuted(v) \in Int /\ wallets[v].amount \in Nat
      BY <1>1, NetType DEF WithdrawInv, Wallet
    <3> QED BY <2>5, <2>8, <3>1
  <2>10. WithdrawInv'
    BY <1>1, <2>1, <2>4, <2>6, <2>7, <2>9, MoneyMoved
  <2>11. DepositRowsAgree' /\ GatewayMoneyInThenOut'
    BY <1>3, <2>4, <2>7, DepositsUndisturbed
  <2>12. orders' \in [Orders -> Order]
    <3>1. [orders[o] EXCEPT !.status = "paid"] \in Order
      <4>1. orders[o] \in Order
        BY <1>1, <1>2
      <4> QED BY <4>1 DEF Order
    <3> QED BY <1>1, <1>2, <2>1, <3>1
  <2>13. PaymentTypeOK'
    BY <1>3, <2>1, <2>10, <2>12 DEF PaymentInv, PaymentTypeOK, WithdrawInv
  <2> QED BY <1>3, <2>10, <2>11, <2>13 DEF PaymentInv
<1> QED BY <1>4, <1>5

-----------------------------------------------------------------------------
(* A new deposit comes with its pending row: no row names it before.       *)
LEMMA NewDepositPreserves ==
  ASSUME PaymentInv, NEW u \in Users, NEW o \in Orders \cup {NoOrder},
         NEW g \in Gateways, NEW a \in Amounts, NewDeposit(u, o, g, a),
         calls' \in [Handlers -> Call], CallsOfDeposits'
  PROVE  PaymentInv'
<1> DEFINE d == Len(deposits) + 1
           deposit == [user |-> u, order |-> o, gateway |-> g,
                       amount |-> a, status |-> "pending"]
           row == Row(u, a, "credit", "DEPOSIT", OfDeposit(d), o, "pending")
<1>1. /\ WithdrawInv /\ wallets \in [Users -> Wallet] /\ transactions \in Seq(Transaction)
      /\ deposits \in Seq(Deposit) /\ sessions \in Seq(Session)
      /\ Len(sessions) = Len(deposits)
  BY DEF PaymentInv, PaymentTypeOK, WithdrawTypeOK
<1>2. /\ Len(deposits) < MaxDeposits
      /\ deposits' = Append(deposits, deposit)
      /\ sessions' = Append(sessions, "open")
      /\ transactions' = Append(transactions, row)
      /\ UNCHANGED <<wallets, withdraws, orders, overwritten>>
  BY DEF NewDeposit
<1>3. d \in Nat /\ DOMAIN deposits = 1..Len(deposits) /\ Len(deposits) \in Nat
  BY <1>1
<1>4. deposit \in Deposit /\ "open" \in Session
  BY DEF Deposit, Session
<1>5. row \in Transaction
  BY <1>3 DEF Transaction, Row, Sources, OfDeposit
<1>6. /\ row.source = OfDeposit(d) /\ row.user = u /\ row.amount = a
      /\ row.type = "credit" /\ row.sourceType = "DEPOSIT" /\ row.state = "pending"
  BY DEF Row
<1>7. OfDeposit(d)[1] = "deposits" /\ OfDeposit(d)[2] = d
  BY DEF OfDeposit
<1>8. /\ deposit.user = u /\ deposit.amount = a /\ deposit.order = o
  OBVIOUS
<1> HIDE DEF row, deposit
<1>9. /\ deposits' \in Seq(Deposit) /\ sessions' \in Seq(Session)
      /\ Len(sessions') = Len(deposits') /\ Len(deposits') <= MaxDeposits
      /\ DOMAIN deposits' = DOMAIN deposits \cup {d} /\ d \notin DOMAIN deposits
      /\ deposits'[d] = deposit
      /\ \A e \in DOMAIN deposits : deposits'[e] = deposits[e] /\ sessions'[e] = sessions[e]
  BY <1>1, <1>2, <1>4, PaymentAssumption
<1> HIDE DEF d
<1>10. /\ OnlyRowsOf(OfDeposit(d), transactions, transactions')
       /\ transactions' \in Seq(Transaction)
       /\ \A t \in DOMAIN transactions' :
            \/ transactions'[t] = row
            \/ t \in DOMAIN transactions /\ transactions'[t] = transactions[t]
  BY <1>1, <1>2, <1>5, <1>6, InsertedRow, RowType
<1>11. ASSUME NEW v \in Users PROVE NetExecuted(v)' = NetExecuted(v)
  <2>1. NetExecuted(v)' = NetExecuted(v) + Flow(v, row)
    BY <1>1, <1>2, <1>5, NetOfInsert, Zenon DEF NetExecuted
  <2>2. Flow(v, row) = 0
    BY <1>5, <1>6, FlowType
  <2>3. NetExecuted(v) \in Int
    BY <1>1, NetType DEF WithdrawInv
  <2> QED BY <2>1, <2>2, <2>3
<1>12. WithdrawInv'
  <2>1. \A v \in Users : wallets[v].amount \in Nat /\ NetExecuted(v) \in Int
    BY <1>1, NetType DEF WithdrawInv, Wallet
  <2>2. MoneyFollowsRows
    BY <1>2, <1>11, <2>1 DEF MoneyFollowsRows
  <2> QED BY <1>1, <1>2, <1>7, <1>10, <2>2, MoneyMoved
<1>13. DepositRowsAgree'
  <2> SUFFICES ASSUME NEW t \in DOMAIN transactions',
                      transactions'[t].source[1] = "deposits"
               PROVE  LET e == transactions'[t].source[2]
                          r == transactions'[t]
                      IN  /\ e \in DOMAIN deposits'
                          /\ r.user = deposits'[e].user
                          /\ r.amount = deposits'[e].amount
                          /\ \/ r.sourceType = "DEPOSIT" /\ r.type = "credit"
                             \/ /\ r.sourceType = "ORDER_PAYMENT" /\ r.type = "debit"
                                /\ r.state = "executed"
                          /\ r.state = "executed" => sessions'[e] = "verified"
    BY DEF DepositRowsAgree, RowOfDeposit
  <2>1. CASE transactions'[t] = row
    BY <1>6, <1>7, <1>8, <1>9, <2>1
  <2>2. CASE t \in DOMAIN transactions /\ transactions'[t] = transactions[t]
    BY <1>9, <2>2 DEF PaymentInv, DepositRowsAgree, RowOfDeposit
  <2> QED BY <1>10, <2>1, <2>2
<1>14. GatewayMoneyInThenOut'
  <2> SUFFICES ASSUME NEW e \in DOMAIN deposits'
               PROVE  Cardinality(ChargesOf(e)') =
                        IF deposits'[e].order = NoOrder THEN 0 ELSE Cardinality(CreditsOf(e)')
    BY DEF GatewayMoneyInThenOut
  <2>1. CASE e = d
    <3>1. \A t \in DOMAIN transactions' :
            transactions'[t].source = OfDeposit(e) => transactions'[t].state # "executed"
      BY <1>6, <1>7, <1>9, <1>10, <2>1 DEF PaymentInv, DepositRowsAgree
    <3>2. ChargesOf(e)' = {} /\ CreditsOf(e)' = {}
      BY <3>1 DEF ChargesOf, CreditsOf, ExecutedRows, OfDeposit
    <3> QED BY <3>2, FS_EmptySet
  <2>2. CASE e # d
    <3>1. e \in DOMAIN deposits /\ deposits'[e] = deposits[e]
      BY <1>9, <2>2
    <3>2. OfDeposit(d) # OfDeposit(e)
      BY <2>2 DEF OfDeposit
    <3>3. CreditsOf(e)' = CreditsOf(e) /\ ChargesOf(e)' = ChargesOf(e)
      BY <1>10, <3>2, CreditsUndisturbed
    <3> QED BY <3>1, <3>3 DEF PaymentInv, GatewayMoneyInThenOut
  <2> QED BY <2>1, <2>2
<1>15. PaymentTypeOK'
  BY <1>2, <1>9, <1>12 DEF PaymentInv, PaymentTypeOK, WithdrawInv
<1> QED BY <1>12, <1>13, <1>14, <1>15 DEF PaymentInv

LEMMA InsertPreserves ==
  ASSUME PaymentInv, NEW h \in Handlers, InsertGatewayDeposit(h)
  PROVE  PaymentInv'
<1> DEFINE c == calls[h]
<1>1. c \in Call /\ c.op = "gateway"
  BY DEF InsertGatewayDeposit, In, PaymentInv, PaymentTypeOK
<1>2. c.order \in Orders /\ c.gateway \in Gateways /\ c.amount \in Amounts
  BY <1>1 DEF Call, Idle
<1>3. OrderOwner[c.order] \in Users
  BY <1>2, PaymentAssumption
<1> HIDE DEF c
<1>4. Reply(h)
  BY DEF InsertGatewayDeposit
<1>5. CASE UNCHANGED <<wallets, transactions, withdraws, orders, deposits, sessions,
                       overwritten>>
  <2>1. DepositsKept /\ calls' \in [Handlers -> Call] /\ CallsOfDeposits'
    BY <1>4, <1>5, Replied DEF DepositsKept
  <2>2. PaymentTypeOK'
    BY <1>5, <2>1 DEF PaymentInv, PaymentTypeOK, WithdrawTypeOK
  <2> QED BY <1>5, <2>1, <2>2, LedgerKept DEF PaymentInv
<1>6. CASE NewDeposit(OrderOwner[c.order], c.order, c.gateway, c.amount)
  <2>1. calls' \in [Handlers -> Call] /\ CallsOfDeposits'
    BY <1>4, <1>6, Replied DEF NewDeposit, PaymentInv, PaymentTypeOK
  <2> QED BY <1>2, <1>3, <1>6, <2>1, NewDepositPreserves
<1> QED BY <1>5, <1>6 DEF InsertGatewayDeposit, c

LEMMA TopUpPreserves ==
  ASSUME PaymentInv, NEW u \in Users, NEW g \in Gateways, NEW a \in TopUpAmounts,
         RequestTopUp(u, g, a)
  PROVE  PaymentInv'
<1>1. a \in Amounts /\ NewDeposit(u, NoOrder, g, a) /\ calls' = calls
  BY PaymentAssumption DEF RequestTopUp
<1>2. calls' \in [Handlers -> Call] /\ CallsOfDeposits'
  BY <1>1, SameCalls DEF NewDeposit, PaymentInv, PaymentTypeOK
<1> QED BY <1>1, <1>2, NewDepositPreserves

-----------------------------------------------------------------------------
(* What the wallet charge of a settlement does to transactions: one row of *)
(* the deposit, which was not executed before, is executed now.            *)
ExecutedCredit(d, old, new, k) ==
  /\ k \in DOMAIN new
  /\ \A t \in DOMAIN new : t # k => t \in DOMAIN old /\ new[t] = old[t]
  /\ k \in DOMAIN old => old[k].state # "executed"
  /\ new[k].source = OfDeposit(d)
  /\ new[k].user = deposits[d].user
  /\ new[k].amount = deposits[d].amount
  /\ new[k].type = "credit"
  /\ new[k].sourceType = "DEPOSIT"
  /\ new[k].state = "executed"

LEMMA OldestPending ==
  ASSUME NEW rows \in Seq(Transaction), NEW source,
         FindPendingBySource(rows, source) # {}
  PROVE  \E k \in DOMAIN rows :
           /\ FindPendingBySource(rows, source) = {k}
           /\ rows[k].source = source /\ rows[k].state = "pending"
<1>1. PICK k : k \in FindPendingBySource(rows, source)
  OBVIOUS
<1>2. /\ k \in DOMAIN rows /\ rows[k].source = source /\ rows[k].state = "pending"
      /\ \A j \in FindPendingBySource(rows, source) : j <= k /\ k <= j
  BY <1>1 DEF FindPendingBySource, PendingBySource
<1>3. FindPendingBySource(rows, source) \subseteq DOMAIN rows
  BY DEF FindPendingBySource, PendingBySource
<1>4. \A i \in DOMAIN rows : i \in Int
  OBVIOUS
<1>5. \A j \in FindPendingBySource(rows, source) : j = k
  BY <1>2, <1>3, <1>4
<1> QED BY <1>1, <1>2, <1>5

LEMMA DepositCredited ==
  ASSUME PaymentInv, NEW d \in DOMAIN deposits
  PROVE  LET rows == WithDepositExecuted(d)
         IN  /\ rows \in Seq(Transaction)
             /\ OnlyRowsOf(OfDeposit(d), transactions, rows)
             /\ \A u \in Users :
                  SumRows(ExecutedFlow(u, rows), Len(rows))
                    = NetExecuted(u)
                      + (IF u = deposits[d].user THEN deposits[d].amount ELSE 0)
             /\ \E k : ExecutedCredit(d, transactions, rows, k)
<1> DEFINE rows == WithDepositExecuted(d)
           pending == FindPendingBySource(transactions, OfDeposit(d))
           p == deposits[d]
           row == Row(p.user, p.amount, "credit", "DEPOSIT", OfDeposit(d), p.order, "executed")
<1>1. /\ transactions \in Seq(Transaction)
      /\ p \in Deposit
      /\ d \in Nat
  BY DEF PaymentInv, PaymentTypeOK, WithdrawTypeOK
<1>2. /\ p.user \in Users /\ p.amount \in Amounts /\ p.amount \in Nat
      /\ p.order \in Orders \cup {NoOrder}
  BY <1>1 DEF Deposit, Amounts
<1> HIDE DEF p
<1>3. CASE pending # {}
  <2>1. PICK k \in DOMAIN transactions :
          /\ pending = {k}
          /\ transactions[k].source = OfDeposit(d)
          /\ transactions[k].state = "pending"
    BY <1>1, <1>3, OldestPending
  <2>2. rows = UpdateTransactions(transactions, {k}, "executed")
    BY <1>3, <2>1 DEF WithDepositExecuted
  <2>3. /\ transactions[k].user = p.user /\ transactions[k].amount = p.amount
        /\ transactions[k].type = "credit" /\ transactions[k].sourceType = "DEPOSIT"
    <3>1. OfDeposit(d)[1] = "deposits" /\ OfDeposit(d)[2] = d
      BY DEF OfDeposit
    <3> QED BY <2>1, <3>1 DEF PaymentInv, DepositRowsAgree, RowOfDeposit, p
  <2> DEFINE t == [transactions[k] EXCEPT !.state = "executed"]
  <2>4. /\ t.source = OfDeposit(d) /\ t.user = p.user /\ t.amount = p.amount
        /\ t.type = "credit" /\ t.sourceType = "DEPOSIT" /\ t.state = "executed"
    <3>1. transactions[k] \in Transaction
      BY <1>1
    <3> QED BY <2>1, <2>3, <3>1 DEF Transaction
  <2> HIDE DEF t
  <2>5. /\ rows \in Seq(Transaction)
        /\ OnlyRowsOf(OfDeposit(d), transactions, rows)
        /\ DOMAIN rows = DOMAIN transactions
        /\ rows[k] = t
        /\ \A i \in DOMAIN transactions : i # k => rows[i] = transactions[i]
    <3> HIDE DEF rows
    <3>1. rows \in Seq(Transaction)
      BY <1>1, <2>2, RowType
    <3>2. \A i \in {k} : i \in DOMAIN transactions => transactions[i].source = OfDeposit(d)
      BY <2>1
    <3>3. "executed" \in {"pending", "executed", "rejected"}
      OBVIOUS
    <3>4. OnlyRowsOf(OfDeposit(d), transactions, rows)
      BY <1>1, <2>2, <3>2, <3>3, UpdatedRows, Zenon
    <3>5. /\ DOMAIN rows = DOMAIN transactions
          /\ rows[k] = t
          /\ \A i \in DOMAIN transactions : i # k => rows[i] = transactions[i]
      BY <2>1, <2>2 DEF UpdateTransactions, t
    <3> QED BY <3>1, <3>4, <3>5
  <2>6. ASSUME NEW u \in Users
        PROVE  SumRows(ExecutedFlow(u, rows), Len(rows))
                 = NetExecuted(u) + (IF u = p.user THEN p.amount ELSE 0)
    <3> HIDE DEF rows
    <3>1. Len(rows) = Len(transactions)
      BY <1>1, <2>5
    <3>2. SumRows(ExecutedFlow(u, rows), Len(transactions)) = NetExecuted(u) + Flow(u, t)
      BY <1>1, <2>1, <2>2, NetOfUpdate DEF NetExecuted, t
    <3>3. Flow(u, t) = IF u = p.user THEN p.amount ELSE 0
      BY <2>4 DEF Flow
    <3> QED BY <3>1, <3>2, <3>3
  <2>7. ExecutedCredit(d, transactions, rows, k)
    <3> HIDE DEF rows
    <3> QED BY <2>1, <2>4, <2>5 DEF ExecutedCredit, p
  <2> QED BY <2>5, <2>6, <2>7 DEF p
<1>4. CASE pending = {}
  <2>1. rows = Append(transactions, row)
    BY <1>4 DEF WithDepositExecuted, p
  <2>2. row \in Transaction
    BY <1>1, <1>2 DEF Transaction, Row, Sources, OfDeposit
  <2>3. /\ row.source = OfDeposit(d) /\ row.user = p.user /\ row.amount = p.amount
        /\ row.type = "credit" /\ row.sourceType = "DEPOSIT" /\ row.state = "executed"
    BY DEF Row
  <2> HIDE DEF row, rows
  <2>4. /\ rows \in Seq(Transaction)
        /\ OnlyRowsOf(OfDeposit(d), transactions, rows)
        /\ DOMAIN rows = DOMAIN transactions \cup {Len(transactions) + 1}
        /\ Len(transactions) + 1 \notin DOMAIN transactions
        /\ rows[Len(transactions) + 1] = row
        /\ \A i \in DOMAIN transactions : rows[i] = transactions[i]
    BY <1>1, <2>1, <2>2, <2>3, InsertedRow, RowType
  <2>5. ASSUME NEW u \in Users
        PROVE  SumRows(ExecutedFlow(u, rows), Len(rows))
                 = NetExecuted(u) + (IF u = p.user THEN p.amount ELSE 0)
    <3>1. SumRows(ExecutedFlow(u, rows), Len(rows)) = NetExecuted(u) + Flow(u, row)
      BY <1>1, <2>1, <2>2, NetOfInsert, Zenon DEF NetExecuted
    <3>2. Flow(u, row) = IF u = p.user THEN p.amount ELSE 0
      BY <2>3 DEF Flow
    <3> QED BY <3>1, <3>2
  <2>6. ExecutedCredit(d, transactions, rows, Len(transactions) + 1)
    BY <2>3, <2>4 DEF ExecutedCredit, p
  <2> QED BY <2>4, <2>5, <2>6 DEF p, rows
<1> QED BY <1>3, <1>4

(* What the two changes of a settlement have in common, whether or not the *)
(* deposit is spent on an order: k is the credit, n the debit.             *)
SettledRows(d, k, n, spent) ==
  LET p == deposits[d]
  IN  /\ transactions' \in Seq(Transaction)
      /\ OnlyRowsOf(OfDeposit(d), transactions, transactions')
      /\ spent <=> p.order # NoOrder
      /\ k \in DOMAIN transactions' /\ k # n
      /\ k \in DOMAIN transactions => transactions[k].state # "executed"
      /\ transactions'[k].source = OfDeposit(d)
      /\ transactions'[k].user = p.user
      /\ transactions'[k].amount = p.amount
      /\ transactions'[k].type = "credit"
      /\ transactions'[k].sourceType = "DEPOSIT"
      /\ transactions'[k].state = "executed"
      /\ n \notin DOMAIN transactions
      /\ n \in DOMAIN transactions' <=> spent
      /\ spent => /\ transactions'[n].source = OfDeposit(d)
                  /\ transactions'[n].user = p.user
                  /\ transactions'[n].amount = p.amount
                  /\ transactions'[n].type = "debit"
                  /\ transactions'[n].sourceType = "ORDER_PAYMENT"
                  /\ transactions'[n].state = "executed"
      /\ \A t \in DOMAIN transactions' \ {k, n} :
           t \in DOMAIN transactions /\ transactions'[t] = transactions[t]

(* One more credit of the deposit, and one more charge if it is spent.     *)
LEMMA RowsSettled ==
  ASSUME NEW d, NEW k, NEW n, NEW spent \in BOOLEAN, SettledRows(d, k, n, spent)
  PROVE  /\ k \notin CreditsOf(d) /\ CreditsOf(d)' = CreditsOf(d) \cup {k}
         /\ n \notin ChargesOf(d)
         /\ ChargesOf(d)' = IF spent THEN ChargesOf(d) \cup {n} ELSE ChargesOf(d)
<1>1. k \notin CreditsOf(d) /\ n \notin ChargesOf(d)
  BY DEF SettledRows, CreditsOf, ChargesOf, ExecutedRows
<1>2. ASSUME NEW t, t # k, t # n
      PROVE  /\ t \in CreditsOf(d)' <=> t \in CreditsOf(d)
             /\ t \in ChargesOf(d)' <=> t \in ChargesOf(d)
  <2>1. t \in DOMAIN transactions <=> t \in DOMAIN transactions'
    BY <1>2 DEF SettledRows, OnlyRowsOf
  <2>2. t \in DOMAIN transactions => transactions'[t] = transactions[t]
    BY <1>2, <2>1 DEF SettledRows
  <2> QED BY <2>1, <2>2 DEF CreditsOf, ChargesOf, ExecutedRows, OfDeposit
<1>3. /\ k \in CreditsOf(d)' /\ k \notin ChargesOf(d)' /\ k \notin ChargesOf(d)
      /\ n \notin CreditsOf(d)' /\ n \notin CreditsOf(d)
      /\ n \in ChargesOf(d)' <=> spent
  BY DEF SettledRows, CreditsOf, ChargesOf, ExecutedRows, OfDeposit
<1> QED BY <1>1, <1>2, <1>3

LEMMA SettlementRows ==
  ASSUME PaymentInv, NEW h \in Handlers, SettleDeposit(h),
         ~ AlreadySettled(calls[h].deposit) \/ deposits' # deposits
  PROVE  LET d == calls[h].deposit
             p == deposits[d]
         IN  /\ d \in DOMAIN deposits /\ sessions[d] = "verified" /\ p \in Deposit
             /\ deposits' = [deposits EXCEPT ![d].status = "success"]
             /\ orders' = IF p.order = NoOrder THEN orders
                                               ELSE [orders EXCEPT ![p.order].status = "paid"]
             /\ \E k, n : \E spent \in BOOLEAN : SettledRows(d, k, n, spent)
             /\ wallets' \in [Users -> Wallet]
             /\ MoneyFollowsRows
<1> DEFINE d == calls[h].deposit
           p == deposits[d]
           rows == WithDepositExecuted(d)
           charged == Increment(wallets[p.user], p.amount)
           row == OrderPaymentRow(p.user, p.amount, OfDeposit(d), p.order)
<1>1. d \in DOMAIN deposits /\ sessions[d] = "verified"
  BY DEF SettleDeposit, In, PaymentInv, CallsOfDeposits
<1>2. /\ transactions \in Seq(Transaction) /\ wallets \in [Users -> Wallet]
      /\ deposits \in Seq(Deposit) /\ p \in Deposit /\ d \in Nat
  BY <1>1 DEF PaymentInv, PaymentTypeOK, WithdrawTypeOK
<1>3. /\ p.user \in Users /\ p.amount \in Amounts /\ p.amount \in Nat
      /\ p.order \in Orders \cup {NoOrder}
  BY <1>2 DEF Deposit, Amounts
<1>4. /\ deposits' = [deposits EXCEPT ![d].status = "success"]
      /\ \/ /\ p.order = NoOrder
            /\ wallets' = [wallets EXCEPT ![p.user] = charged]
            /\ transactions' = rows
            /\ UNCHANGED orders
         \/ /\ p.order # NoOrder
            /\ wallets' = [wallets EXCEPT ![p.user] = Decrement(charged, p.amount)]
            /\ transactions' = Append(rows, row)
            /\ orders' = [orders EXCEPT ![p.order].status = "paid"]
  BY DEF SettleDeposit
<1>5. /\ rows \in Seq(Transaction)
      /\ OnlyRowsOf(OfDeposit(d), transactions, rows)
      /\ \A u \in Users :
           SumRows(ExecutedFlow(u, rows), Len(rows))
             = NetExecuted(u) + (IF u = p.user THEN p.amount ELSE 0)
      /\ \E k : ExecutedCredit(d, transactions, rows, k)
  BY <1>1, DepositCredited
<1>6. PICK k : ExecutedCredit(d, transactions, rows, k)
  BY <1>5
<1>7. /\ wallets[p.user] \in Wallet
      /\ wallets[p.user].amount \in Nat /\ wallets[p.user].lockedAmount \in Nat
      /\ charged = [amount |-> wallets[p.user].amount + p.amount,
                    lockedAmount |-> wallets[p.user].lockedAmount]
      /\ Decrement(charged, p.amount) = wallets[p.user]
  BY <1>2, <1>3, WalletOperations
<1>8. \A u \in Users :
        /\ wallets[u].amount \in Nat /\ wallets[u].lockedAmount \in Nat
        /\ NetExecuted(u) \in Int
  BY <1>2, NetType DEF PaymentInv, WithdrawInv, Wallet
<1> HIDE DEF rows, charged, p, d
<1>9. CASE p.order = NoOrder
  <2>1. /\ wallets' = [wallets EXCEPT ![p.user] = charged]
        /\ transactions' = rows
        /\ UNCHANGED orders
    BY <1>4, <1>9
  <2>2. \E n : n \notin DOMAIN rows
    <3>1. Len(rows) + 1 \notin DOMAIN rows
      BY <1>5
    <3> QED BY <3>1
  <2>3. PICK n : n \notin DOMAIN rows
    BY <2>2
  <2>4. SettledRows(d, k, n, FALSE)
    <3>1. DOMAIN transactions \subseteq DOMAIN rows
      BY <1>5 DEF OnlyRowsOf
    <3> QED BY <1>5, <1>6, <1>9, <2>1, <2>3, <3>1 DEF SettledRows, ExecutedCredit, p
  <2>5. /\ wallets'[p.user] = charged
        /\ \A u \in Users : u # p.user => wallets'[u] = wallets[u]
    BY <1>2, <1>3, <2>1
  <2>6. wallets' \in [Users -> Wallet]
    <3>1. charged \in Wallet
      BY <1>3, <1>7 DEF Wallet
    <3> QED BY <1>2, <1>3, <2>1, <3>1
  <2>7. MoneyFollowsRows
    <3> SUFFICES ASSUME NEW u \in Users
                 PROVE  /\ wallets'[u].lockedAmount = wallets[u].lockedAmount
                        /\ wallets'[u].amount - wallets[u].amount
                             = NetExecuted(u)' - NetExecuted(u)
      BY DEF MoneyFollowsRows
    <3>1. NetExecuted(u)' = NetExecuted(u) + (IF u = p.user THEN p.amount ELSE 0)
      BY <1>5, <2>1 DEF NetExecuted
    <3> QED BY <1>3, <1>7, <1>8, <2>5, <3>1
  <2> QED BY <1>1, <1>2, <1>4, <1>9, <2>1, <2>4, <2>6, <2>7 DEF p, d
<1>10. CASE p.order # NoOrder
  <2>1. /\ wallets' = [wallets EXCEPT ![p.user] = Decrement(charged, p.amount)]
        /\ transactions' = Append(rows, row)
        /\ orders' = [orders EXCEPT ![p.order].status = "paid"]
    BY <1>4, <1>10
  <2>2. row \in Transaction
    BY <1>2, <1>3 DEF Transaction, OrderPaymentRow, Row, Sources, OfDeposit
  <2>3. /\ row.source = OfDeposit(d) /\ row.user = p.user /\ row.amount = p.amount
        /\ row.type = "debit" /\ row.sourceType = "ORDER_PAYMENT" /\ row.state = "executed"
    BY DEF OrderPaymentRow, Row
  <2> DEFINE n == Len(rows) + 1
  <2> HIDE DEF row
  <2>4. /\ OnlyRowsOf(OfDeposit(d), rows, transactions')
        /\ transactions' \in Seq(Transaction)
        /\ DOMAIN transactions' = DOMAIN rows \cup {n} /\ n \notin DOMAIN rows
        /\ transactions'[n] = row
        /\ \A i \in DOMAIN rows : transactions'[i] = rows[i]
    BY <1>5, <2>1, <2>2, <2>3, InsertedRow, RowType
  <2> HIDE DEF n
  <2>5. OnlyRowsOf(OfDeposit(d), transactions, transactions')
    BY <1>5, <2>4, RowsThenRows
  <2>6. SettledRows(d, k, n, TRUE)
    <3>1. DOMAIN transactions \subseteq DOMAIN rows
      BY <1>5 DEF OnlyRowsOf
    <3> QED BY <1>6, <1>10, <2>3, <2>4, <2>5, <3>1 DEF SettledRows, ExecutedCredit, p
  <2>7. wallets' = wallets
    BY <1>2, <1>3, <1>7, <2>1
  <2>8. MoneyFollowsRows
    <3> SUFFICES ASSUME NEW u \in Users
                 PROVE  /\ wallets'[u].lockedAmount = wallets[u].lockedAmount
                        /\ wallets'[u].amount - wallets[u].amount
                             = NetExecuted(u)' - NetExecuted(u)
      BY DEF MoneyFollowsRows
    <3>1. NetExecuted(u)'
            = SumRows(ExecutedFlow(u, rows), Len(rows)) + Flow(u, row)
      BY <1>5, <2>1, <2>2, NetOfInsert, Zenon DEF NetExecuted
    <3>2. Flow(u, row) = IF u = p.user THEN 0 - p.amount ELSE 0
      BY <2>3 DEF Flow
    <3>3. NetExecuted(u)' = NetExecuted(u)
      BY <1>3, <1>5, <1>8, <3>1, <3>2
    <3> QED BY <1>8, <2>7, <3>3
  <2> QED BY <1>1, <1>2, <1>4, <1>10, <2>1, <2>6, <2>7, <2>8 DEF p, d
<1> QED BY <1>9, <1>10

LEMMA SettlePreserves ==
  ASSUME PaymentInv, NEW h \in Handlers, SettleDeposit(h)
  PROVE  PaymentInv'
<1>1. Reply(h) /\ UNCHANGED <<withdraws, sessions, overwritten>>
  BY DEF SettleDeposit
<1>2. CASE AlreadySettled(calls[h].deposit) /\ deposits' = deposits
  <2>1. UNCHANGED <<wallets, transactions, withdraws, orders, deposits, sessions>>
    BY <1>2 DEF SettleDeposit
  <2>2. DepositsKept /\ calls' \in [Handlers -> Call] /\ CallsOfDeposits'
    BY <1>1, <2>1, Replied DEF DepositsKept
  <2>3. PaymentTypeOK'
    BY <1>1, <2>1, <2>2 DEF PaymentInv, PaymentTypeOK, WithdrawTypeOK
  <2> QED BY <2>1, <2>2, <2>3, LedgerKept DEF PaymentInv
<1>3. CASE ~ AlreadySettled(calls[h].deposit) \/ deposits' # deposits
  <2>1. PICK d \in DOMAIN deposits :
          /\ sessions[d] = "verified" /\ deposits[d] \in Deposit
          /\ deposits' = [deposits EXCEPT ![d].status = "success"]
          /\ orders' = IF deposits[d].order = NoOrder
                        THEN orders
                        ELSE [orders EXCEPT ![deposits[d].order].status = "paid"]
          /\ \E k, n : \E spent \in BOOLEAN : SettledRows(d, k, n, spent)
          /\ wallets' \in [Users -> Wallet]
          /\ MoneyFollowsRows
    BY <1>3, SettlementRows
  <2>2. PICK k, n : \E spent \in BOOLEAN : SettledRows(d, k, n, spent)
    BY <2>1
  <2>3. PICK spent \in BOOLEAN : SettledRows(d, k, n, spent)
    BY <2>2
  <2>4. /\ transactions \in Seq(Transaction) /\ transactions' \in Seq(Transaction)
        /\ OnlyRowsOf(OfDeposit(d), transactions, transactions')
        /\ OfDeposit(d)[1] = "deposits" /\ OfDeposit(d)[2] = d
        /\ deposits \in Seq(Deposit) /\ orders \in [Orders -> Order]
    BY <2>3 DEF SettledRows, OfDeposit, PaymentInv, PaymentTypeOK, WithdrawTypeOK
  <2>5. deposits' \in Seq(Deposit) /\ Len(deposits') = Len(deposits) /\ DepositsKept
    <3>1. [deposits[d] EXCEPT !.status = "success"] \in Deposit
      BY <2>1 DEF Deposit
    <3>2. deposits' \in Seq(Deposit) /\ Len(deposits') = Len(deposits)
      BY <2>1, <2>4, <3>1
    <3>3. DepositsKept
      BY <1>1, <2>1, <2>4 DEF DepositsKept, Deposit
    <3> QED BY <3>2, <3>3
  <2>6. calls' \in [Handlers -> Call] /\ CallsOfDeposits'
    BY <1>1, <2>5, Replied DEF DepositsKept
  <2>7. orders' \in [Orders -> Order]
    <3>1. ASSUME NEW o \in Orders PROVE [orders[o] EXCEPT !.status = "paid"] \in Order
      <4>1. orders[o] \in Order
        BY <2>4
      <4> QED BY <4>1 DEF Order
    <3>2. deposits[d].order \in Orders \cup {NoOrder}
      BY <2>1 DEF Deposit
    <3> QED BY <2>1, <2>4, <3>1, <3>2
  <2>8. WithdrawInv'
    <3>1. OfDeposit(d)[1] # "withdraws" /\ WithdrawInv
      BY <2>4 DEF PaymentInv
    <3> QED BY <1>1, <2>1, <2>4, <3>1, MoneyMoved
  <2>9. PaymentTypeOK'
    BY <1>1, <2>5, <2>6, <2>7, <2>8 DEF PaymentInv, PaymentTypeOK, WithdrawInv
  <2>10. DepositRowsAgree'
    <3> SUFFICES ASSUME NEW t \in DOMAIN transactions',
                        transactions'[t].source[1] = "deposits"
                 PROVE  LET e == transactions'[t].source[2]
                            r == transactions'[t]
                        IN  /\ e \in DOMAIN deposits'
                            /\ r.user = deposits'[e].user
                            /\ r.amount = deposits'[e].amount
                            /\ \/ r.sourceType = "DEPOSIT" /\ r.type = "credit"
                               \/ /\ r.sourceType = "ORDER_PAYMENT" /\ r.type = "debit"
                                  /\ r.state = "executed"
                            /\ r.state = "executed" => sessions'[e] = "verified"
      BY DEF DepositRowsAgree, RowOfDeposit
    <3>1. CASE t \in {k, n}
      BY <1>1, <2>1, <2>3, <2>4, <2>5, <3>1 DEF SettledRows, DepositsKept
    <3>2. CASE t \notin {k, n}
      <4>1. t \in DOMAIN transactions /\ transactions'[t] = transactions[t]
        BY <2>3, <3>2 DEF SettledRows
      <4> QED BY <1>1, <2>5, <4>1
              DEF PaymentInv, DepositRowsAgree, RowOfDeposit, DepositsKept
    <3> QED BY <3>1, <3>2
  <2>11. GatewayMoneyInThenOut'
    <3> SUFFICES ASSUME NEW e \in DOMAIN deposits
                 PROVE  Cardinality(ChargesOf(e)') =
                          IF deposits[e].order = NoOrder THEN 0
                                                         ELSE Cardinality(CreditsOf(e)')
      BY <2>5 DEF GatewayMoneyInThenOut, DepositsKept
    <3>1. Cardinality(ChargesOf(e)) =
            IF deposits[e].order = NoOrder THEN 0 ELSE Cardinality(CreditsOf(e))
      BY DEF PaymentInv, GatewayMoneyInThenOut
    <3>2. CASE e # d
      <4>1. OfDeposit(d) # OfDeposit(e)
        BY <3>2 DEF OfDeposit
      <4> QED BY <2>4, <3>1, <4>1, CreditsUndisturbed
    <3>3. CASE e = d
      <4>1. /\ k \notin CreditsOf(d) /\ CreditsOf(d)' = CreditsOf(d) \cup {k}
            /\ n \notin ChargesOf(d)
            /\ ChargesOf(d)' = IF spent THEN ChargesOf(d) \cup {n} ELSE ChargesOf(d)
        BY <2>3, RowsSettled
      <4>2. spent <=> deposits[d].order # NoOrder
        BY <2>3 DEF SettledRows
      <4>3. IsFiniteSet(CreditsOf(d)) /\ IsFiniteSet(ChargesOf(d))
        BY <2>4, RowsFinite
      <4>4. Cardinality(CreditsOf(d) \cup {k}) = Cardinality(CreditsOf(d)) + 1
        BY <4>1, <4>3, FS_AddElement
      <4>5. Cardinality(ChargesOf(d) \cup {n}) = Cardinality(ChargesOf(d)) + 1
        BY <4>1, <4>3, FS_AddElement
      <4> QED BY <3>1, <3>3, <4>1, <4>2, <4>4, <4>5
    <3> QED BY <3>2, <3>3
  <2> QED BY <2>6, <2>8, <2>9, <2>10, <2>11 DEF PaymentInv
<1> QED BY <1>2, <1>3

-----------------------------------------------------------------------------
(* A payout touches the rows of its own request only.                      *)
LEMMA PayoutRows ==
  ASSUME PaymentInv, WithdrawNext
  PROVE  \E w : OnlyRowsOf(OfWithdraw(w), transactions, transactions')
<1>1. transactions \in Seq(Transaction) /\ withdraws \in Seq(Withdraw)
  BY DEF PaymentInv, PaymentTypeOK, WithdrawTypeOK
<1>2. ASSUME NEW u \in Users, NEW a \in WithdrawAmounts, CreateWithdraw(u, a)
      PROVE  \E w : OnlyRowsOf(OfWithdraw(w), transactions, transactions')
  <2> DEFINE w == Len(withdraws) + 1
             row == Row(u, a, "debit", "WITHDRAW", OfWithdraw(w), NoOrder, "pending")
  <2>1. transactions' = Append(transactions, row)
    BY <1>2 DEF CreateWithdraw
  <2>2. row.source = OfWithdraw(w)
    BY DEF Row
  <2>3. row \in Transaction
    BY <1>1, WithdrawAssumption DEF Transaction, Row, Sources, OfWithdraw
  <2> HIDE DEF row
  <2>4. OnlyRowsOf(row.source, transactions, transactions')
    BY <1>1, <2>1, <2>3, InsertedRow
  <2> QED BY <2>2, <2>4
<1>3. ASSUME NEW w \in DOMAIN withdraws, ApproveWithdraw(w) \/ RejectWithdraw(w)
      PROVE  \E v : OnlyRowsOf(OfWithdraw(v), transactions, transactions')
  <2> DEFINE ids == FindPendingBySource(transactions, OfWithdraw(w))
  <2>1. \E state \in {"executed", "rejected"} :
          transactions' = UpdateTransactions(transactions, ids, state)
    BY <1>3 DEF ApproveWithdraw, RejectWithdraw, Close
  <2>2. PICK state \in {"executed", "rejected"} :
          transactions' = UpdateTransactions(transactions, ids, state)
    BY <2>1
  <2>3. \A i \in ids : i \in DOMAIN transactions => transactions[i].source = OfWithdraw(w)
    BY DEF FindPendingBySource, PendingBySource
  <2>4. state \in {"pending", "executed", "rejected"}
    OBVIOUS
  <2> HIDE DEF ids
  <2>5. OnlyRowsOf(OfWithdraw(w), transactions, transactions')
    BY <1>1, <2>2, <2>3, <2>4, UpdatedRows
  <2> QED BY <2>5
<1> QED BY <1>2, <1>3 DEF WithdrawNext

LEMMA PayoutPreserves ==
  ASSUME PaymentInv, Payout
  PROVE  PaymentInv'
<1>1. WithdrawNext /\ UNCHANGED <<orders, deposits, sessions, calls, overwritten>>
  BY DEF Payout
<1>2. WithdrawInv'
  BY <1>1, NextPreserves DEF PaymentInv
<1>3. DepositsKept /\ calls' \in [Handlers -> Call] /\ CallsOfDeposits'
  BY <1>1, SameCalls DEF DepositsKept
<1>4. PICK w : OnlyRowsOf(OfWithdraw(w), transactions, transactions')
  BY <1>1, PayoutRows
<1>5. OfWithdraw(w)[1] # "deposits"
  BY DEF OfWithdraw
<1>6. DepositRowsAgree' /\ GatewayMoneyInThenOut'
  BY <1>3, <1>4, <1>5, DepositsUndisturbed
<1>7. PaymentTypeOK'
  BY <1>1, <1>2, <1>3 DEF PaymentInv, PaymentTypeOK, WithdrawInv
<1> QED BY <1>2, <1>3, <1>6, <1>7 DEF PaymentInv

LEMMA PaymentStutter ==
  ASSUME PaymentInv, UNCHANGED paymentVars
  PROVE  PaymentInv'
<1>1. UNCHANGED <<wallets, transactions, withdraws, orders, deposits, sessions, calls,
                  overwritten>>
  BY DEF paymentVars
<1>2. DepositsKept /\ calls' \in [Handlers -> Call] /\ CallsOfDeposits'
  BY <1>1, SameCalls DEF DepositsKept
<1>3. PaymentTypeOK'
  BY <1>1, <1>2 DEF PaymentInv, PaymentTypeOK, WithdrawTypeOK
<1> QED BY <1>1, <1>2, <1>3, LedgerKept DEF PaymentInv

LEMMA PaymentNextPreserves ==
  ASSUME PaymentInv, PaymentNext
  PROVE  PaymentInv'
<1>1. ASSUME NEW h \in Handlers, HandlerStep(h) PROVE PaymentInv'
  BY <1>1, InsertPreserves, PayPreserves, CancelPreserves, VerifyPreserves,
     SettlePreserves, EditPreserves DEF HandlerStep
<1>2. ASSUME NEW h \in Handlers, NEW o \in Orders,
             \/ \E g \in Gateways : ReadForGateway(h, o, g)
             \/ ReadForCredit(h, o)
             \/ LoadForEdit(h, o)
      PROVE  PaymentInv'
  BY <1>2, ReadPreserves
<1>3. ASSUME NEW h \in Handlers, NEW d \in DOMAIN deposits, Callback(h, d)
      PROVE  PaymentInv'
  BY <1>3, CallbackPreserves
<1>4. ASSUME NEW h \in Handlers, Abort(h) PROVE PaymentInv'
  BY <1>4, AbortPreserves
<1>5. ASSUME NEW u \in Users, NEW g \in Gateways, NEW a \in TopUpAmounts,
             RequestTopUp(u, g, a)
      PROVE  PaymentInv'
  BY <1>5, TopUpPreserves
<1>6. ASSUME NEW d \in DOMAIN deposits, NEW outcome \in {"paid", "cancelled"},
             CustomerEnds(d, outcome)
      PROVE  PaymentInv'
  BY <1>6, CustomerPreserves
<1>7. CASE Payout
  BY <1>7, PayoutPreserves
<1> QED BY <1>1, <1>2, <1>3, <1>4, <1>5, <1>6, <1>7 DEF PaymentNext

LEMMA PaymentInitEstablishes == PaymentInit => PaymentInv
<1> SUFFICES ASSUME PaymentInit PROVE PaymentInv
  OBVIOUS
<1>1. WithdrawInv
  BY InitEstablishes DEF PaymentInit
<1>2. /\ transactions = <<>> /\ deposits = <<>> /\ sessions = <<>>
      /\ orders \in [Orders -> [status : {"pending"}, amount : OrderAmounts]]
      /\ calls = [h \in Handlers |-> Idle]
      /\ overwritten = [d \in 1..MaxDeposits |-> 0]
  BY DEF PaymentInit, WithdrawInit, LedgerInit
<1>3. orders \in [Orders -> Order]
  BY <1>2, PaymentAssumption DEF Order
<1>4. calls \in [Handlers -> Call] /\ \A h \in Handlers : calls[h].op = "idle"
  BY <1>2 DEF Call, Idle
<1>5. PaymentTypeOK
  BY <1>1, <1>2, <1>3, <1>4, PaymentAssumption DEF PaymentTypeOK, WithdrawInv
<1>6. DepositRowsAgree /\ GatewayMoneyInThenOut
  BY <1>2 DEF DepositRowsAgree, GatewayMoneyInThenOut
<1>7. CallsOfDeposits
  BY <1>4 DEF CallsOfDeposits
<1> QED BY <1>1, <1>5, <1>6, <1>7 DEF PaymentInv

(* PaymentInv holds in every reachable state of the shop's payments: for   *)
(* any users, orders, amounts and gateways, with any number of handlers    *)
(* that interleave, stop half way and are retried.                         *)
THEOREM PaymentInvariant == PaymentSpec => []PaymentInv
<1>1. PaymentInit => PaymentInv
  BY PaymentInitEstablishes
<1>2. PaymentInv /\ [PaymentNext]_paymentVars => PaymentInv'
  BY PaymentNextPreserves, PaymentStutter
<1> QED BY <1>1, <1>2, PTL DEF PaymentSpec

(* Tables, sessions and what handlers carry stay typed: no balance below   *)
(* zero, no deposit without a session.                                     *)
THEOREM PaymentTypes == PaymentSpec => []PaymentTypeOK
<1>1. PaymentInv => PaymentTypeOK
  BY DEF PaymentInv
<1> QED BY <1>1, PaymentInvariant, PTL

(* Next to deposits, order payments and callbacks, the locked money is     *)
(* still the sum of the pending requests.                                  *)
THEOREM LockedMoneyNextToPayments == PaymentSpec => []LockedIsPending
<1>1. PaymentInv => LockedIsPending
  BY DEF PaymentInv, WithdrawInv
<1> QED BY <1>1, PaymentInvariant, PTL

(* user_credits and transactions agree about every user's money, whatever  *)
(* payments, charges and payouts run.                                      *)
THEOREM LedgerOfTheShop == PaymentSpec => []LedgerReconciles
<1>1. PaymentInv => LedgerReconciles
  BY DEF PaymentInv, WithdrawInv
<1> QED BY <1>1, PaymentInvariant, PTL

(* Every request keeps its one transaction, in the matching state.         *)
THEOREM RequestsNextToPayments == PaymentSpec => []WithdrawsMatchTransactions
<1>1. PaymentInv => WithdrawsMatchTransactions
  BY DEF PaymentInv, WithdrawInv
<1> QED BY <1>1, PaymentInvariant, PTL

(* reviewWithdraw never throws for lack of credit, whatever the payments   *)
(* did to the wallet since the request.                                    *)
THEOREM ReviewsSucceedNextToPayments == PaymentSpec => []ReviewNeverStuck
<1>1. PaymentInv => ReviewNeverStuck
  BY PendingIsLocked DEF PaymentInv, WithdrawInv, ReviewNeverStuck
<1> QED BY <1>1, PaymentInvariant, PTL

(* A wallet is credited only with money the gateway verified, for the user *)
(* and with the amount of the deposit.                                     *)
THEOREM CreditsAreBacked == PaymentSpec => []CreditBackedByGateway
<1>1. PaymentInv => CreditBackedByGateway
  <2> SUFFICES ASSUME PaymentInv, NEW d \in DOMAIN deposits, NEW t \in CreditsOf(d)
               PROVE  /\ sessions[d] = "verified"
                      /\ transactions[t].user = deposits[d].user
                      /\ transactions[t].amount = deposits[d].amount
    BY DEF CreditBackedByGateway
  <2>1. /\ t \in DOMAIN transactions
        /\ transactions[t].source[1] = "deposits" /\ transactions[t].source[2] = d
        /\ transactions[t].state = "executed"
    BY DEF CreditsOf, ExecutedRows, OfDeposit
  <2> QED BY <2>1 DEF PaymentInv, DepositRowsAgree, RowOfDeposit
<1> QED BY <1>1, PaymentInvariant, PTL

(* Whatever a gateway pays for an order is spent on that order by the same *)
(* settlement, and what it pays into the wallet is spent on none.          *)
THEOREM InThenOut == PaymentSpec => []GatewayMoneyInThenOut
<1>1. PaymentInv => GatewayMoneyInThenOut
  BY DEF PaymentInv
<1> QED BY <1>1, PaymentInvariant, PTL

-----------------------------------------------------------------------------
(* Settling once: a deposit is credited when it becomes successful, and    *)
(* only a failed callback takes a successful deposit back to where it can  *)
(* be settled again, which overwritten counts.                             *)
SettledInv ==
  /\ SettledOnceUnlessOverwritten
  /\ \A d \in 1..MaxDeposits : d \notin DOMAIN deposits => overwritten[d] = 0

(* Nothing SettledInv speaks of changes.                                   *)
LEMMA SettledUndisturbed ==
  ASSUME SettledInv,
         DOMAIN deposits' = DOMAIN deposits, overwritten' = overwritten,
         \A d \in DOMAIN deposits :
           CreditsOf(d)' = CreditsOf(d) /\ deposits'[d].status = deposits[d].status
  PROVE  SettledInv'
<1>1. ASSUME NEW d \in DOMAIN deposits
      PROVE  Cardinality(CreditsOf(d)') =
               overwritten'[d] + (IF deposits'[d].status = "success" THEN 1 ELSE 0)
  BY DEF SettledInv, SettledOnceUnlessOverwritten
<1> QED BY <1>1 DEF SettledInv, SettledOnceUnlessOverwritten

LEMMA CallTaken ==
  ASSUME PaymentInv, NEW h \in Handlers, NEW call, calls' = [calls EXCEPT ![h] = call]
  PROVE  \A g \in Handlers : calls'[g] = IF g = h THEN call ELSE calls[g]
BY DEF PaymentInv, PaymentTypeOK

LEMMA PayRows ==
  ASSUME PaymentInv, NEW h \in Handlers, PayWithCredit(h)
  PROVE  \/ transactions' = transactions
         \/ LET o == calls[h].order
                row == OrderPaymentRow(OrderOwner[o], calls[h].amount, NoSource, o)
            IN  /\ o \in Orders /\ orders[o].status = "pending"
                /\ row \in Transaction
                /\ transactions' = Append(transactions, row)
                /\ orders' = [orders EXCEPT ![o].status = "paid"]
                /\ OnlyRowsOf(NoSource, transactions, transactions')
<1> DEFINE o == calls[h].order
           row == OrderPaymentRow(OrderOwner[o], calls[h].amount, NoSource, o)
<1>1. /\ calls[h] \in Call /\ calls[h].op = "credit" /\ transactions \in Seq(Transaction)
  BY DEF PayWithCredit, In, PaymentInv, PaymentTypeOK, WithdrawTypeOK
<1>2. o \in Orders /\ calls[h].amount \in Amounts
  BY <1>1 DEF Call, Idle
<1>3. row \in Transaction /\ row.source = NoSource
  BY <1>2, PaymentAssumption DEF Transaction, OrderPaymentRow, Row, Sources, NoSource
<1>4. CASE transactions' # transactions
  <2>1. /\ orders[o].status = "pending"
        /\ transactions' = Append(transactions, row)
        /\ orders' = [orders EXCEPT ![o].status = "paid"]
    BY <1>4 DEF PayWithCredit, StillPayable
  <2> HIDE DEF row
  <2>2. OnlyRowsOf(NoSource, transactions, transactions')
    BY <1>1, <1>3, <2>1, InsertedRow
  <2> QED BY <1>2, <1>3, <2>1, <2>2 DEF row
<1> QED BY <1>4

LEMMA NewDepositRows ==
  ASSUME PaymentInv, NEW u \in Users, NEW o \in Orders \cup {NoOrder},
         NEW g \in Gateways, NEW a \in Amounts, NewDeposit(u, o, g, a)
  PROVE  \E d :
           /\ d \notin DOMAIN deposits /\ DOMAIN deposits' = DOMAIN deposits \cup {d}
           /\ deposits'[d].status = "pending"
           /\ \A e \in DOMAIN deposits :
                deposits'[e] = deposits[e] /\ sessions'[e] = sessions[e]
           /\ CreditsOf(d)' = {}
           /\ OnlyRowsOf(OfDeposit(d), transactions, transactions')
<1> DEFINE n == Len(deposits) + 1
           deposit == [user |-> u, order |-> o, gateway |-> g,
                       amount |-> a, status |-> "pending"]
           row == Row(u, a, "credit", "DEPOSIT", OfDeposit(n), o, "pending")
<1>1. /\ transactions \in Seq(Transaction)
      /\ deposits \in Seq(Deposit) /\ sessions \in Seq(Session)
      /\ Len(sessions) = Len(deposits)
  BY DEF PaymentInv, PaymentTypeOK, WithdrawTypeOK
<1>2. /\ deposits' = Append(deposits, deposit)
      /\ sessions' = Append(sessions, "open")
      /\ transactions' = Append(transactions, row)
  BY DEF NewDeposit
<1>3. row \in Transaction /\ row.source = OfDeposit(n) /\ row.state = "pending"
  BY <1>1 DEF Transaction, Row, Sources, OfDeposit
<1>4. deposit.status = "pending"
  OBVIOUS
<1> HIDE DEF row, deposit
<1>5. /\ n \notin DOMAIN deposits /\ DOMAIN deposits' = DOMAIN deposits \cup {n}
      /\ deposits'[n].status = "pending"
      /\ \A e \in DOMAIN deposits :
           deposits'[e] = deposits[e] /\ sessions'[e] = sessions[e]
  BY <1>1, <1>2, <1>4
<1>6. /\ OnlyRowsOf(OfDeposit(n), transactions, transactions')
      /\ \A t \in DOMAIN transactions' :
           \/ transactions'[t] = row
           \/ t \in DOMAIN transactions /\ transactions'[t] = transactions[t]
  BY <1>1, <1>2, <1>3, InsertedRow
<1>7. PICK d : d = n
  OBVIOUS
<1>8. OfDeposit(d)[1] = "deposits" /\ OfDeposit(d)[2] = d
  BY DEF OfDeposit
<1>9. \A t \in DOMAIN transactions' :
        transactions'[t].source = OfDeposit(d) => transactions'[t].state # "executed"
  BY <1>3, <1>5, <1>6, <1>7, <1>8 DEF PaymentInv, DepositRowsAgree
<1>10. CreditsOf(d)' = {}
  BY <1>9 DEF CreditsOf, ExecutedRows, OfDeposit
<1> HIDE DEF n
<1> QED BY <1>5, <1>6, <1>7, <1>10

LEMMA SettledByNewDeposit ==
  ASSUME PaymentInv, PaymentInv', SettledInv, NEW u \in Users,
         NEW o \in Orders \cup {NoOrder}, NEW g \in Gateways, NEW a \in Amounts,
         NewDeposit(u, o, g, a)
  PROVE  SettledInv'
<1>1. PICK d :
        /\ d \notin DOMAIN deposits /\ DOMAIN deposits' = DOMAIN deposits \cup {d}
        /\ deposits'[d].status = "pending"
        /\ \A e \in DOMAIN deposits :
             deposits'[e] = deposits[e] /\ sessions'[e] = sessions[e]
        /\ CreditsOf(d)' = {}
        /\ OnlyRowsOf(OfDeposit(d), transactions, transactions')
  BY NewDepositRows
<1>2. overwritten' = overwritten /\ d \in 1..MaxDeposits
  BY <1>1, PaymentAssumption DEF NewDeposit, PaymentInv, PaymentTypeOK
<1>3. overwritten[d] = 0
  BY <1>1, <1>2 DEF SettledInv
<1>4. ASSUME NEW e \in DOMAIN deposits'
      PROVE  Cardinality(CreditsOf(e)') =
               overwritten'[e] + (IF deposits'[e].status = "success" THEN 1 ELSE 0)
  <2>1. CASE e = d
    <3>1. Cardinality({}) = 0
      BY FS_EmptySet
    <3>2. CreditsOf(e)' = {} /\ overwritten'[e] = 0 /\ deposits'[e].status = "pending"
      BY <1>1, <1>2, <1>3, <2>1
    <3> QED BY <3>1, <3>2
  <2>2. CASE e # d
    <3>1. e \in DOMAIN deposits /\ OfDeposit(d) # OfDeposit(e)
      BY <1>1, <1>4, <2>2 DEF OfDeposit
    <3>2. CreditsOf(e)' = CreditsOf(e)
      BY <1>1, <3>1, CreditsUndisturbed
    <3> QED BY <1>1, <1>2, <3>1, <3>2 DEF SettledInv, SettledOnceUnlessOverwritten
  <2> QED BY <2>1, <2>2
<1>5. \A e \in 1..MaxDeposits : e \notin DOMAIN deposits' => overwritten'[e] = 0
  BY <1>1, <1>2 DEF SettledInv
<1> QED BY <1>4, <1>5 DEF SettledInv, SettledOnceUnlessOverwritten

LEMMA SettledBySettle ==
  ASSUME PaymentInv, SettledInv, NEW h \in Handlers, SettleDeposit(h)
  PROVE  SettledInv'
<1>1. overwritten' = overwritten
  BY DEF SettleDeposit
<1>2. CASE AlreadySettled(calls[h].deposit) /\ deposits' = deposits
  <2>1. transactions' = transactions
    BY <1>2 DEF SettleDeposit
  <2>2. \A d : CreditsOf(d)' = CreditsOf(d)
    BY <2>1 DEF CreditsOf, ExecutedRows, OfDeposit
  <2> QED BY <1>1, <1>2, <2>2, SettledUndisturbed
<1>3. CASE ~ AlreadySettled(calls[h].deposit)
  <2>1. PICK d \in DOMAIN deposits :
          /\ d = calls[h].deposit /\ deposits[d] \in Deposit
          /\ deposits' = [deposits EXCEPT ![d].status = "success"]
          /\ \E k, n : \E spent \in BOOLEAN : SettledRows(d, k, n, spent)
    BY <1>3, SettlementRows
  <2>2. PICK k, n : \E spent \in BOOLEAN : SettledRows(d, k, n, spent)
    BY <2>1
  <2>3. PICK spent \in BOOLEAN : SettledRows(d, k, n, spent)
    BY <2>2
  <2>4. k \notin CreditsOf(d) /\ CreditsOf(d)' = CreditsOf(d) \cup {k}
    BY <2>3, RowsSettled
  <2>5. IsFiniteSet(CreditsOf(d))
    BY RowsFinite DEF PaymentInv, PaymentTypeOK, WithdrawTypeOK
  <2>6. Cardinality(CreditsOf(d)') = Cardinality(CreditsOf(d)) + 1
    BY <2>4, <2>5, FS_AddElement
  <2>7. Cardinality(CreditsOf(d)) = overwritten[d] /\ overwritten[d] \in Nat
    <3>1. deposits[d].status # "success" /\ d \in 1..MaxDeposits
      BY <1>3, <2>1, PaymentAssumption DEF AlreadySettled, PaymentInv, PaymentTypeOK
    <3>2. overwritten[d] \in Nat
      BY <3>1 DEF PaymentInv, PaymentTypeOK
    <3>3. Cardinality(CreditsOf(d)) = overwritten[d] + 0
      BY <3>1 DEF SettledInv, SettledOnceUnlessOverwritten
    <3> QED BY <3>2, <3>3
  <2>8. /\ DOMAIN deposits' = DOMAIN deposits
        /\ deposits'[d].status = "success"
        /\ \A e \in DOMAIN deposits : e # d => deposits'[e] = deposits[e]
    BY <2>1 DEF Deposit
  <2>9. ASSUME NEW e \in DOMAIN deposits
        PROVE  Cardinality(CreditsOf(e)') =
                 overwritten'[e] + (IF deposits'[e].status = "success" THEN 1 ELSE 0)
    <3>1. CASE e = d
      BY <1>1, <2>6, <2>7, <2>8, <3>1
    <3>2. CASE e # d
      <4>1. OfDeposit(d) # OfDeposit(e)
        BY <3>2 DEF OfDeposit
      <4>2. OnlyRowsOf(OfDeposit(d), transactions, transactions')
        BY <2>3 DEF SettledRows
      <4>3. CreditsOf(e)' = CreditsOf(e)
        BY <4>1, <4>2, CreditsUndisturbed
      <4> QED BY <1>1, <2>8, <3>2, <4>3 DEF SettledInv, SettledOnceUnlessOverwritten
    <3> QED BY <3>1, <3>2
  <2> QED BY <1>1, <2>8, <2>9 DEF SettledInv, SettledOnceUnlessOverwritten
<1>4. AlreadySettled(calls[h].deposit) => deposits' = deposits
  BY DEF SettleDeposit
<1> QED BY <1>2, <1>3, <1>4

(* The failed callback: what a successful deposit loses of its status,     *)
(* overwritten gains.                                                      *)
LEMMA SettledByCancel ==
  ASSUME PaymentInv, SettledInv, NEW h \in Handlers, CancelDeposit(h)
  PROVE  SettledInv'
<1>1. PICK d : d = calls[h].deposit
  OBVIOUS
<1>2. d \in DOMAIN deposits /\ deposits[d] \in Deposit
  BY <1>1 DEF CancelDeposit, In, PaymentInv, PaymentTypeOK, CallsOfDeposits
<1>3. d \in 1..MaxDeposits /\ overwritten \in [1..MaxDeposits -> Nat]
  BY <1>2, PaymentAssumption DEF PaymentInv, PaymentTypeOK
<1>4. /\ deposits' = [deposits EXCEPT ![d].status = "failed"]
      /\ transactions' = transactions
      /\ \/ deposits[d].status # "success" /\ overwritten' = overwritten
         \/ /\ deposits[d].status = "success"
            /\ overwritten' = [overwritten EXCEPT ![d] = overwritten[d] + 1]
  BY <1>1 DEF CancelDeposit
<1>5. \A e : CreditsOf(e)' = CreditsOf(e)
  BY <1>4 DEF CreditsOf, ExecutedRows, OfDeposit
<1>6. /\ DOMAIN deposits' = DOMAIN deposits
      /\ deposits'[d].status = "failed"
      /\ \A e \in DOMAIN deposits : e # d => deposits'[e] = deposits[e]
  BY <1>2, <1>4 DEF Deposit
<1>7. /\ overwritten'[d] =
           overwritten[d] + (IF deposits[d].status = "success" THEN 1 ELSE 0)
      /\ overwritten'[d] \in Nat
      /\ \A e \in 1..MaxDeposits : e # d => overwritten'[e] = overwritten[e]
  <2>1. overwritten[d] \in Nat
    BY <1>3
  <2>2. CASE deposits[d].status # "success"
    BY <1>4, <2>1, <2>2
  <2>3. CASE deposits[d].status = "success"
    <3>1. overwritten' = [overwritten EXCEPT ![d] = overwritten[d] + 1]
      BY <1>4, <2>3
    <3>2. /\ overwritten'[d] = overwritten[d] + 1
          /\ \A e \in 1..MaxDeposits : e # d => overwritten'[e] = overwritten[e]
      BY <1>3, <3>1
    <3> QED BY <2>1, <2>3, <3>2
  <2> QED BY <2>2, <2>3
<1>8. ASSUME NEW e \in DOMAIN deposits
      PROVE  Cardinality(CreditsOf(e)') =
               overwritten'[e] + (IF deposits'[e].status = "success" THEN 1 ELSE 0)
  <2>1. Cardinality(CreditsOf(e)) =
          overwritten[e] + (IF deposits[e].status = "success" THEN 1 ELSE 0)
    BY DEF SettledInv, SettledOnceUnlessOverwritten
  <2>2. e \in 1..MaxDeposits
    BY PaymentAssumption DEF PaymentInv, PaymentTypeOK
  <2>3. CASE e = d
    BY <1>5, <1>6, <1>7, <2>1, <2>3
  <2>4. CASE e # d
    BY <1>5, <1>6, <1>7, <2>1, <2>2, <2>4
  <2> QED BY <2>3, <2>4
<1>9. \A e \in 1..MaxDeposits : e \notin DOMAIN deposits' => overwritten'[e] = 0
  BY <1>2, <1>6, <1>7 DEF SettledInv
<1> QED BY <1>6, <1>8, <1>9 DEF SettledInv, SettledOnceUnlessOverwritten

(* Steps that leave deposits alone and write rows of others, if any.       *)
LEMMA SettledByRowsOfOthers ==
  ASSUME SettledInv, NEW source, source[1] # "deposits",
         OnlyRowsOf(source, transactions, transactions'),
         UNCHANGED <<deposits, overwritten>>
  PROVE  SettledInv'
<1>1. \A d : source # OfDeposit(d)
  BY DEF OfDeposit
<1>2. \A d \in DOMAIN deposits : CreditsOf(d)' = CreditsOf(d)
  BY <1>1, CreditsUndisturbed
<1> QED BY <1>2, SettledUndisturbed

LEMMA SettledByOtherStep ==
  ASSUME SettledInv, UNCHANGED <<transactions, deposits, overwritten>>
  PROVE  SettledInv'
<1>1. OnlyRowsOf(NoSource, transactions, transactions') /\ NoSource[1] # "deposits"
  BY NoRows DEF NoSource
<1> QED BY <1>1, SettledByRowsOfOthers

LEMMA SettledNext ==
  ASSUME PaymentInv, PaymentInv', SettledInv, [PaymentNext]_paymentVars
  PROVE  SettledInv'
<1>1. ASSUME NEW h \in Handlers, NEW o \in Orders,
             \/ \E g \in Gateways : ReadForGateway(h, o, g)
             \/ ReadForCredit(h, o)
             \/ LoadForEdit(h, o)
      PROVE  SettledInv'
  BY <1>1, SettledByOtherStep DEF ReadForGateway, ReadForCredit, LoadForEdit
<1>2. ASSUME NEW h \in Handlers, NEW d \in DOMAIN deposits, Callback(h, d)
      PROVE  SettledInv'
  BY <1>2, SettledByOtherStep DEF Callback
<1>3. ASSUME NEW h \in Handlers, Abort(h) \/ SaveEdit(h) \/ VerifyAtGateway(h)
      PROVE  SettledInv'
  BY <1>3, SettledByOtherStep DEF Abort, SaveEdit, VerifyAtGateway
<1>4. ASSUME NEW h \in Handlers, InsertGatewayDeposit(h) PROVE SettledInv'
  <2>1. /\ calls[h] \in Call /\ calls[h].op = "gateway"
    BY <1>4 DEF InsertGatewayDeposit, In, PaymentInv, PaymentTypeOK
  <2>2. /\ calls[h].order \in Orders /\ calls[h].gateway \in Gateways
        /\ calls[h].amount \in Amounts
    BY <2>1 DEF Call, Idle
  <2>3. OrderOwner[calls[h].order] \in Users
    BY <2>2, PaymentAssumption
  <2>4. CASE UNCHANGED <<wallets, transactions, withdraws, orders, deposits, sessions,
                         overwritten>>
    BY <2>4, SettledByOtherStep
  <2>5. CASE NewDeposit(OrderOwner[calls[h].order], calls[h].order,
                        calls[h].gateway, calls[h].amount)
    BY <2>2, <2>3, <2>5, SettledByNewDeposit
  <2> QED BY <1>4, <2>4, <2>5 DEF InsertGatewayDeposit
<1>5. ASSUME NEW h \in Handlers, PayWithCredit(h) PROVE SettledInv'
  <2>1. UNCHANGED <<deposits, overwritten>>
    BY <1>5 DEF PayWithCredit
  <2>2. OnlyRowsOf(NoSource, transactions, transactions')
    BY <1>5, PayRows, NoRows
  <2>3. NoSource[1] # "deposits"
    BY DEF NoSource
  <2> QED BY <2>1, <2>2, <2>3, SettledByRowsOfOthers
<1>6. ASSUME NEW u \in Users, NEW g \in Gateways, NEW a \in TopUpAmounts,
             RequestTopUp(u, g, a)
      PROVE  SettledInv'
  <2>1. a \in Amounts /\ NewDeposit(u, NoOrder, g, a)
    BY <1>6, PaymentAssumption DEF RequestTopUp
  <2> QED BY <2>1, SettledByNewDeposit
<1>7. ASSUME NEW d, NEW outcome, CustomerEnds(d, outcome) PROVE SettledInv'
  BY <1>7, SettledByOtherStep DEF CustomerEnds
<1>8. CASE Payout
  <2>1. WithdrawNext /\ UNCHANGED <<deposits, overwritten>>
    BY <1>8 DEF Payout
  <2>2. PICK w : OnlyRowsOf(OfWithdraw(w), transactions, transactions')
    BY <2>1, PayoutRows
  <2>3. OfWithdraw(w)[1] # "deposits"
    BY DEF OfWithdraw
  <2> QED BY <2>1, <2>2, <2>3, SettledByRowsOfOthers
<1>9. CASE UNCHANGED paymentVars
  BY <1>9, SettledByOtherStep DEF paymentVars
<1> QED
  <2>1. ASSUME NEW h \in Handlers, HandlerStep(h) PROVE SettledInv'
    BY <2>1, <1>3, <1>4, <1>5, SettledByCancel, SettledBySettle DEF HandlerStep
  <2> QED BY <2>1, <1>1, <1>2, <1>3, <1>6, <1>7, <1>8, <1>9 DEF PaymentNext

(* Replayed, concurrent and contradicting callbacks of one deposit credit  *)
(* it once for being successful, and once more for each settlement that a  *)
(* failed callback overwrote: whatever the callbacks claim, and whenever   *)
(* they come.                                                              *)
THEOREM SettlesOnceUnlessOverwritten == PaymentSpec => []SettledOnceUnlessOverwritten
<1>1. PaymentInit => SettledInv
  <2> SUFFICES ASSUME PaymentInit PROVE SettledInv
    OBVIOUS
  <2>1. deposits = <<>> /\ \A d \in 1..MaxDeposits : overwritten[d] = 0
    BY DEF PaymentInit
  <2> QED BY <2>1 DEF SettledInv, SettledOnceUnlessOverwritten
<1>2. PaymentInv /\ PaymentInv' /\ SettledInv /\ [PaymentNext]_paymentVars => SettledInv'
  BY SettledNext
<1>3. SettledInv => SettledOnceUnlessOverwritten
  BY DEF SettledInv
<1> QED BY <1>1, <1>2, <1>3, PaymentInvariant, PTL DEF PaymentSpec

-----------------------------------------------------------------------------
(* Paying once from the wallet, while nobody edits orders: an order that   *)
(* was paid is not pending, and no handler makes an order pending again.   *)
AtMostOne(S) == \A s, t \in S : s = t

WalletChargesOf(o) == {t \in ChargesOfOrder(o) : transactions[t].source = NoSource}

PaidInv ==
  /\ \A o \in Orders :
       /\ AtMostOne(WalletChargesOf(o))
       /\ orders[o].status = "pending" => WalletChargesOf(o) = {}
  /\ \A h \in Handlers : calls[h].op # "edit"

NoOrderReopened ==
  \A o \in Orders : orders'[o].status = "pending" => orders[o].status = "pending"

LEMMA ChargesUndisturbed ==
  ASSUME NEW o, NEW source, source # NoSource,
         OnlyRowsOf(source, transactions, transactions')
  PROVE  WalletChargesOf(o)' = WalletChargesOf(o)
<1>1. \A t \in DOMAIN transactions' :
        transactions'[t].source = NoSource =>
          t \in DOMAIN transactions /\ transactions'[t] = transactions[t]
  BY DEF OnlyRowsOf
<1>2. \A t \in DOMAIN transactions :
        transactions[t].source = NoSource =>
          t \in DOMAIN transactions' /\ transactions'[t] = transactions[t]
  BY DEF OnlyRowsOf
<1> QED BY <1>1, <1>2 DEF WalletChargesOf, ChargesOfOrder, NoSource

LEMMA PaidUndisturbed ==
  ASSUME PaidInv, NEW source, source # NoSource,
         OnlyRowsOf(source, transactions, transactions'),
         NoOrderReopened,
         \A h \in Handlers : calls'[h].op # "edit"
  PROVE  PaidInv'
<1>1. \A o \in Orders : WalletChargesOf(o)' = WalletChargesOf(o)
  BY ChargesUndisturbed
<1>2. \A o \in Orders :
        /\ AtMostOne(WalletChargesOf(o)')
        /\ orders'[o].status = "pending" => WalletChargesOf(o)' = {}
  BY <1>1 DEF PaidInv, NoOrderReopened
<1> QED BY <1>2 DEF PaidInv, AtMostOne

LEMMA PaidByCallOnly ==
  ASSUME PaymentInv, PaidInv, NEW h \in Handlers, NEW call, call.op # "edit",
         calls' = [calls EXCEPT ![h] = call],
         transactions' = transactions, NoOrderReopened
  PROVE  PaidInv'
<1>1. \A g \in Handlers : calls'[g].op # "edit"
  BY CallTaken DEF PaidInv
<1>2. OnlyRowsOf(OfDeposit(0), transactions, transactions') /\ OfDeposit(0) # NoSource
  BY NoRows DEF OfDeposit, NoSource
<1> QED BY <1>1, <1>2, PaidUndisturbed

LEMMA PaidByPay ==
  ASSUME PaymentInv, PaidInv, NEW h \in Handlers, PayWithCredit(h)
  PROVE  PaidInv'
<1>1. calls' = [calls EXCEPT ![h] = Idle] /\ Idle.op # "edit"
  BY DEF PayWithCredit, Reply, Idle
<1>2. orders \in [Orders -> Order] /\ transactions \in Seq(Transaction)
  BY DEF PaymentInv, PaymentTypeOK, WithdrawTypeOK
<1>3. CASE transactions' = transactions
  <2>1. NoOrderReopened
    BY <1>2 DEF PayWithCredit, NoOrderReopened, Order
  <2> QED BY <1>1, <1>3, <2>1, PaidByCallOnly
<1>4. CASE transactions' # transactions
  <2>1. PICK o, row :
          /\ o = calls[h].order
          /\ row = OrderPaymentRow(OrderOwner[o], calls[h].amount, NoSource, o)
    OBVIOUS
  <2>2. /\ o \in Orders /\ orders[o].status = "pending" /\ row \in Transaction
        /\ transactions' = Append(transactions, row)
        /\ orders' = [orders EXCEPT ![o].status = "paid"]
    BY <1>4, <2>1, PayRows
  <2>3. row.order = o
    BY <2>1 DEF OrderPaymentRow, Row
  <2>4. PICK n :
          /\ DOMAIN transactions' = DOMAIN transactions \cup {n}
          /\ n \notin DOMAIN transactions
          /\ transactions'[n] = row
          /\ \A i \in DOMAIN transactions : transactions'[i] = transactions[i]
    BY <1>2, <2>2, InsertedRow
  <2>5. \A p \in Orders : WalletChargesOf(p)' \subseteq WalletChargesOf(p) \cup {n}
    BY <2>4 DEF WalletChargesOf, ChargesOfOrder, NoSource
  <2>6. \A p \in Orders : p # o => n \notin WalletChargesOf(p)'
    BY <2>3, <2>4 DEF WalletChargesOf, ChargesOfOrder, NoSource
  <2>7. WalletChargesOf(o) = {}
    BY <2>2 DEF PaidInv
  <2>8. /\ orders'[o].status = "paid"
        /\ \A p \in Orders : p # o => orders'[p] = orders[p]
    BY <1>2, <2>2 DEF Order
  <2>9. \A p \in Orders :
          /\ AtMostOne(WalletChargesOf(p)')
          /\ orders'[p].status = "pending" => WalletChargesOf(p)' = {}
    <3> TAKE p \in Orders
    <3>1. CASE p = o
      BY <2>5, <2>7, <2>8, <3>1 DEF AtMostOne
    <3>2. CASE p # o
      <4>1. WalletChargesOf(p)' \subseteq WalletChargesOf(p)
        BY <2>5, <2>6, <3>2
      <4> QED BY <2>8, <3>2, <4>1 DEF PaidInv, AtMostOne
    <3> QED BY <3>1, <3>2
  <2>10. \A g \in Handlers : calls'[g].op # "edit"
    BY <1>1, CallTaken DEF PaidInv
  <2> QED BY <2>9, <2>10 DEF PaidInv, AtMostOne
<1> QED BY <1>3, <1>4

LEMMA PaidNext ==
  ASSUME PaymentInv, PaidInv, ~ AdminEdits, [PaymentNext]_paymentVars
  PROVE  PaidInv'
<1>0. orders \in [Orders -> Order]
  BY DEF PaymentInv, PaymentTypeOK
<1>1. orders' = orders => NoOrderReopened
  BY DEF NoOrderReopened
<1>2. ASSUME NEW h \in Handlers, NEW o \in Orders,
             \/ \E g \in Gateways : ReadForGateway(h, o, g)
             \/ ReadForCredit(h, o)
             \/ LoadForEdit(h, o)
      PROVE  PaidInv'
  <2>1. ASSUME NEW g \in Gateways, ReadForGateway(h, o, g) PROVE PaidInv'
    BY <1>1, <2>1, PaidByCallOnly DEF ReadForGateway, Accept
  <2>2. CASE ReadForCredit(h, o)
    BY <1>1, <2>2, PaidByCallOnly DEF ReadForCredit, Accept
  <2>3. ~ LoadForEdit(h, o)
    BY DEF LoadForEdit
  <2> QED BY <1>2, <2>1, <2>2, <2>3
<1>3. ASSUME NEW h \in Handlers, NEW d \in DOMAIN deposits, Callback(h, d)
      PROVE  PaidInv'
  <2>1. PICK op \in {"verify", "cancel"} : calls' = [calls EXCEPT ![h] = [op |-> op, deposit |-> d]]
    BY <1>3 DEF Callback, Accept
  <2>2. transactions' = transactions /\ orders' = orders
    BY <1>3 DEF Callback
  <2> QED BY <1>1, <2>1, <2>2, PaidByCallOnly
<1>4. ASSUME NEW h \in Handlers, Abort(h) PROVE PaidInv'
  BY <1>1, <1>4, PaidByCallOnly DEF Abort, Reply, Idle
<1>5. ASSUME NEW h \in Handlers, SaveEdit(h) PROVE PaidInv'
  BY <1>5 DEF SaveEdit, In, PaidInv
<1>6. ASSUME NEW h \in Handlers, InsertGatewayDeposit(h) PROVE PaidInv'
  <2>1. /\ calls' = [calls EXCEPT ![h] = Idle] /\ Idle.op # "edit"
        /\ orders' = orders
    BY <1>6 DEF InsertGatewayDeposit, Reply, NewDeposit, Idle
  <2>2. CASE transactions' = transactions
    BY <1>1, <2>1, <2>2, PaidByCallOnly
  <2>3. CASE transactions' # transactions
    <3>1. /\ calls[h] \in Call /\ calls[h].op = "gateway"
      BY <1>6 DEF InsertGatewayDeposit, In, PaymentInv, PaymentTypeOK
    <3>2. /\ calls[h].order \in Orders /\ calls[h].gateway \in Gateways
          /\ calls[h].amount \in Amounts
      BY <3>1 DEF Call, Idle
    <3>3. OrderOwner[calls[h].order] \in Users
      BY <3>2, PaymentAssumption
    <3>4. NewDeposit(OrderOwner[calls[h].order], calls[h].order,
                     calls[h].gateway, calls[h].amount)
      BY <1>6, <2>3 DEF InsertGatewayDeposit
    <3>5. PICK d : OnlyRowsOf(OfDeposit(d), transactions, transactions')
      BY <3>2, <3>3, <3>4, NewDepositRows
    <3>6. OfDeposit(d) # NoSource /\ \A g \in Handlers : calls'[g].op # "edit"
      BY <2>1, CallTaken DEF OfDeposit, NoSource, PaidInv
    <3> QED BY <1>1, <2>1, <3>5, <3>6, PaidUndisturbed
  <2> QED BY <2>2, <2>3
<1>7. ASSUME NEW h \in Handlers, CancelDeposit(h) PROVE PaidInv'
  <2>1. NoOrderReopened
    BY <1>0, <1>7 DEF CancelDeposit, NoOrderReopened, Order
  <2> QED BY <1>7, <2>1, PaidByCallOnly DEF CancelDeposit, Reply, Idle
<1>8. ASSUME NEW h \in Handlers, VerifyAtGateway(h) PROVE PaidInv'
  BY <1>1, <1>8, PaidByCallOnly DEF VerifyAtGateway
<1>9. ASSUME NEW h \in Handlers, SettleDeposit(h) PROVE PaidInv'
  <2>1. calls' = [calls EXCEPT ![h] = Idle] /\ Idle.op # "edit"
    BY <1>9 DEF SettleDeposit, Reply, Idle
  <2>2. CASE AlreadySettled(calls[h].deposit) /\ deposits' = deposits
    BY <1>1, <1>9, <2>1, <2>2, PaidByCallOnly DEF SettleDeposit
  <2>3. CASE ~ AlreadySettled(calls[h].deposit)
    <3>1. PICK d \in DOMAIN deposits :
            /\ orders' = IF deposits[d].order = NoOrder
                         THEN orders
                         ELSE [orders EXCEPT ![deposits[d].order].status = "paid"]
            /\ \E k, n : \E spent \in BOOLEAN : SettledRows(d, k, n, spent)
      BY <1>9, <2>3, SettlementRows
    <3>2. NoOrderReopened
      BY <1>0, <3>1 DEF NoOrderReopened, Order
    <3>3. OnlyRowsOf(OfDeposit(d), transactions, transactions')
      BY <3>1 DEF SettledRows
    <3>4. OfDeposit(d) # NoSource /\ \A g \in Handlers : calls'[g].op # "edit"
      BY <2>1, CallTaken DEF OfDeposit, NoSource, PaidInv
    <3> QED BY <3>2, <3>3, <3>4, PaidUndisturbed
  <2> QED BY <1>9, <2>2, <2>3 DEF SettleDeposit
<1>10. ASSUME NEW u \in Users, NEW g \in Gateways, NEW a \in TopUpAmounts,
              RequestTopUp(u, g, a)
       PROVE  PaidInv'
  <2>1. a \in Amounts /\ NewDeposit(u, NoOrder, g, a) /\ calls' = calls
    BY <1>10, PaymentAssumption DEF RequestTopUp
  <2>2. PICK d : OnlyRowsOf(OfDeposit(d), transactions, transactions')
    BY <2>1, NewDepositRows
  <2>3. /\ OfDeposit(d) # NoSource /\ orders' = orders
        /\ \A h \in Handlers : calls'[h].op # "edit"
    BY <2>1 DEF OfDeposit, NoSource, PaidInv, NewDeposit
  <2> QED BY <1>1, <2>2, <2>3, PaidUndisturbed
<1>11. CASE Payout
  <2>1. WithdrawNext /\ orders' = orders /\ calls' = calls
    BY <1>11 DEF Payout
  <2>2. PICK w : OnlyRowsOf(OfWithdraw(w), transactions, transactions')
    BY <2>1, PayoutRows
  <2>3. /\ OfWithdraw(w) # NoSource
        /\ \A h \in Handlers : calls'[h].op # "edit"
    BY <2>1 DEF OfWithdraw, NoSource, PaidInv
  <2> QED BY <1>1, <2>1, <2>2, <2>3, PaidUndisturbed
<1>12. ASSUME UNCHANGED <<transactions, orders, calls>> PROVE PaidInv'
  <2>1. OnlyRowsOf(OfDeposit(0), transactions, transactions') /\ OfDeposit(0) # NoSource
    BY <1>12, NoRows DEF OfDeposit, NoSource
  <2>2. \A h \in Handlers : calls'[h].op # "edit"
    BY <1>12 DEF PaidInv
  <2> QED BY <1>1, <1>12, <2>1, <2>2, PaidUndisturbed
<1> QED
  <2>1. ASSUME NEW h \in Handlers, HandlerStep(h) PROVE PaidInv'
    BY <2>1, <1>5, <1>6, <1>7, <1>8, <1>9, PaidByPay DEF HandlerStep
  <2>2. ASSUME NEW d, NEW outcome, CustomerEnds(d, outcome) PROVE PaidInv'
    BY <2>2, <1>12 DEF CustomerEnds
  <2>3. CASE UNCHANGED paymentVars
    BY <2>3, <1>12 DEF paymentVars
  <2> QED BY <2>1, <2>2, <2>3, <1>2, <1>3, <1>4, <1>10, <1>11 DEF PaymentNext

(* While no admin edits orders, concurrent wallet payments of one order    *)
(* charge the wallet at most once, however stale the order each of them    *)
(* read.                                                                   *)
THEOREM PaysOnceFromWallet == ~ AdminEdits => (PaymentSpec => []CreditPaidOnce)
<1> SUFFICES ASSUME ~ AdminEdits PROVE PaymentSpec => []CreditPaidOnce
  OBVIOUS
<1>1. PaymentInit => PaidInv
  <2> SUFFICES ASSUME PaymentInit PROVE PaidInv
    OBVIOUS
  <2>1. transactions = <<>> /\ \A h \in Handlers : calls[h].op = "idle"
    BY DEF PaymentInit, WithdrawInit, LedgerInit, Idle
  <2>2. \A o \in Orders : WalletChargesOf(o) = {}
    BY <2>1 DEF WalletChargesOf, ChargesOfOrder
  <2> QED BY <2>1, <2>2 DEF PaidInv, AtMostOne
<1>2. PaymentInv /\ PaidInv /\ [PaymentNext]_paymentVars => PaidInv'
  BY PaidNext
<1>3. PaymentInv /\ PaidInv => CreditPaidOnce
  <2> SUFFICES ASSUME PaidInv, NEW o \in Orders
               PROVE  Cardinality(WalletChargesOf(o)) <= 1
    BY DEF CreditPaidOnce, WalletChargesOf
  <2>1. CASE WalletChargesOf(o) = {}
    BY <2>1, FS_EmptySet
  <2>2. CASE WalletChargesOf(o) # {}
    <3>1. PICK k : k \in WalletChargesOf(o)
      BY <2>2
    <3>2. \A j \in WalletChargesOf(o) : j = k
      BY <3>1 DEF PaidInv, AtMostOne
    <3>3. WalletChargesOf(o) = {k}
      BY <3>1, <3>2
    <3>4. Cardinality({k}) = 1
      BY FS_Singleton
    <3> QED BY <3>3, <3>4
  <2> QED BY <2>1, <2>2
<1> QED BY <1>1, <1>2, <1>3, PaymentInvariant, PTL DEF PaymentSpec

(* Next to orders, deposits, callbacks and charges, the wallet keeps       *)
(* PayoutPromise: no payment path of DepositsService touches the money of  *)
(* a request, and reviewWithdraw pays out or returns exactly that money.   *)
THEOREM PromiseNextToPayments == PaymentSpec => KeepsPayoutPromise
<1>1. PaymentInit => Promise!PromiseInit
  BY PromiseInitially DEF PaymentInit
<1>2. ASSUME PaymentInv, PaymentInv', [PaymentNext]_paymentVars
      PROVE  [Promise!PromiseNext \/ Promise!EarnOrSpend]_Promise!promiseVars
  <2>1. CASE Payout
    BY <1>2, <2>1, PayoutKeepsPromise DEF Payout, PaymentInv
  <2>2. CASE withdraws' = withdraws
    <3>1. wallets' \in [Users -> Wallet]
      BY <1>2 DEF PaymentInv, WithdrawInv, WithdrawTypeOK
    <3> QED BY <2>2, <3>1, OtherBusiness
  <2>3. ASSUME PaymentNext PROVE Payout \/ withdraws' = withdraws
    <3>1. ASSUME NEW h \in Handlers, HandlerStep(h) PROVE withdraws' = withdraws
      BY <3>1 DEF HandlerStep, InsertGatewayDeposit, NewDeposit, PayWithCredit,
                  CancelDeposit, VerifyAtGateway, SettleDeposit, SaveEdit
    <3>2. ASSUME NEW h \in Handlers, NEW o \in Orders,
                 \/ \E g \in Gateways : ReadForGateway(h, o, g)
                 \/ ReadForCredit(h, o)
                 \/ LoadForEdit(h, o)
          PROVE  withdraws' = withdraws
      BY <3>2 DEF ReadForGateway, ReadForCredit, LoadForEdit
    <3>3. ASSUME NEW h \in Handlers, NEW d \in DOMAIN deposits, Callback(h, d)
          PROVE  withdraws' = withdraws
      BY <3>3 DEF Callback
    <3>4. ASSUME NEW h \in Handlers, Abort(h) PROVE withdraws' = withdraws
      BY <3>4 DEF Abort
    <3>5. ASSUME NEW u \in Users, NEW g \in Gateways, NEW a \in TopUpAmounts,
                 RequestTopUp(u, g, a)
          PROVE  withdraws' = withdraws
      BY <3>5 DEF RequestTopUp, NewDeposit
    <3>6. ASSUME NEW d \in DOMAIN deposits, NEW outcome \in {"paid", "cancelled"},
                 CustomerEnds(d, outcome)
          PROVE  withdraws' = withdraws
      BY <3>6 DEF CustomerEnds
    <3> QED BY <2>3, <3>1, <3>2, <3>3, <3>4, <3>5, <3>6 DEF PaymentNext
  <2>4. CASE UNCHANGED paymentVars
    BY <2>2, <2>4 DEF paymentVars
  <2> QED BY <1>2, <2>1, <2>2, <2>3, <2>4
<1> QED BY <1>1, <1>2, PaymentInvariant, PTL
        DEF PaymentSpec, KeepsPayoutPromise, Promise!PromiseSpec
=============================================================================
