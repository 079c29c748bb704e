------------------------------ MODULE Payments ------------------------------
(***************************************************************************)
(* DepositsService: paying an order through a gateway or from the wallet,  *)
(* charging the wallet, and the gateway callbacks, next to the payouts of  *)
(* Withdrawals and to OrdersService.updateAdmin.                           *)
(*                                                                         *)
(* A handler reads the row it works on outside any transaction, calls the  *)
(* gateway, and only then opens the database transaction that changes the  *)
(* tables.  Each of those pieces is an action; calls[h] holds what handler *)
(* h carries from one to the next, so everything can change in between.    *)
(* A database transaction is one action: every table row it decides on is  *)
(* locked (SELECT ... FOR UPDATE) or tested by the UPDATE that changes it. *)
(***************************************************************************)
EXTENDS Withdrawals, FiniteSets

CONSTANTS
  OrderOwner,       \* orders.userId
  OrderAmounts,     \* amounts an order may have
  Gateways,         \* the payment gateways
  AdminEdits,       \* TRUE if admins edit orders
  TopUpAmounts,     \* amounts a wallet may be charged with
  Handlers,         \* concurrent requests
  MaxDeposits,      \* bound: rows of deposits explored
  MaxOverwritten,   \* bound: settlements of one deposit overwritten, explored
  MaxTransactions   \* bound: rows of transactions explored

ASSUME PaymentAssumption ==
  /\ OrderOwner \in [Orders -> Users]
  /\ OrderAmounts \subseteq Amounts
  /\ TopUpAmounts \subseteq Amounts
  /\ AdminEdits \in BOOLEAN
  /\ MaxDeposits \in Nat
  /\ MaxOverwritten \in Nat
  /\ MaxTransactions \in Nat

VARIABLES
  orders,    \* orders[o] = [status, amount]
  deposits,  \* the rows of deposits; trackId is the row number
  sessions,  \* the gateways: the payment page of each deposit
  calls,     \* the request each handler is in the middle of
  overwritten
    \* history: how often a failed callback overwrote a settled deposit

paymentVars ==
  <<wallets, transactions, withdraws, orders, deposits, sessions, calls, overwritten>>

Order == [status : {"pending", "paid", "failed", "cancelled"}, amount : Amounts]

Deposit ==
  [user : Users, order : Orders \cup {NoOrder}, gateway : Gateways,
   amount : Amounts, status : {"pending", "success", "failed"}]

Session == {"open", "paid", "cancelled", "verified"}

Idle == [op |-> "idle"]

Call ==
  {Idle}
  \cup [op : {"gateway"}, order : Orders, gateway : Gateways, amount : Amounts]
  \cup [op : {"credit"}, order : Orders, amount : Amounts]
  \cup [op : {"cancel", "verify", "settle"}, deposit : 1..MaxDeposits]
  \cup [op : {"edit"}, order : Orders, loaded : Order]

-----------------------------------------------------------------------------
Accept(h, call) ==
  /\ calls[h] = Idle
  /\ calls' = [calls EXCEPT ![h] = call]

Reply(h) == calls' = [calls EXCEPT ![h] = Idle]

In(h, op) == calls[h].op = op

(* requirePayableOrder, then provider.requestPayment.                      *)
ReadForGateway(h, o, g) ==
  /\ orders[o].status = "pending"
  /\ Accept(h, [op |-> "gateway", order |-> o, gateway |-> g, amount |-> orders[o].amount])
  /\ UNCHANGED <<wallets, transactions, withdraws, orders, deposits, sessions, overwritten>>

NewDeposit(u, o, g, a) ==
  /\ Len(deposits) < MaxDeposits
  /\ Len(transactions) < MaxTransactions
  /\ deposits' = Append(deposits, [user |-> u, order |-> o, gateway |-> g,
                                   amount |-> a, status |-> "pending"])
  /\ sessions' = Append(sessions, "open")
  /\ transactions' =
       Append(transactions,
              Row(u, a, "credit", "DEPOSIT", OfDeposit(Len(deposits) + 1), o, "pending"))
  /\ UNCHANGED <<wallets, withdraws, orders, overwritten>>

(* The transaction of createOrderGatewayDeposit: an open deposit of this   *)
(* user for this order and gateway is handed out again; an order with a    *)
(* successful deposit is refused.  The order itself is not read again.     *)
InsertGatewayDeposit(h) ==
  /\ In(h, "gateway")
  /\ LET c == calls[h]
         u == OrderOwner[c.order]
         reusable == {d \in DOMAIN deposits :
                        /\ deposits[d].user = u
                        /\ deposits[d].order = c.order
                        /\ deposits[d].gateway = c.gateway
                        /\ deposits[d].status = "pending"}
         settled == {d \in DOMAIN deposits :
                       deposits[d].order = c.order /\ deposits[d].status = "success"}
     IN  \/ /\ reusable \cup settled # {}
            /\ UNCHANGED <<wallets, transactions, withdraws, orders, deposits, sessions,
                           overwritten>>
         \/ /\ reusable \cup settled = {}
            /\ NewDeposit(u, c.order, c.gateway, c.amount)
  /\ Reply(h)

(* createWalletTopUp decides nothing on the database: one action.          *)
RequestTopUp(u, g, a) ==
  /\ NewDeposit(u, NoOrder, g, a)
  /\ UNCHANGED calls

-----------------------------------------------------------------------------
(* payOrderWithCredit: requirePayableOrder, then a transaction that locks  *)
(* the order, refuses unless it is still pending, and charges the amount   *)
(* read before.                                                            *)
ReadForCredit(h, o) ==
  /\ orders[o].status = "pending"
  /\ Accept(h, [op |-> "credit", order |-> o, amount |-> orders[o].amount])
  /\ UNCHANGED <<wallets, transactions, withdraws, orders, deposits, sessions, overwritten>>

(* Mutant: the order is not read again under its lock.                     *)
StillPayableUnchecked(o) == TRUE

StillPayable(o) == orders[o].status = "pending"

(* Mutant: the debit is left pending.                                      *)
OrderPaymentRowPending(u, a, source, o) ==
  Row(u, a, "debit", "ORDER_PAYMENT", source, o, "pending")

(* The debit of an order payment, inserted as pending and marked executed  *)
(* before the transaction commits.                                         *)
OrderPaymentRow(u, a, source, o) ==
  Row(u, a, "debit", "ORDER_PAYMENT", source, o, "executed")

PayWithCredit(h) ==
  /\ In(h, "credit")
  /\ LET o == calls[h].order
         a == calls[h].amount
         u == OrderOwner[o]
         charge == StillPayable(o) /\ CanSpend(wallets[u], a)
     IN  \/ /\ ~charge
            /\ UNCHANGED <<wallets, transactions, orders>>
         \/ /\ charge
            /\ Len(transactions) < MaxTransactions
            /\ wallets' = [wallets EXCEPT ![u] = Decrement(@, a)]
            /\ transactions' = Append(transactions, OrderPaymentRow(u, a, NoSource, o))
            /\ orders' = [orders EXCEPT ![o].status = "paid"]
  /\ Reply(h)
  /\ UNCHANGED <<withdraws, deposits, sessions, overwritten>>

-----------------------------------------------------------------------------
(* verifyGatewayDeposit.  The verify routes are public GETs, meant for the *)
(* redirect of the customer's browser, and the outcome is a parameter of   *)
(* the query.  Whatever the gateway knows, a callback may claim success or *)
(* failure, come early, twice, much later or beside another; a claim of    *)
(* success is put to the gateway (verifyPayment), a claim of failure is    *)
(* believed.  The deposit is looked up by trackId; one that is already     *)
(* successful is answered at once.                                         *)
Callback(h, d) ==
  /\ deposits[d].status # "success"
  /\ \E op \in {"verify", "cancel"} : Accept(h, [op |-> op, deposit |-> d])
  /\ UNCHANGED <<wallets, transactions, withdraws, orders, deposits, sessions, overwritten>>

(* The transaction of a failed callback: neither row is tested again, so  *)
(* a deposit settled since it was looked up is marked failed.              *)
CancelDeposit(h) ==
  /\ In(h, "cancel")
  /\ LET d == calls[h].deposit
         o == deposits[d].order
     IN  /\ deposits' = [deposits EXCEPT ![d].status = "failed"]
         /\ orders' = [p \in Orders |->
                         IF p = o THEN [orders[p] EXCEPT !.status = "failed"]
                                  ELSE orders[p]]
         /\ \/ /\ deposits[d].status # "success"
               /\ UNCHANGED overwritten
            \/ /\ deposits[d].status = "success"
               /\ overwritten[d] < MaxOverwritten
               /\ overwritten' = [overwritten EXCEPT ![d] = @ + 1]
  /\ Reply(h)
  /\ UNCHANGED <<wallets, transactions, withdraws, sessions>>

(* Mutant: the callback's own claim is enough.                             *)
AcceptedUnasked(d) == TRUE
(* Mutant: result 201, verified before, is taken for an error.             *)
AcceptedFirstTime(d) == sessions[d] = "paid"

(* provider.verifyPayment: result 100 (verified now) or 201 (before).  The *)
(* gateway remembers that it was asked about a payment made.               *)
Accepted(d) == sessions[d] \in {"paid", "verified"}

VerifyAtGateway(h) ==
  /\ In(h, "verify")
  /\ LET d == calls[h].deposit
     IN  /\ Accepted(d)
         /\ sessions' = [sessions EXCEPT ![d] = IF @ = "paid" THEN "verified" ELSE @]
         /\ calls' = [calls EXCEPT ![h] = [op |-> "settle", deposit |-> d]]
  /\ UNCHANGED <<wallets, transactions, withdraws, orders, deposits, overwritten>>

(* Mutant: no row is added when none is pending.                           *)
WithPendingExecuted(d) ==
  UpdateTransactions(transactions,
                     FindPendingBySource(transactions, OfDeposit(d)), "executed")

(* Mutant: the status is not read again under the lock.                    *)
AlreadySettledUnchecked(d) == FALSE

(* The pending row of the deposit becomes executed; when there is none, an *)
(* executed row is added.                                                  *)
WithDepositExecuted(d) ==
  LET pending == FindPendingBySource(transactions, OfDeposit(d))
      p == deposits[d]
  IN  IF pending # {}
      THEN UpdateTransactions(transactions, pending, "executed")
      ELSE Append(transactions,
             Row(p.user, p.amount, "credit", "DEPOSIT", OfDeposit(d), p.order, "executed"))

AlreadySettled(d) == deposits[d].status = "success"

(* The settling transaction: locks the deposit, charges the wallet, and    *)
(* for the deposit of an order spends the same amount on it again.         *)
SettleDeposit(h) ==
  /\ In(h, "settle")
  /\ LET d == calls[h].deposit
         p == deposits[d]
         charged == Increment(wallets[p.user], p.amount)
     IN  \/ /\ AlreadySettled(d)
            /\ UNCHANGED <<wallets, transactions, orders, deposits>>
         \/ /\ ~AlreadySettled(d)
            /\ Len(transactions) + 2 <= MaxTransactions
            /\ deposits' = [deposits EXCEPT ![d].status = "success"]
            /\ \/ /\ p.order = NoOrder
                  /\ wallets' = [wallets EXCEPT ![p.user] = charged]
                  /\ transactions' = WithDepositExecuted(d)
                  /\ UNCHANGED orders
               \/ /\ p.order # NoOrder
                  /\ CanSpend(charged, p.amount)
                  /\ wallets' = [wallets EXCEPT ![p.user] = Decrement(charged, p.amount)]
                  /\ transactions' =
                       Append(WithDepositExecuted(d),
                              OrderPaymentRow(p.user, p.amount, OfDeposit(d), p.order))
                  /\ orders' = [orders EXCEPT ![p.order].status = "paid"]
  /\ Reply(h)
  /\ UNCHANGED <<withdraws, sessions, overwritten>>

-----------------------------------------------------------------------------
(* updateAdmin: load the order, edit it in memory, save it.  save() writes *)
(* every column that differs from the stored row, so a column the admin    *)
(* did not edit goes back to the value loaded before.                      *)
LoadForEdit(h, o) ==
  /\ AdminEdits
  /\ Accept(h, [op |-> "edit", order |-> o, loaded |-> orders[o]])
  /\ UNCHANGED <<wallets, transactions, withdraws, orders, deposits, sessions, overwritten>>

SaveEdit(h) ==
  /\ In(h, "edit")
  /\ LET o == calls[h].order
         old == calls[h].loaded
     IN  \/ \E s \in {"pending", "paid", "failed", "cancelled"} :
              orders' = [orders EXCEPT ![o] = [old EXCEPT !.status = s]]
         \/ \E a \in OrderAmounts :
              orders' = [orders EXCEPT ![o] = [old EXCEPT !.amount = a]]
  /\ Reply(h)
  /\ UNCHANGED <<wallets, transactions, withdraws, deposits, sessions, overwritten>>

(* A handler ends early: the gateway or the database throws, its           *)
(* transaction is the victim of a deadlock, or the process restarts.  An   *)
(* open transaction is rolled back, and nothing remembers the request.     *)
Abort(h) ==
  /\ calls[h] # Idle
  /\ Reply(h)
  /\ UNCHANGED <<wallets, transactions, withdraws, orders, deposits, sessions, overwritten>>

(* The customer, at the gateway's payment page.                            *)
CustomerEnds(d, outcome) ==
  /\ sessions[d] = "open"
  /\ sessions' = [sessions EXCEPT ![d] = outcome]
  /\ UNCHANGED <<wallets, transactions, withdraws, orders, deposits, calls, overwritten>>

Payout ==
  /\ Len(transactions) < MaxTransactions
  /\ WithdrawNext
  /\ UNCHANGED <<orders, deposits, sessions, calls, overwritten>>
-----------------------------------------------------------------------------
PaymentInit ==
  /\ WithdrawInit
  /\ orders \in [Orders -> [status : {"pending"}, amount : OrderAmounts]]
  /\ deposits = <<>>
  /\ sessions = <<>>
  /\ calls = [h \in Handlers |-> Idle]
  /\ overwritten = [d \in 1..MaxDeposits |-> 0]

HandlerStep(h) ==
  \/ InsertGatewayDeposit(h)
  \/ PayWithCredit(h)
  \/ CancelDeposit(h)
  \/ VerifyAtGateway(h)
  \/ SettleDeposit(h)
  \/ SaveEdit(h)

PaymentNext ==
  \/ \E h \in Handlers :
       \/ \E o \in Orders :
            \/ \E g \in Gateways : ReadForGateway(h, o, g)
            \/ ReadForCredit(h, o)
            \/ LoadForEdit(h, o)
       \/ \E d \in DOMAIN deposits : Callback(h, d)
       \/ HandlerStep(h)
       \/ Abort(h)
  \/ \E u \in Users, g \in Gateways, a \in TopUpAmounts : RequestTopUp(u, g, a)
  \/ \E d \in DOMAIN deposits, outcome \in {"paid", "cancelled"} : CustomerEnds(d, outcome)
  \/ Payout

PaymentSpec == PaymentInit /\ [][PaymentNext]_paymentVars

(* A callback that is retried is not interrupted every time: the gateway   *)
(* answers and the transaction commits for some of the attempts.           *)
PaymentFairSpec ==
  /\ PaymentSpec
  /\ \A h \in Handlers, d \in 1..MaxDeposits :
       /\ SF_paymentVars(VerifyAtGateway(h) /\ calls[h].deposit = d)
       /\ SF_paymentVars(SettleDeposit(h) /\ calls[h].deposit = d)

-----------------------------------------------------------------------------
(* Types of all tables, sessions and of what the handlers carry.           *)
PaymentTypeOK ==
  /\ WithdrawTypeOK
  /\ orders \in [Orders -> Order]
  /\ deposits \in Seq(Deposit)
  /\ sessions \in Seq(Session)
  /\ Len(sessions) = Len(deposits)
  /\ Len(deposits) <= MaxDeposits
  /\ calls \in [Handlers -> Call]
  /\ overwritten \in [1..MaxDeposits -> Nat]

ExecutedRows(sourceType, source) ==
  {t \in DOMAIN transactions :
     /\ transactions[t].sourceType = sourceType
     /\ transactions[t].source = source
     /\ transactions[t].state = "executed"}

CreditsOf(d) == ExecutedRows("DEPOSIT", OfDeposit(d))
ChargesOf(d) == ExecutedRows("ORDER_PAYMENT", OfDeposit(d))

(* A wallet is only ever credited with money a gateway confirmed, with the *)
(* amount and for the user of the deposit: whatever order callbacks,       *)
(* verifications and settlements of one deposit come in, and whichever of  *)
(* them are lost.                                                          *)
CreditBackedByGateway ==
  \A d \in DOMAIN deposits :
    \A t \in CreditsOf(d) :
      /\ sessions[d] = "verified"
      /\ transactions[t].user = deposits[d].user
      /\ transactions[t].amount = deposits[d].amount

(* "First the credit is charged, then it is deducted": every credit of an  *)
(* order's deposit is spent on that order in the same transaction, so the  *)
(* two kinds of rows are equally many; a charge of the wallet alone is     *)
(* spent on nothing.                                                       *)
GatewayMoneyInThenOut ==
  \A d \in DOMAIN deposits :
    Cardinality(ChargesOf(d)) =
      IF deposits[d].order = NoOrder THEN 0 ELSE Cardinality(CreditsOf(d))

(* Replayed and concurrent callbacks of one deposit settle it once: a      *)
(* deposit is credited once for being successful now, and once more for    *)
(* each time a failed callback, which had looked it up before it was       *)
(* settled, marked the settled deposit failed.  Nothing else settles one a *)
(* second time, and no settlement is without its credit.                   *)
SettledOnceUnlessOverwritten ==
  \A d \in DOMAIN deposits :
    Cardinality(CreditsOf(d)) =
      overwritten[d] + (IF deposits[d].status = "success" THEN 1 ELSE 0)

ChargesOfOrder(o) ==
  {t \in DOMAIN transactions :
     /\ transactions[t].sourceType = "ORDER_PAYMENT"
     /\ transactions[t].order = o
     /\ transactions[t].state = "executed"}

(* Concurrent wallet payments of one order: at most one succeeds, however  *)
(* stale the order each of them read.                                      *)
CreditPaidOnce ==
  \A o \in Orders : Cardinality({t \in ChargesOfOrder(o) : transactions[t].source = NoSource}) <= 1

(* A second payment of a paid order is refused: of the deposits opened for *)
(* one order, at whichever gateways, at most one is settled.               *)
PaidByOneDeposit ==
  \A o \in Orders :
    Cardinality({d \in DOMAIN deposits :
                   deposits[d].order = o /\ deposits[d].status = "success"}) <= 1

(* Next to orders, deposits and callbacks, the wallet still keeps the      *)
(* payout promise: no payment path touches the money of a request.         *)
KeepsPayoutPromise == Promise!PromiseSpec

(* A paid deposit is credited in the end if its success callback keeps     *)
(* coming back, even when earlier attempts died between the gateway's      *)
(* verification and the settlement: verifying again is accepted (201), and *)
(* nothing an attempt leaves behind keeps a later one from settling.       *)
RetriedCallbackRecovers ==
  \A d \in 1..MaxDeposits :
    /\ <>(d \in DOMAIN sessions /\ sessions[d] = "paid")
    /\ []<>(\E h \in Handlers : calls[h] = [op |-> "verify", deposit |-> d])
    => <>(d \in DOMAIN deposits /\ CreditsOf(d) # {})
=============================================================================
