--------------------------- MODULE PayoutPromise ---------------------------
(***************************************************************************)
(* What the wallet promises about payouts, with no tables, no ledger and   *)
(* no locks: a request takes its amount out of what the user can spend;    *)
(* the money then either leaves the shop, once, or comes back, once.       *)
(* The rest of the business goes on next to it and cannot touch the money  *)
(* of a request.                                                           *)
(***************************************************************************)
EXTENDS Integers

CONSTANTS Users, Opening, MaxRequests

VARIABLES
  spendable,  \* spendable[u]: what u can spend or ask for
  held,       \* requests under review
  paid,       \* requests whose money left the shop
  returned    \* requests whose money went back

promiseVars == <<spendable, held, paid, returned>>

Request == [id : 1..MaxRequests, user : Users, amount : Nat \ {0}]

PromiseInit ==
  /\ spendable = Opening
  /\ held = {}
  /\ paid = {}
  /\ returned = {}

Hold(r) ==
  /\ \A q \in held \cup paid \cup returned : q.id # r.id
  /\ spendable[r.user] >= r.amount
  /\ spendable' = [spendable EXCEPT ![r.user] = @ - r.amount]
  /\ held' = held \cup {r}
  /\ UNCHANGED <<paid, returned>>

PayOut(r) ==
  /\ held' = held \ {r}
  /\ paid' = paid \cup {r}
  /\ UNCHANGED <<spendable, returned>>

Return(r) ==
  /\ held' = held \ {r}
  /\ returned' = returned \cup {r}
  /\ spendable' = [spendable EXCEPT ![r.user] = @ + r.amount]
  /\ UNCHANGED paid

PromiseNext ==
  \/ \E i \in 1..MaxRequests, u \in Users :
       \E a \in 1..spendable[u] : Hold([id |-> i, user |-> u, amount |-> a])
  \/ \E r \in held : PayOut(r)
  \/ \E r \in held : Return(r)

(* The promise stands next to other business: income and purchases change  *)
(* what is spendable, and leave every request alone.                       *)
EarnOrSpend ==
  /\ spendable' \in [Users -> Nat]
  /\ UNCHANGED <<held, paid, returned>>

PromiseSpec == PromiseInit /\ [][PromiseNext \/ EarnOrSpend]_promiseVars
=============================================================================
