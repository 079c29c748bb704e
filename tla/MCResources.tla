---------------------------- MODULE MCResources ----------------------------
(* Resources for TLC: every choice of three requests about the money of    *)
(* two users, or two operations on files.                                  *)
EXTENDS Resources, TLC

CONSTANTS u1, u2, d1, d2, d3, o1, w1

Handler(kind, of) == [kind |-> kind, of |-> of]

Menu ==
  <<Handler("settle", d1), Handler("settle", d2), Handler("settle", d3),
    Handler("pay", o1), Handler("withdraw", u1), Handler("withdraw", u2),
    Handler("approve", w1), Handler("reject", w1)>>

(* Requests are alike: which of them is about what does not matter.        *)
ThreeOfMenu ==
  {[r \in 1..3 |-> Menu[f[r]]] :
     f \in {f \in [1..3 -> DOMAIN Menu] : f[1] <= f[2] /\ f[2] <= f[3]}}

OneEach == (u1 :> 1) @@ (u2 :> 1)
OneWalletMissing == (u1 :> [amount |-> 1, lockedAmount |-> 1]) @@ (u2 :> NoWallet)
Owners == (d1 :> u1) @@ (d2 :> u1) @@ (d3 :> u2) @@ (o1 :> u1) @@ (w1 :> u1)
OneForAnOrder == (d1 :> o1) @@ (d2 :> NoOrder) @@ (d3 :> NoOrder)
=============================================================================
