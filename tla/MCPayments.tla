----------------------------- MODULE MCPayments -----------------------------
(* Payments on small instances: the wallets, owners and gateways of the    *)
(* configurations.                                                         *)
EXTENDS Payments, TLC

CONSTANTS u1, o1, zibal, zarinpal, h1, h2, h3

OneUserOpening == u1 :> 2
OneUserOwns == [o \in Orders |-> u1]

HandlerSymmetry == Permutations(Handlers)
=============================================================================
