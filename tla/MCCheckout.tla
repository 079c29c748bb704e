----------------------------- MODULE MCCheckout -----------------------------
(* Checkout with two offers of one product, or one offer.                  *)
EXTENDS Checkout, TLC

CONSTANTS ann, bob, phone, a, b, h1, h2

AllPhone == [o \in Offers |-> phone]
TwoEach == [o \in Offers |-> 2]
ThreePhones == phone :> 3

PlentyEach == [o \in Offers |-> 4]
PlentyPhones == phone :> 4

RequestSymmetry == Permutations(Handlers)
=============================================================================
