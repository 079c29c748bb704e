----------------------------- MODULE MCCatalog -----------------------------
(* A small catalogue: two categories, one with a sub-category, a product   *)
(* on offer, linked to the other, a brand that is not active, and a row or *)
(* two of the rest.                                                        *)
EXTENDS Reference, TLC

CONSTANTS a, b

First(t) ==
  CASE t = "parent" -> <<Plain(a, NoRefs)>>
    [] t = "category" -> <<Plain(a, [parent |-> <<"parent", 1>>]),
                           Plain(b, [parent |-> <<"parent", 1>>])>>
    [] t = "sub" -> <<Plain(a, [category |-> <<"category", 2>>])>>
    [] t = "product" -> <<Numbered(a, [brand |-> None, shipping |-> None], TRUE, 1)>>
    [] t = "stock" -> <<ProductStock(<<"product", 1>>)>>
    [] t = "link" -> <<ProductCategory([product |-> <<"product", 1>>, category |-> <<"category", 1>>,
                             sub |-> None], TRUE)>>
    [] t = "offer" -> <<Plain(None, [product |-> <<"product", 1>>])>>
    [] t = "attribute" -> <<Numbered(a, NoRefs, FALSE, 1)>>
    [] t = "value" -> <<Numbered(a, [attribute |-> <<"attribute", 1>>], FALSE, 1)>>
    [] t = "brand" -> <<Numbered(a, NoRefs, FALSE, 1)>>
    [] t = "shipping" -> <<[Plain(a, NoRefs) EXCEPT !.flag = TRUE]>>
    [] t = "country" -> <<Plain(a, NoRefs), Plain(b, NoRefs)>>
    [] t = "state" -> <<Plain(a, [country |-> <<"country", 1>>]),
                        Plain(a, [country |-> <<"country", 2>>])>>
    [] t = "city" -> <<City(<<"country", 1>>, None)>>
    [] t = "banner" -> <<Banner([key |-> a, category |-> None])>>
    [] t = "settings" -> <<Settings(FALSE)>>
    [] t = "user" -> <<Plain(None, NoRefs)>>
    [] OTHER -> <<>>

MCFirstRows == [t \in TableNames |-> First(t)]

(* Room for what two requests may add.                                     *)
Adds(t) ==
  CASE t \in {"product", "stock", "link", "brand", "attribute", "value", "subscription"} -> 2
    [] t \in {"offer", "user"} -> 0
    [] OTHER -> 1

MCSlots == [t \in TableNames |-> Len(First(t)) + Adds(t)]

CatalogSymmetry == Permutations(Handlers)
=============================================================================
