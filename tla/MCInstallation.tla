--------------------------- MODULE MCInstallation ---------------------------
EXTENDS Installation

Src(t, n, no, key, of, val) == [id |-> <<t, n>>, no |-> no, key |-> key, of |-> of, val |-> val]

(* A brand by the name of a seed, and one by its number; two users of one  *)
(* name; a category by the number and one by the name of a seed; a value   *)
(* twice; the product with the number of a seed.                           *)
MCSource ==
  [brand |-> <<<<Src("brand", 100, 7, "sony", None, ""),
                 Src("brand", 101, 101, "canon", None, "")>>>>,
   user |-> <<<<Src("user", 100, 1, "anna", None, {"seller"})>>,
              <<Src("user", 101, 2, "anna", None, {"seller", "admin"})>>>>,
   attribute |-> <<<<Src("attribute", 100, 1, "weight", None, ""),
                     Src("attribute", 101, 5, "storage", None, "")>>>>,
   value |-> <<<<Src("value", 100, 8, "1kg", <<"attribute", 100>>, ""),
                 Src("value", 101, 9, "1kg", <<"attribute", 100>>, "")>>>>,
   category |-> <<<<Src("category", 100, 1, "lenses", None, "")>>,
                  <<Src("category", 101, 2, "photo-cameras", None, "")>>>>,
   sub |-> <<<<Src("sub", 100, 3, "prime", <<"category", 101>>, ""),
               Src("sub", 101, 4, "lost", None, "")>>>>,
   country |-> <<<<Src("country", 100, 1, "IR", None, "")>>>>,
   state |-> <<<<Src("state", 100, 1, "THR", <<"country", 100>>, "")>>>>,
   city |-> <<<<Src("city", 100, 1, "Tehran", <<"country", 100>>, <<"state", 100>>)>>>>,
   seller |-> <<<<Src("seller", 100, 1, "anna", None, "")>>>>,
   product |-> <<<<Src("product", 100, 5, "lens", None, 1)>>,
                 <<Src("product", 101, 100, "body", None, 3)>>>>,
   offer |-> <<<<Src("offer", 100, 1, "lens of anna", 5, <<"seller", 100>>)>>>>]

MCMaxEvents ==
  [o \in Origins |-> IF o = "fresh" THEN 3 ELSE 2]
=============================================================================
