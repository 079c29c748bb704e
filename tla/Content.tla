------------------------------ MODULE Content ------------------------------
(***************************************************************************)
(* The rows that a start of the server puts into a migrated database, next *)
(* to rows that people and imports have put there.                         *)
(*                                                                         *)
(* A row has a table, an id, the number it had in the shop that was there  *)
(* before (0 where it had none), a key (slug, name or user name), the row  *)
(* it belongs to, and what else the properties tell apart.                 *)
(***************************************************************************)
EXTENDS Integers, FiniteSets, Sequences

None == <<"none", 0>>

Row(t, id, no, key, of, val) ==
  [t |-> t, id |-> id, no |-> no, key |-> key, of |-> of, val |-> val]

RowsIn(t, rows) == {r \in rows : r.t = t}
IdsIn(rows) == {r.id : r \in rows}

(* A ULID that nothing knows: ids made on this side stay below the ids of  *)
(* the source.                                                             *)
FirstSourceId == 100
FreshId(t, used) ==
  <<t, CHOOSE n \in 1..FirstSourceId - 1 :
         <<t, n>> \notin used /\ \A m \in 1..n - 1 : <<t, m>> \in used>>

NumberUnique == {"attribute", "value", "brand", "product", "seller", "admin", "offer"}
KeyUnique ==
  {"role", "shipping", "parent", "category", "brand", "seller", "admin", "user", "country"}
KeyUniqueWithin == {"value", "sub", "state"}

Clashes(row, rows) ==
  \E r \in RowsIn(row.t, rows) :
    /\ r.id # row.id
    /\ \/ row.t \in NumberUnique /\ row.no > 0 /\ r.no = row.no
       \/ row.t \in KeyUnique /\ r.key = row.key
       \/ row.t \in KeyUniqueWithin /\ r.key = row.key /\ r.of = row.of
       \/ row.t = "stock" /\ r.of = row.of
       \/ row.t = "link" /\ r.of = row.of /\ r.val = row.val

(* The reference of a value to its attribute is not enforced any more.     *)
Dangles(row, rows) == row.t # "value" /\ row.of # None /\ row.of \notin IdsIn(rows)

Allowed(row, rows) == ~Clashes(row, rows) /\ ~Dangles(row, rows)

Put1(row, rows) == {r \in rows : r.id # row.id} \cup {row}

(* What goes with a row, and what keeps it.                                *)
BelongsTo(r, id) ==
  \/ r.t \in {"sub", "stock", "link", "state"} /\ r.of = id
  \/ r.t = "link" /\ r.val = id
Removed(id, rows) ==
  LET near == {r.id : r \in {x \in rows : BelongsTo(x, id)}} \cup {id}
      all == near \cup {r.id : r \in {x \in rows : \E i \in near : BelongsTo(x, i)}}
  IN  {r \in rows : r.id \notin all}
Held(id, rows) ==
  \E r \in rows : r.t \in {"category", "offer"} /\ r.of = id

-----------------------------------------------------------------------------
(* The seeds, in the order in which they are looked for: one of each kind. *)
Seed(t, no, key, of) == [t |-> t, no |-> no, key |-> key, of |-> of]

RoleSeeds == <<Seed("role", 0, "user", None), Seed("role", 0, "seller", None),
               Seed("role", 0, "admin", None)>>
ShippingSeeds == <<Seed("shipping", 0, "tipax-cod", None)>>
AttributeSeeds == <<Seed("attribute", 1, "storage", None),
                    Seed("value", 1, "128gb", <<"attribute", "storage">>)>>
CategorySeeds == <<Seed("parent", 1, "photography", None),
                   Seed("category", 1, "photo-cameras", <<"parent", "photography">>),
                   Seed("sub", 1, "mirrorless-cameras", <<"category", "photo-cameras">>)>>
ProductSeeds == <<Seed("brand", 101, "sony", None), Seed("product", 100, "sony-a7iv", None),
                  Seed("stock", 0, "", <<"product", "sony-a7iv">>),
                  Seed("offer", 0, "SNY-A7IV-BODY-OFFER", <<"product", "sony-a7iv">>)>>
LinkSeeds == <<Seed("link", 0, "", <<"product", "sony-a7iv">>)>>

Seeds ==
  RoleSeeds \o ShippingSeeds \o AttributeSeeds \o CategorySeeds \o ProductSeeds \o LinkSeeds

SeedStock == 2
ShopOfSeeds == "didnegar-shop"

(* Rows found by what the seed names, not by their number.                 *)
Named(name, rows) == {r \in rows : r.t = name[1] /\ r.key = name[2]}

Owners(seed, rows) ==
  IF seed.of = None THEN {None} ELSE {r.id : r \in Named(seed.of, rows)}

SeedRow(seed, owner, rows) ==
  Row(seed.t, FreshId(seed.t, IdsIn(rows)), seed.no, seed.key, owner, "")

FoundFor(seed, owner, rows) ==
  {r \in Named(<<seed.t, seed.key>>, rows) :
     seed.t \in {"value", "sub", "stock"} => r.of = owner}

\* a missing row is inserted; FALSE where the database refuses it
Inserted(row, rows) ==
  IF Allowed(row, rows) THEN [ok |-> TRUE, rows |-> Put1(row, rows)]
  ELSE [ok |-> FALSE, rows |-> rows]

Unchanged(rows) == [ok |-> TRUE, rows |-> rows]

(* A role of the system gets its name and its permissions back.            *)
SeedSystemRole(seed, rows) ==
  LET found == FoundFor(seed, None, rows)
      row == IF found = {} THEN SeedRow(seed, None, rows) ELSE CHOOSE r \in found : TRUE
  IN  {Inserted([row EXCEPT !.val = "of the system"], rows)}

SeedUnlessFound(seed, rows) ==
  {IF FoundFor(seed, owner, rows) # {} THEN Unchanged(rows)
   ELSE Inserted(SeedRow(seed, owner, rows), rows) : owner \in Owners(seed, rows)}

(* A category is put back under its parent.                                *)
SeedCategory(seed, rows) ==
  {LET found == FoundFor(seed, owner, rows)
       row == IF found = {} THEN SeedRow(seed, owner, rows) ELSE CHOOSE r \in found : TRUE
   IN  Inserted([row EXCEPT !.of = owner], rows) : owner \in Owners(seed, rows)}

(* The stock of a product of the seeds is what the seeds say.              *)
SeedProductStock(seed, rows) ==
  {LET found == FoundFor(seed, owner, rows)
       row == IF found = {} THEN SeedRow(seed, owner, rows) ELSE CHOOSE r \in found : TRUE
   IN  Inserted([row EXCEPT !.val = SeedStock], rows) : owner \in Owners(seed, rows)}

(* An offer of the shop of the seeds, where there is such a seller.        *)
SeedOffer(seed, rows) ==
  LET shops == Named(<<"seller", ShopOfSeeds>>, rows)
  IN  {IF shops = {} \/ Named(<<"offer", seed.key>>, rows) # {} THEN Unchanged(rows)
       ELSE Inserted([SeedRow(seed, owner, rows) EXCEPT
                        !.val = CHOOSE id \in IdsIn(shops) : TRUE], rows) :
         owner \in Owners(seed, rows)}

(* The link of the product with its sub-category, unless one is missing.   *)
SeedProductLinks(seed, rows) ==
  LET subs == {r.id : r \in {x \in Named(<<"sub", "mirrorless-cameras">>, rows) :
                              x.of \in IdsIn(Named(<<"category", "photo-cameras">>, rows))}}
      owners == Owners(seed, rows)
  IN  IF subs = {} \/ owners = {} THEN {Unchanged(rows)}
      ELSE {IF \E r \in RowsIn("link", rows) : r.of = o[1] /\ r.val = o[2]
            THEN Unchanged(rows)
            ELSE Inserted([SeedRow(seed, o[1], rows) EXCEPT !.val = o[2]], rows) :
              o \in owners \X subs}

(* What may come of a seed: by which row it finds where the name is not    *)
(* unique.                                                                 *)
Seeded(seed, rows) ==
  CASE seed.t = "role" -> SeedSystemRole(seed, rows)
    [] seed.t = "category" -> SeedCategory(seed, rows)
    [] seed.t = "stock" -> SeedProductStock(seed, rows)
    [] seed.t = "offer" -> SeedOffer(seed, rows)
    [] seed.t = "link" -> SeedProductLinks(seed, rows)
    [] OTHER -> SeedUnlessFound(seed, rows)

-----------------------------------------------------------------------------
(* What people do to the rows while the site is up.                        *)
NextNo(t, rows) ==
  LET nos == {r.no : r \in RowsIn(t, rows)} \cup {0}
  IN  1 + CHOOSE n \in nos : \A m \in nos : m <= n

OwnRow(t, key, used, rows) ==
  Row(t, FreshId(t, used), IF t \in NumberUnique \ {"seller"} THEN NextNo(t, rows) ELSE 0,
      key, None, "")
=============================================================================
