------------------------------ MODULE Imports ------------------------------
(***************************************************************************)
(* The scripts that bring rows of the former shop into the database, batch *)
(* by batch.  A batch reads what the target has, then opens a transaction  *)
(* and goes through its rows: a row is found again by its number, its id   *)
(* or its key, and updated, or inserted.  One row that the database        *)
(* refuses rolls the batch back and ends the script.                       *)
(***************************************************************************)
EXTENDS Content, SequencesExt, TLC

\* of every table, the sequence of its batches
CONSTANT Source

ASSUME SourceAssumption ==
  \A t \in DOMAIN Source : \A i \in DOMAIN Source[t] : \A j \in DOMAIN Source[t][i] :
    LET src == Source[t][i][j] IN src.no > 0 /\ src.id[2] >= FirstSourceId

Pass(op, t, batch) == [op |-> op, t |-> t, rows |-> batch]
Batches(op, t) == [i \in DOMAIN Source[t] |-> Pass(op, t, Source[t][i])]

SourceRows(t) ==
  UNION {{Source[t][i][j] : j \in DOMAIN Source[t][i]} : i \in DOMAIN Source[t]}

HasOrphanSubCategories == \E src \in SourceRows("sub") : src.of = None

(* What each script goes through.                                          *)
ImportUsers == Batches("match", "user")
ImportBrands == Batches("match", "brand")
ImportAttributes == Batches("match", "attribute") \o Batches("match", "value")
ImportLocations ==
  Batches("match", "country") \o Batches("match", "state")
  \o <<Pass("countries", "city", <<>>)>> \o Batches("match", "city")
ImportCategories ==
  <<Pass("parent", "parent", <<>>)>> \o Batches("match", "category")
  \o (IF HasOrphanSubCategories THEN <<Pass("default", "category", <<>>)>> ELSE <<>>)
  \o Batches("match", "sub")
ImportCatalog ==
  Batches("look up", "seller") \o Batches("look up", "product") \o Batches("look up", "offer")

Scripts == {"users", "brands", "attributes", "locations", "categories", "catalog"}
PassesOf(script) ==
  CASE script = "users" -> ImportUsers [] script = "brands" -> ImportBrands
    [] script = "attributes" -> ImportAttributes [] script = "locations" -> ImportLocations
    [] script = "categories" -> ImportCategories [] script = "catalog" -> ImportCatalog

(* The import of users asks for the roles it gives.                        *)
MayStart(script, rows) ==
  script = "users" => {"user", "seller", "admin"} \subseteq {r.key : r \in RowsIn("role", rows)}

-----------------------------------------------------------------------------
(* The state of a batch: the rows of the database, those read before, the  *)
(* target ids of source rows so far, and whether it still goes on.         *)
Target(id, ids) == IF id = None THEN {None} ELSE {p[2] : p \in {q \in ids : q[1] = id}}

(* The mapping has one target for a source row, the last one.              *)
Map(from, to, ids) == {p \in ids : p[1] # from} \cup {<<from, to>>}

\* the ids of rows that are there or were when they were read
Used(acc) == IdsIn(acc.rows) \cup IdsIn(acc.seen) \cup {p[2] : p \in acc.ids}

\* legacyTable of rows that an import made on its own
OwnDefault == -1

OfBatch(batch) == {batch[i] : i \in DOMAIN batch}
HasKey(r, src) == r.key = src.key
HasNumber(r, src) == r.no = src.no

LoadTargetBrands(batch, rows) ==
  {r \in RowsIn("brand", rows) : \E src \in OfBatch(batch) : HasKey(r, src) \/ HasNumber(r, src)}
LoadTargetUsers(batch, rows) ==
  {r \in RowsIn("user", rows) : \E src \in OfBatch(batch) : HasKey(r, src) \/ HasNumber(r, src)}
LoadCountries(batch, rows) ==
  {r \in RowsIn("country", rows) : \E src \in OfBatch(batch) : r.id = src.id \/ HasKey(r, src)}
LoadStates(batch, ids, rows) ==
  {r \in RowsIn("state", rows) :
     \E src \in OfBatch(batch) :
       r.id = src.id \/ (HasKey(r, src) /\ r.of \in Target(src.of, ids))}
LoadCities(batch, rows) ==
  {r \in RowsIn("city", rows) : \E src \in OfBatch(batch) : r.id = src.id}

Loaded(pass, ids, rows) ==
  CASE pass.t = "brand" -> LoadTargetBrands(pass.rows, rows)
    [] pass.t = "user" -> LoadTargetUsers(pass.rows, rows)
    [] pass.t = "country" -> LoadCountries(pass.rows, rows)
    [] pass.t = "state" -> LoadStates(pass.rows, ids, rows)
    [] pass.t = "city" -> LoadCities(pass.rows, rows)
    [] OTHER -> RowsIn(pass.t, rows)

-----------------------------------------------------------------------------
ByNumber(src, seen) == {r \in seen : HasNumber(r, src)}
ById(src, seen) == {r \in seen : r.id = src.id}
ByKey(src, of, seen) == {r \in seen : HasKey(r, src) /\ (r.t \in KeyUniqueWithin => r.of = of)}

FreeByKey(src, of, seen) == {r \in ByKey(src, of, seen) : r.no \in {0, src.no}}

First(first, second) == IF first # {} THEN first ELSE second

ExistingBrand(src, seen) == First(ByNumber(src, seen), FreeByKey(src, None, seen))
ExistingUser(src, seen) == First(ByNumber(src, seen), FreeByKey(src, None, seen))
ExistingByIdToo(src, of, seen) ==
  First(ByNumber(src, seen), First(ById(src, seen), FreeByKey(src, of, seen)))
ExistingPlace(src, of, seen) == First(ById(src, seen), ByKey(src, of, seen))

(* Id and code name different places.                                      *)
Conflict(src, of, seen) ==
  \E r \in ById(src, seen), s \in ByKey(src, of, seen) : r.id # s.id

(* A key that no other row read before has.                                *)
Suffixed(src) ==
  <<src.key, src.key \o "-" \o ToString(src.no), src.key \o "-" \o ToString(src.no) \o "-2">>
UniqueKey(src, of, old, seen) ==
  LET Taken(key) == \E r \in seen : r.key = key /\ r.id # old /\ (r.t = "sub" => r.of = of)
  IN  SelectSeq(Suffixed(src), LAMBDA key : ~Taken(key))[1]

(* An UPDATE of a row that is gone changes nothing.                        *)
Written(row, old, acc) ==
  IF old # None
  THEN IF old \notin IdsIn(acc.rows) THEN acc
       ELSE IF Allowed(row, acc.rows) THEN [acc EXCEPT !.rows = Put1(row, @)]
       ELSE [acc EXCEPT !.ok = FALSE]
  ELSE IF row.id \in IdsIn(acc.rows) \/ ~Allowed(row, acc.rows) THEN [acc EXCEPT !.ok = FALSE]
  ELSE [acc EXCEPT !.rows = Put1(row, @)]

The(S) == CHOOSE x \in S : TRUE
IdOr(old, fresh) == IF old = {} THEN fresh ELSE The(old).id
Refused(acc) == [acc EXCEPT !.ok = FALSE]

\* Mutant: to the id of the source.
MappedToItself(id, src, acc) == [acc EXCEPT !.ids = Map(src.id, src.id, @)]
Mapped(id, src, acc) == [acc EXCEPT !.ids = Map(src.id, id, @)]
Saved(row, old, acc) == Written(row, IF old = {} THEN None ELSE row.id, acc)

(* A row that the rest of its batch knows, and one that it does not.       *)
Stored(row, old, src, acc) ==
  Mapped(row.id, src, [Saved(row, old, acc) EXCEPT !.seen = Put1(row, @)])
StoredUnseen(row, old, src, acc) == Mapped(row.id, src, Saved(row, old, acc))

-----------------------------------------------------------------------------
(* The seller or the admin of an imported user.                            *)
EnsureOwner(t, src, found, key, acc) ==
  LET old == First(found, {r \in RowsIn(t, acc.rows) : r.key = key})
      id == IF old = {} THEN FreshId(t, Used(acc)) ELSE The(old).id
      kept == IF t = "seller" /\ old # {} THEN The(old).key ELSE key
  IN  [id |-> id,
       acc |-> Written(Row(t, id, src.no, kept, None, ""), IF old = {} THEN None ELSE id, acc)]

EnsureSeller(src, acc) ==
  EnsureOwner("seller", src, ByNumber(src, RowsIn("seller", acc.rows)),
              "legacy-seller-" \o ToString(src.no), acc)

EnsureAdmin(src, old, acc) ==
  LET linked == {r \in RowsIn("admin", acc.rows) : \E u \in old : u.val.admin = r.id}
  IN  EnsureOwner("admin", src, First(linked, ByNumber(src, RowsIn("admin", acc.rows))),
                  src.key, acc)

(* The first of the roles by rank.                                         *)
ChooseRoles(roles) ==
  IF "admin" \in roles THEN "admin" ELSE IF "seller" \in roles THEN "seller" ELSE "user"

MigrateUser(acc, src) ==
  LET old == ExistingUser(src, acc.seen)
      seller == EnsureSeller(src, acc)
      acc1 == IF "seller" \in src.val THEN seller.acc ELSE acc
      admin == EnsureAdmin(src, old, acc1)
      acc2 == IF "admin" \in src.val THEN admin.acc ELSE acc1
      id == IdOr(old, FreshId("user", Used(acc)))
      row == Row("user", id, src.no, UniqueKey(src, None, id, acc.seen), None,
                 [role |-> ChooseRoles(src.val),
                  seller |-> IF "seller" \in src.val THEN seller.id ELSE None,
                  admin |-> IF "admin" \in src.val THEN admin.id ELSE None])
  IN  Stored(row, old, src, acc2)

MigrateBrand(acc, src) ==
  LET old == ExistingBrand(src, acc.seen)
      id == IdOr(old, FreshId("brand", Used(acc)))
  IN  Stored(Row("brand", id, src.no, UniqueKey(src, None, id, acc.seen), None, ""),
             old, src, acc)

MigrateAttribute(acc, src) ==
  LET old == ExistingByIdToo(src, None, acc.seen)
  IN  Stored(Row("attribute", IdOr(old, src.id), src.no, src.key, None, ""), old, src, acc)

(* A value that its attribute has already is left out.                     *)
MigrateValue(acc, src) ==
  LET owners == Target(src.of, acc.ids)
      of == The(owners)
      old == ExistingByIdToo(src, of, acc.seen)
      same == ByKey(src, of, acc.seen \cup RowsIn("value", acc.rows))
  IN  IF owners = {} THEN Refused(acc)
      ELSE IF old = {} /\ same # {} THEN acc
      ELSE Stored(Row("value", IdOr(old, src.id), src.no, src.key, of, ""), old, src, acc)

(* All categories go under one parent, and a sub-category without category *)
(* under the default one.                                                  *)
Chosen(t) == <<"chosen", t>>

MigrateCategory(acc, src) ==
  LET old == ExistingByIdToo(src, None, acc.seen)
      id == IdOr(old, src.id)
  IN  Stored(Row("category", id, src.no, UniqueKey(src, None, id, acc.seen),
                 The(Target(Chosen("parent"), acc.ids)), ""), old, src, acc)

MigrateSubCategory(acc, src) ==
  LET owners == First(IF src.of = None THEN {} ELSE Target(src.of, acc.ids),
                      Target(Chosen("category"), acc.ids))
      of == The(owners)
      old == ExistingByIdToo(src, of, acc.seen)
      id == IdOr(old, src.id)
  IN  IF owners = {} THEN Refused(acc)
      ELSE Stored(Row("sub", id, src.no, UniqueKey(src, of, id, acc.seen), of, ""),
                  old, src, acc)

MigrateCountry(acc, src) ==
  LET old == ExistingPlace(src, None, acc.seen)
  IN  IF Conflict(src, None, acc.seen) THEN Refused(acc)
      ELSE StoredUnseen(Row("country", IdOr(old, src.id), 0, src.key, None, ""), old, src, acc)

MigrateState(acc, src) ==
  LET owners == Target(src.of, acc.ids)
      of == The(owners)
      old == ExistingPlace(src, of, acc.seen)
  IN  IF owners = {} \/ Conflict(src, of, acc.seen) THEN Refused(acc)
      ELSE StoredUnseen(Row("state", IdOr(old, src.id), 0, src.key, of, ""), old, src, acc)

CountryOf(state) == <<"country of", state>>

(* A city in the country of its state.                                     *)
MigrateCity(acc, src) ==
  LET countries == Target(src.of, acc.ids)
      states == Target(src.val, acc.ids)
      old == ById(src, acc.seen)
      agree == src.of = None \/ src.val = None \/
               \E c \in countries, s \in states : <<CountryOf(s), c>> \in acc.ids
  IN  IF countries = {} \/ states = {} \/ ~agree THEN Refused(acc)
      ELSE StoredUnseen(Row("city", src.id, 0, src.key, The(countries), The(states)),
                        old, src, acc)

(* The countries of the imported states, read before the cities.           *)
StateCountries(acc) ==
  LET states == {p[2] : p \in {q \in acc.ids : q[1][1] = "state"}}
  IN  IF ~(states \subseteq IdsIn(acc.rows)) THEN [acc EXCEPT !.ok = FALSE]
      ELSE [acc EXCEPT !.ids = @ \cup
              {<<CountryOf(r.id), r.of>> : r \in {x \in acc.rows : x.id \in states}}]

-----------------------------------------------------------------------------
(* The parent for all categories, and the category for the rest.           *)
EnsureParentCategory(acc) ==
  LET parents == RowsIn("parent", acc.rows)
      row == Row("parent", FreshId("parent", Used(acc)), OwnDefault, "default", None, "")
  IN  [acc EXCEPT !.rows = IF parents = {} THEN Put1(row, @) ELSE @,
                  !.ids = Map(Chosen("parent"), IdOr(parents, row.id), @)]

EnsureDefaultCategory(acc) ==
  LET parent == The(Target(Chosen("parent"), acc.ids))
      found == {r \in RowsIn("category", acc.rows) : r.key = "default" /\ r.of = parent}
      row == Row("category", FreshId("category", Used(acc)), OwnDefault, "default", parent, "")
  IN  [(IF found = {} THEN Written(row, None, acc) ELSE acc)
         EXCEPT !.ids = Map(Chosen("category"), IdOr(found, row.id), @)]

(* The seller of a former seller is the one of its imported user.          *)
MigrateSeller(acc, src) ==
  LET users == First({u \in RowsIn("user", acc.rows) : u.no = src.no},
                     {u \in RowsIn("user", acc.rows) : HasKey(u, src)})
      sellers == {u.val.seller : u \in users} \ {None}
  IN  IF sellers = {} THEN acc
      ELSE [acc EXCEPT !.ids = Map(src.id, The(sellers), @)]

(* Products are found by number only, and bring their stock.               *)
WithStock(id, src, acc) ==
  LET stocks == {r \in RowsIn("stock", acc.rows) : r.of = id}
      stock == IF stocks = {} THEN Row("stock", FreshId("stock", Used(acc)), 0, "", id, src.val)
               ELSE [The(stocks) EXCEPT !.val = src.val]
  IN  IF acc.ok THEN [acc EXCEPT !.rows = Put1(stock, @)] ELSE acc

\* Mutant: they are not looked for.
MigrateProductAsNew(acc, src) ==
  WithStock(src.id, src, Saved(Row("product", src.id, src.no, src.key, None, ""), {}, acc))
MigrateProduct(acc, src) ==
  LET old == ByNumber(src, RowsIn("product", acc.rows))
      id == IdOr(old, src.id)
  IN  WithStock(id, src, Saved(Row("product", id, src.no, src.key, None, ""), old, acc))

(* A listing needs the seller and the product; it is found by its source.  *)
MigrateListing(acc, src) ==
  LET sellers == Target(src.val, acc.ids)
      products == {r \in RowsIn("product", acc.rows) : r.no = src.of}
      old == ByNumber(src, RowsIn("offer", acc.rows))
      id == IF old = {} THEN FreshId("offer", Used(acc)) ELSE The(old).id
  IN  IF sellers = {} \/ products = {} THEN acc
      ELSE Written(Row("offer", id, src.no, src.key, The(products).id,
                       The(sellers)),
                   IF old = {} THEN None ELSE id, acc)

-----------------------------------------------------------------------------
Acc(rows, seen, ids) == [ok |-> TRUE, rows |-> rows, seen |-> seen, ids |-> ids]

Migrate(t, acc, src) ==
  CASE ~acc.ok -> acc
    [] t = "user" -> MigrateUser(acc, src)
    [] t = "brand" -> MigrateBrand(acc, src)
    [] t = "attribute" -> MigrateAttribute(acc, src)
    [] t = "value" -> MigrateValue(acc, src)
    [] t = "category" -> MigrateCategory(acc, src)
    [] t = "sub" -> MigrateSubCategory(acc, src)
    [] t = "country" -> MigrateCountry(acc, src)
    [] t = "state" -> MigrateState(acc, src)
    [] t = "city" -> MigrateCity(acc, src)
    [] t = "seller" -> MigrateSeller(acc, src)
    [] t = "product" -> MigrateProduct(acc, src)
    [] t = "offer" -> MigrateListing(acc, src)

MigrateAll(pass, accs) ==
  FoldLeft(LAMBDA as, src : {Migrate(pass.t, a, src) : a \in as}, accs, pass.rows)

Passed(pass, acc) ==
  CASE pass.op = "parent" -> EnsureParentCategory(acc)
    [] pass.op = "default" -> EnsureDefaultCategory(acc)
    [] pass.op = "countries" -> StateCountries(acc)
    [] OTHER -> The(MigrateAll(pass, {acc}))

ReadsBefore(pass) == pass.op = "match"

(* The whole script on rows that nobody else changes.                      *)
Rerun(script, rows) ==
  LET Next1(acc, pass) ==
        IF ~acc.ok THEN acc
        ELSE Passed(pass, [acc EXCEPT !.seen = Loaded(pass, acc.ids, acc.rows)])
  IN  The(FoldLeft(LAMBDA accs, pass : {Next1(acc, pass) : acc \in accs},
                   {Acc(rows, {}, {})}, PassesOf(script)))
=============================================================================
