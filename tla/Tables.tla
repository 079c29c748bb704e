------------------------------- MODULE Tables -------------------------------
(***************************************************************************)
(* The tables behind the catalogue and the reference data, and the         *)
(* statements that TypeORM runs on them.                                   *)
(*                                                                         *)
(* No request here has a transaction: it reads what it decides on, then    *)
(* its statements run one by one, between those of other requests.         *)
(* save() of an entity is two of them: a SELECT, and an UPDATE of the      *)
(* columns in which the entity differs from the row found, or an INSERT of *)
(* all of them when there was no row; foreign keys and unique indexes      *)
(* refuse.                                                                 *)
(***************************************************************************)
EXTENDS Integers, Sequences, FiniteSetsExt

CONSTANTS
  Slots,      \* Slots[t]: how many rows table t may get
  Names,      \* slugs, codes, names, values
  None,       \* null, and an id without a row
  Handlers,   \* concurrent requests
  FirstRows,  \* FirstRows[t]: the rows at the start, a sequence
  MaxRequests \* bound: requests accepted

(* RefsOf[t]: the foreign keys of a table, each called after the table it  *)
(* points to.                                                              *)
RefsOf ==
  [parent |-> {}, category |-> {"parent"}, sub |-> {"category"},
   product |-> {"brand", "shipping"}, stock |-> {"product"},
   link |-> {"product", "category", "sub"}, offer |-> {"product"},
   attribute |-> {}, value |-> {"attribute"}, brand |-> {},
   shipping |-> {}, order |-> {"shipping"},
   country |-> {}, state |-> {"country"}, city |-> {"country", "state"},
   banner |-> {"category"}, settings |-> {}, message |-> {},
   user |-> {}, subscription |-> {"user"}]

TableNames == DOMAIN RefsOf

(* NOT NULL among them.                                                    *)
NotNull ==
  {<<"category", "parent">>, <<"sub", "category">>, <<"stock", "product">>,
   <<"link", "product">>, <<"value", "attribute">>, <<"offer", "product">>,
   <<"state", "country">>, <<"subscription", "user">>}

VARIABLES
  rows,      \* rows[t][n]: the row <<t, n>>, or None
  used,      \* used[t]: number of ids handed out
  calls,     \* calls[h]: the statements the request of h has still to run
  requests,  \* number of requests accepted
  raced,     \* history: what was written while another request had it in hand
  cut,       \* history: products whose stock was not written
  moved,     \* history: rows a request wanted under another parent
  approvals, \* history: <<product, slug>> that an approving request had read
  merged     \* history: <<product, slug>> of rows with columns of two requests

tableVars == <<rows, used, calls, requests, raced, cut, moved, approvals, merged>>

IdsOf(t) == {<<t, n>> : n \in 1..Slots[t]}

Ids == UNION {IdsOf(t) : t \in TableNames}

(* flag: the primary link, the approved product, the active brand, shipping*)
(* method or subscription, the message read, the changed settings.         *)
(* number: legacyId.                                                       *)
RowOf(t) ==
  {row \in [key : Names \cup {None}, flag : BOOLEAN, number : Nat \cup {None},
            refs : [RefsOf[t] -> Ids \cup {None}]] :
     \A ref \in RefsOf[t] :
       row.refs[ref] \in IdsOf(ref) \/ (row.refs[ref] = None /\ <<t, ref>> \notin NotNull)}

ASSUME TablesAssumption ==
  /\ Slots \in [TableNames -> Nat]
  /\ \A t \in TableNames :
       FirstRows[t] \in Seq(RowOf(t)) /\ Len(FirstRows[t]) <= Slots[t] /\ None \notin RowOf(t)
  /\ None \notin Ids \cup Names \cup Nat
  /\ MaxRequests \in Nat

At(id) == rows[id[1]][id[2]]

Has(id) == id # None /\ At(id) # None

RowsIn(t) == {id \in IdsOf(t) : Has(id)}

-----------------------------------------------------------------------------
(* Foreign keys: ON DELETE RESTRICT and SET NULL, the others CASCADE.  The *)
(* one of attribute values is dropped with all others by a migration that  *)
(* does not create it again.                                               *)
Unenforced == {<<"value", "attribute">>}

Restricting == {<<"category", "parent">>, <<"offer", "product">>}

Nulling ==
  {<<"product", "brand">>, <<"product", "shipping">>, <<"order", "shipping">>,
   <<"city", "country">>, <<"city", "state">>}

RefersBy(id, ref, ids) == Has(id) /\ ref \in RefsOf[id[1]] /\ At(id).refs[ref] \in ids

CascadesFrom(ids) ==
  {id \in Ids : \E ref \in RefsOf[id[1]] :
    <<id[1], ref>> \notin Restricting \cup Nulling \cup Unenforced /\ RefersBy(id, ref, ids)}

(* The rows that go with a row: no cascade is longer than two.             *)
GoesWith(id) ==
  LET near == {id} \cup CascadesFrom({id}) IN near \cup CascadesFrom(near)

MayGo(gone) ==
  \A id \in Ids \ gone, ref \in {"parent", "product"} :
    <<id[1], ref>> \in Restricting => ~RefersBy(id, ref, gone)

Nulled(row, t, gone) ==
  [row EXCEPT !.refs = [ref \in RefsOf[t] |->
     IF <<t, ref>> \in Nulling /\ row.refs[ref] \in gone THEN None ELSE row.refs[ref]]]

RowsWithout(gone) ==
  [t \in TableNames |-> [n \in 1..Slots[t] |->
    IF <<t, n>> \in gone \/ rows[t][n] = None THEN None ELSE Nulled(rows[t][n], t, gone)]]

RowsWith(id, row) == [rows EXCEPT ![id[1]][id[2]] = row]

(* Unique indexes.  Slug and SKU of products have none any more, the name  *)
(* of an attribute never had one.                                          *)
UniqueOn ==
  [t \in TableNames |->
    IF t \in {"parent", "category", "shipping", "country"} THEN {{"key"}}
    ELSE IF t = "banner" THEN {{"key"}, {"category"}}
    ELSE IF t = "sub" THEN {{"category", "key"}}
    ELSE IF t = "state" THEN {{"country", "key"}}
    ELSE IF t = "brand" THEN {{"key"}, {"number"}}
    ELSE IF t = "value" THEN {{"attribute", "key"}, {"number"}}
    ELSE IF t \in {"product", "attribute"} THEN {{"number"}}
    ELSE IF t = "stock" THEN {{"product"}}
    ELSE IF t = "link" THEN {{"product", "category", "sub"}}
    ELSE IF t = "subscription" THEN {{"user"}} ELSE {}]

ColumnOf(row, column) ==
  IF column = "key" THEN row.key ELSE IF column = "number" THEN row.number ELSE row.refs[column]

(* Null differs from null.                                                 *)
Clash(id, row) ==
  \E other \in RowsIn(id[1]) \ {id}, columns \in UniqueOn[id[1]] :
    \A column \in columns :
      ColumnOf(row, column) # None /\ ColumnOf(row, column) = ColumnOf(At(other), column)

(* The rows at the start satisfy the schema.                               *)
FirstIn(t) == {<<t, n>> : n \in 1..Len(FirstRows[t])}
FirstAt(id) == FirstRows[id[1]][id[2]]

ASSUME SchemaAtStart ==
  \A t \in TableNames : \A id \in FirstIn(t) :
    /\ \A ref \in RefsOf[t] :
         <<t, ref>> \in Unenforced \/ FirstAt(id).refs[ref] \in FirstIn(ref) \cup {None}
    /\ \A other \in FirstIn(t) \ {id}, columns \in UniqueOn[t] :
         \E column \in columns :
           \/ ColumnOf(FirstAt(id), column) = None
           \/ ColumnOf(FirstAt(id), column) # ColumnOf(FirstAt(other), column)

RefsExist(t, row) ==
  \A ref \in RefsOf[t] :
    <<t, ref>> \in Unenforced \/ row.refs[ref] = None \/ Has(row.refs[ref])

Fits(id, row) == RefsExist(id[1], row) /\ ~Clash(id, row)

-----------------------------------------------------------------------------
(* Statements: save() an entity with its SELECT, then its INSERT or its    *)
(* UPDATE; insert(), update(), remove() or delete(),                       *)
(* clearPrimaryForProduct, upsertForProduct and one turn of                *)
(* assignCategoryIdsToProduct.                                             *)
Save(id, row) == [do |-> "save", id |-> id, row |-> row]
Insert(id, row) == [do |-> "insert", id |-> id, row |-> row]
Update(id, row, stored) == [do |-> "update", id |-> id, row |-> row, stored |-> stored]
Change(id, row) == [do |-> "change", id |-> id, row |-> row]
Drop(id) == [do |-> "drop", id |-> id]
ClearPrimary(product, but) == [do |-> "clear", id |-> product, but |-> but]
UpsertStock(product) == [do |-> "stock", id |-> product]
Assign(product, target) == [do |-> "assign", id |-> product, target |-> target]

(* What a statement is about: the row, the rows it refers to and the name  *)
(* it takes.                                                               *)
InHand(step) ==
  {step.id} \cup
  (IF step.do \in {"save", "insert", "update", "change"}
   THEN {x \in {step.row.refs[ref] : ref \in DOMAIN step.row.refs} : x # None}
        \cup {x \in {<<step.id[1], step.row.key>>} : x[2] # None}
   ELSE IF step.do = "assign" THEN {step.target} ELSE {})

HeldBy(h) == UNION {InHand(calls[h][i]) : i \in DOMAIN calls[h]}

Free(h) == calls[h] = <<>> /\ requests < MaxRequests

(* newId()                                                                 *)
HasRoom(t) == used[t] < Slots[t]
NewId(t) == <<t, used[t] + 1>>

WithUsed(t) == [used EXCEPT ![t] = @ + 1]

(* A request that has read what it needs.                                  *)
Accept(h, steps) ==
  /\ requests' = requests + 1
  /\ calls' = [calls EXCEPT ![h] = steps]
  /\ UNCHANGED <<rows, raced, cut, merged>>

(* ... of a row that is there, or of a new one.                            *)
AcceptOld(h, steps) == Accept(h, steps) /\ UNCHANGED <<used, moved, approvals>>

AcceptNew(h, id, steps) ==
  /\ HasRoom(id[1])
  /\ Accept(h, steps)
  /\ used' = WithUsed(id[1])
  /\ UNCHANGED <<moved, approvals>>

Step(h) == Head(calls[h])
In(h, do) == calls[h] # <<>> /\ Step(h).do = do

Goto(h, steps) == calls' = [calls EXCEPT ![h] = steps]

(* The statement has gone through; the next one follows.                   *)
Goes(h, written) ==
  /\ Goto(h, Tail(calls[h]))
  /\ raced' = raced \cup {x \in written : \E g \in Handlers \ {h} : x \in HeldBy(g)}

(* The statement was refused: the rest of the request is not run.          *)
Refused(h) == Goto(h, <<>>) /\ UNCHANGED <<rows, raced>>

(* save() selects the row by its id.                                       *)
SelectStep(h) ==
  /\ In(h, "save")
  /\ LET id == Step(h).id
         row == Step(h).row
     IN  Goto(h, <<IF Has(id) THEN Update(id, row, At(id)) ELSE Insert(id, row)>>
                 \o Tail(calls[h]))
  /\ UNCHANGED <<rows, used, requests, raced, cut, moved, approvals, merged>>

(* The columns in which entity and selected row differ are written, what   *)
(* the row has by now stays in the others.                                 *)
Merged(entity, stored, now) == IF entity # stored THEN entity ELSE now

MergedRow(entity, stored, now) ==
  [key |-> Merged(entity.key, stored.key, now.key),
   flag |-> Merged(entity.flag, stored.flag, now.flag),
   number |-> Merged(entity.number, stored.number, now.number),
   refs |-> [ref \in DOMAIN entity.refs |->
              Merged(entity.refs[ref], stored.refs[ref], now.refs[ref])]]

(* The UPDATE of a row that is gone by now changes nothing.                *)
UpdateStep(h) ==
  /\ In(h, "update")
  /\ LET id == Step(h).id
         row == MergedRow(Step(h).row, Step(h).stored, At(id))
     IN  IF ~Has(id) THEN Goes(h, InHand(Step(h))) /\ UNCHANGED <<rows, merged>>
         ELSE IF ~Fits(id, row) THEN Refused(h) /\ UNCHANGED merged
         ELSE /\ rows' = RowsWith(id, row)
              /\ Goes(h, InHand(Step(h)))
              /\ merged' = merged \cup {x \in {<<id, row.key>>} :
                                          id[1] = "product" /\ row # Step(h).row}
  /\ UNCHANGED <<used, requests, cut, moved, approvals>>

InsertStep(h) ==
  /\ In(h, "insert")
  /\ IF Has(Step(h).id) \/ ~Fits(Step(h).id, Step(h).row)
     THEN Refused(h)
     ELSE rows' = RowsWith(Step(h).id, Step(h).row) /\ Goes(h, InHand(Step(h)))
  /\ UNCHANGED <<used, requests, cut, moved, approvals, merged>>

ChangeStep(h) ==
  /\ In(h, "change")
  /\ rows' = IF Has(Step(h).id) THEN RowsWith(Step(h).id, Step(h).row) ELSE rows
  /\ Goes(h, InHand(Step(h)))
  /\ UNCHANGED <<used, requests, cut, moved, approvals, merged>>

DropStep(h) ==
  /\ In(h, "drop")
  /\ LET gone == IF Has(Step(h).id) THEN GoesWith(Step(h).id) ELSE {}
     IN  IF MayGo(gone)
         THEN rows' = RowsWithout(gone) /\ Goes(h, gone)
         ELSE Refused(h)
  /\ UNCHANGED <<used, requests, cut, moved, approvals, merged>>

LinksOf(product) == {id \in RowsIn("link") : At(id).refs.product = product}

(* Mutant: no other link is touched.                                       *)
StillPrimary(product, but) == {id \in LinksOf(product) : At(id).flag}
(* clearPrimaryForProduct                                                  *)
KeepsPrimary(product, but) == LinksOf(product) \cap {but}

ClearStep(h) ==
  /\ In(h, "clear")
  /\ LET product == Step(h).id
         keep == KeepsPrimary(product, Step(h).but)
     IN  /\ rows' = [rows EXCEPT !.link = [n \in DOMAIN @ |->
              IF <<"link", n>> \in LinksOf(product) \ keep THEN [@[n] EXCEPT !.flag = FALSE]
              ELSE @[n]]]
         /\ Goes(h, {product} \cup LinksOf(product))
  /\ UNCHANGED <<used, requests, cut, moved, approvals, merged>>

-----------------------------------------------------------------------------
NoRefs == [ref \in {} |-> None]

Plain(key, refs) == [key |-> key, flag |-> FALSE, number |-> None, refs |-> refs]

Numbered(key, refs, flag, number) == [key |-> key, flag |-> flag, number |-> number, refs |-> refs]

(* getNextLegacyId                                                         *)
NextNumber(t) == Max({0} \cup ({At(id).number : id \in RowsIn(t)} \ {None})) + 1

WithKey(t, key) == {id \in RowsIn(t) : At(id).key = key}

(* A name that is taken, unless the row has it already.                    *)
Renamed(id, key) == At(id).key = key \/ WithKey(id[1], key) = {}

ProductStock(product) == Plain(None, [product |-> product])

(* upsertForProduct: the row of the product is looked up, then saved.      *)
StockStep(h) ==
  /\ In(h, "stock")
  /\ LET product == Step(h).id
         old == {id \in RowsIn("stock") : At(id).refs.product = product}
         id == IF old = {} THEN NewId("stock") ELSE CHOOSE x \in old : TRUE
     IN  /\ old = {} => HasRoom("stock")
         /\ used' = IF old = {} THEN WithUsed("stock") ELSE used
         /\ Goto(h, <<Save(id, ProductStock(product))>> \o Tail(calls[h]))
  /\ UNCHANGED <<rows, requests, raced, cut, moved, approvals, merged>>

(* The products whose stock row a request has still to write.              *)
StockAwaited(h) ==
  {calls[h][i].id : i \in {j \in DOMAIN calls[h] : calls[h][j].do = "stock"}}
  \cup {calls[h][i].row.refs.product : i \in {j \in DOMAIN calls[h] :
          calls[h][j].do \in {"save", "insert", "update"} /\ calls[h][j].id[1] = "stock"}}

(* A request stops between two statements, with the process or with its    *)
(* connection.                                                             *)
CutOff(h) ==
  /\ calls[h] # <<>>
  /\ cut' = cut \cup StockAwaited(h)
  /\ Goto(h, <<>>)
  /\ UNCHANGED <<rows, used, requests, raced, moved, approvals, merged>>

TablesInit ==
  /\ rows = [t \in TableNames |-> [n \in 1..Slots[t] |->
       IF n <= Len(FirstRows[t]) THEN FirstRows[t][n] ELSE None]]
  /\ used = [t \in TableNames |-> Len(FirstRows[t])]
  /\ calls = [h \in Handlers |-> <<>>]
  /\ requests = 0
  /\ raced = {} /\ cut = {} /\ moved = {} /\ merged = {}
  /\ approvals = {<<id, At(id).key>> : id \in RowsIn("product")}
=============================================================================
