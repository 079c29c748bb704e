---------------------------- MODULE CatalogProofs ----------------------------
(***************************************************************************)
(* Proofs about the catalogue and the reference data (CatalogSpec), for    *)
(* any names, numbers of rows and concurrent requests.                     *)
(*                                                                         *)
(* No property of the rows alone is inductive: what a queued statement     *)
(* will write was decided on rows that have changed since.  Each property  *)
(* has a counterpart about the statement a request runs next, or about all *)
(* rows that are queued, and holds with it.                                *)
(***************************************************************************)
EXTENDS Reference, RowSumTheorems, FiniteSetTheorems

-----------------------------------------------------------------------------
(* What requests queue.                                                    *)
Saves(t) ==
  [do : {"save", "insert"}, id : IdsOf(t), row : RowOf(t)]
  \cup [do : {"update"}, id : IdsOf(t), row : RowOf(t), stored : RowOf(t)]
SettingsChanges == [do : {"insert", "change"}, id : IdsOf("settings"), row : RowOf("settings")]
Drops == [do : {"drop"}, id : Ids \ IdsOf("stock")]
Clears == [do : {"clear"}, id : IdsOf("product"), but : IdsOf("link") \cup {None}]
Stocks == [do : {"stock"}, id : IdsOf("product")]
Assigns == [do : {"assign"}, id : IdsOf("product"), target : IdsOf("category") \cup IdsOf("sub")]

AnySave == UNION {Saves(t) : t \in TableNames \ {"settings"}}

Steps ==
  AnySave
  \cup SettingsChanges \cup Drops \cup Clears \cup Stocks \cup Assigns

(* An entity to save: before its SELECT, or with what that found.          *)
Writes(step) == step.do \in {"save", "insert", "update"} /\ step.id \notin IdsOf("settings")

Saving(h) == calls[h] # <<>> /\ Writes(Step(h))

IsSave(step, t) == Writes(step) /\ step.id[1] = t

(* Which statement may follow which: the stock follows its product, the    *)
(* primary link the clearing of the others, and links come last.           *)
Follows(q, i) ==
  \/ q[i].do = "assign"
  \/ i = 2 /\ IsSave(q[1], "product") /\ q[2] = UpsertStock(q[1].id)
  \/ /\ i = 2 /\ q[1].do = "clear" /\ IsSave(q[2], "link")
     /\ q[2].row.refs.product = q[1].id /\ q[1].but \in {None, q[2].id}

Queue(q) ==
  /\ q \in Seq(Steps)
  /\ \A i \in DOMAIN q : i > 1 => Follows(q, i) /\ q[1].do # "drop"

(* Types, the schema and the queues.                                       *)
Schema == \A id \in Ids : Has(id) => RefsExist(id[1], At(id)) /\ ~Clash(id, At(id))

RowsTyped ==
  /\ DOMAIN rows = TableNames
  /\ \A t \in TableNames : rows[t] \in [1..Slots[t] -> RowOf(t) \cup {None}]

Counted == used \in [TableNames -> Nat] /\ \A t \in TableNames : used[t] <= Slots[t]

Queues == DOMAIN calls = Handlers /\ \A h \in Handlers : Queue(calls[h])

BaseInv ==
  /\ RowsTyped /\ Schema /\ Counted /\ Queues
  /\ requests \in 0..MaxRequests
  /\ moved \subseteq Ids /\ cut \subseteq Ids

(* What a request saves next as approved, somebody has approved.           *)
ApprovedNext ==
  \A h \in Handlers :
    Saving(h) /\ Step(h).id[1] = "product" /\ Step(h).row.flag =>
      <<Step(h).id, Step(h).row.key>> \in approvals

ApprovedInv == ApprovedAsRead /\ ApprovedNext

(* A shipping method about to be removed has not been chosen since.        *)
UnusedNext ==
  \A h \in Handlers, id \in IdsOf("shipping") :
    In(h, "drop") /\ Step(h).id = id => id \in raced \/ Chosen(id) = {}

(* The rows of one name, and the name a request takes next.                *)
NamesOnce ==
  \A t \in {"attribute", "product"}, name \in Names : \A x, y \in RowsIn(t) :
    At(x).key = name /\ At(y).key = name /\ x # y => {<<t, name>>, x, y} \cap raced # {}

NameNext ==
  \A h \in Handlers, t \in {"attribute", "product"}, name \in Names : \A x, y \in IdsOf(t) :
    /\ Saving(h) /\ Step(h).id = x /\ Step(h).row.key = name
    /\ Has(y) /\ At(y).key = name /\ x # y
    => {<<t, name>>, x, y} \cap raced # {}

NamesInv == NamesOnce /\ NameNext

(* The primary links of one product, and the one a request saves next.     *)
PrimaryOnce ==
  \A x, y \in RowsIn("link"), product \in IdsOf("product") :
    /\ x # y /\ At(x).flag /\ At(y).flag
    /\ At(x).refs.product = product /\ At(y).refs.product = product
    => product \in raced

PrimaryNext ==
  \A h \in Handlers : \A x, y \in IdsOf("link"), product \in IdsOf("product") :
    /\ Saving(h) /\ Step(h).id = x /\ Step(h).row.flag /\ Step(h).row.refs.product = product
    /\ Has(y) /\ At(y).flag /\ At(y).refs.product = product /\ x # y
    => product \in raced

PrimaryInv == PrimaryOnce /\ PrimaryNext

(* A product has its stock, or a request is just writing it.               *)
Stocked(product) == \E id \in RowsIn("stock") : At(id).refs.product = product

WritesStock(h, product) ==
  /\ calls[h] # <<>>
  /\ \/ Step(h) = UpsertStock(product)
     \/ IsSave(Step(h), "stock") /\ Step(h).row.refs.product = product

StockOnce ==
  \A product \in RowsIn("product") \ (cut \cup raced) :
    Stocked(product) \/ \E h \in Handlers : WritesStock(h, product)

StockNext ==
  \A h \in Handlers, product \in IdsOf("product") :
    Saving(h) /\ Step(h).id = product =>
      \/ product \in raced \/ Has(product)
      \/ Len(calls[h]) > 1 /\ calls[h][2] = UpsertStock(product)

(* A stock row that a request has found is still there, or it went while   *)
(* the request had its product in hand.                                    *)
StockFound ==
  \A h \in Handlers :
    In(h, "update") /\ Step(h).id \in IdsOf("stock") =>
      Has(Step(h).id) \/ Step(h).row.refs.product \in raced

StockInv == StockOnce /\ StockNext /\ StockFound

(* All that is, or is to be, written to a row.                             *)
Queued(id) ==
  UNION {{calls[h][i].row : i \in {j \in DOMAIN calls[h] :
            Writes(calls[h][j]) /\ calls[h][j].id = id}} : h \in Handlers}

Borne(id) == {row \in {At(id)} : Has(id)} \cup Queued(id)

FixedRef == [sub |-> "category", state |-> "country", stock |-> "product", link |-> "product"]

Fixed == DOMAIN FixedRef

(* Sub-categories, states, stock rows and links never change their parent. *)
OneParent ==
  \A t \in Fixed : \A id \in IdsOf(t) : \A r, s \in Borne(id) :
    r.refs[FixedRef[t]] = s.refs[FixedRef[t]]

OnlyUsed ==
  \A t \in Fixed \cup {"city"} : \A id \in IdsOf(t) : Borne(id) # {} => id[2] <= used[t]

(* The two levels of links and cities: low[t], and high[t] above it.       *)
Low == [link |-> "sub", city |-> "state"]
High == [link |-> "category", city |-> "country"]

Agrees(t, low, high) ==
  \/ t = "city" /\ high = None
  \/ \A v \in Borne(low) : v.refs[High[t]] = high

(* Any two rows borne for one id: an UPDATE may take the low level from    *)
(* one of them and the high level from the other.                          *)
LevelsKnown ==
  \A t \in {"link", "city"} : \A id \in IdsOf(t), low \in IdsOf(Low[t]) : \A r, s \in Borne(id) :
    r.refs[Low[t]] = low =>
      /\ low[2] <= used[Low[t]]
      /\ id \in moved \/ Agrees(t, low, s.refs[High[t]])

(* The category of a link that no request wanted to move.                  *)
HighOnce ==
  \A id \in IdsOf("link") \ moved : \A r, s \in Borne(id) : r.refs.category = s.refs.category

LevelsInv == OneParent /\ OnlyUsed /\ LevelsKnown /\ HighOnce

CatalogInv ==
  /\ BaseInv /\ ApprovedInv /\ UnusedNext /\ NamesInv /\ PrimaryInv /\ StockInv /\ LevelsInv

-----------------------------------------------------------------------------
(* Ids and rows.                                                           *)
LEMMA IdParts ==
  ASSUME NEW t \in TableNames, NEW id \in IdsOf(t)
  PROVE  /\ id[1] = t /\ id[2] \in 1..Slots[t] /\ id = <<t, id[2]>>
         /\ id \in Ids /\ id # None
BY TablesAssumption DEF IdsOf, Ids

LEMMA IdsHaveTables ==
  ASSUME NEW id \in Ids
  PROVE  id[1] \in TableNames /\ id \in IdsOf(id[1]) /\ id # None
<1>1. PICK t \in TableNames : id \in IdsOf(t)
  BY DEF Ids
<1> QED BY <1>1, IdParts

LEMMA NumberedIds ==
  ASSUME NEW t \in TableNames, NEW n \in Nat, n > 0, n <= Slots[t]
  PROVE  <<t, n>> \in IdsOf(t)
BY TablesAssumption DEF IdsOf

LEMMA RefTables ==
  ASSUME NEW t \in TableNames
  PROVE  RefsOf[t] \subseteq TableNames
BY DEF RefsOf, TableNames

LEMMA RowParts ==
  ASSUME NEW t \in TableNames, NEW row \in RowOf(t)
  PROVE  /\ row # None
         /\ row.key \in Names \cup {None} /\ row.flag \in BOOLEAN
         /\ row.number \in Nat \cup {None}
         /\ row.refs \in [RefsOf[t] -> Ids \cup {None}]
         /\ \A ref \in RefsOf[t] :
              \/ row.refs[ref] \in IdsOf(ref)
              \/ row.refs[ref] = None /\ <<t, ref>> \notin NotNull
         /\ row = [key |-> row.key, flag |-> row.flag, number |-> row.number, refs |-> row.refs]
BY TablesAssumption DEF RowOf

LEMMA RefParts ==
  ASSUME NEW t \in TableNames, NEW row \in RowOf(t), NEW ref \in RefsOf[t]
  PROVE  \/ row.refs[ref] \in IdsOf(ref) /\ row.refs[ref] # None
         \/ row.refs[ref] = None /\ <<t, ref>> \notin NotNull
<1>1. \/ row.refs[ref] \in IdsOf(ref)
      \/ row.refs[ref] = None /\ <<t, ref>> \notin NotNull
  BY DEF RowOf
<1>2. ref \in TableNames
  BY RefTables
<1> QED BY <1>1, <1>2, IdParts

LEMMA NoneIsNoRow ==
  \A t \in TableNames : None \notin RowOf(t)
BY TablesAssumption

LEMMA RowType ==
  ASSUME NEW t \in TableNames, NEW key \in Names \cup {None}, NEW flag \in BOOLEAN,
         NEW number \in Nat \cup {None}, NEW refs, refs \in [RefsOf[t] -> Ids \cup {None}],
         \A ref \in RefsOf[t] :
           refs[ref] \in IdsOf(ref) \/ (refs[ref] = None /\ <<t, ref>> \notin NotNull)
  PROVE  [key |-> key, flag |-> flag, number |-> number, refs |-> refs] \in RowOf(t)
BY DEF RowOf

(* Rows with one field changed.                                            *)
LEMMA KeyChanged ==
  ASSUME NEW t \in TableNames, NEW row \in RowOf(t),
         NEW key \in Names \cup {None}
  PROVE  /\ [row EXCEPT !.key = key] \in RowOf(t)
         /\ [row EXCEPT !.key = key] =
              [key |-> key, flag |-> row.flag, number |-> row.number, refs |-> row.refs]
<1>1. PICK k, f, n, r : row = [key |-> k, flag |-> f, number |-> n, refs |-> r]
  BY RowParts
<1>2. row.key = k /\ row.flag = f /\ row.number = n /\ row.refs = r
  BY <1>1
<1>3. [row EXCEPT !.key = key] = [key |-> key, flag |-> row.flag, number |-> row.number, refs |-> row.refs]
  BY <1>1, <1>2
<1>4. [key |-> key, flag |-> row.flag, number |-> row.number, refs |-> row.refs] \in RowOf(t)
  BY RowParts, RowType
<1> QED BY <1>3, <1>4

LEMMA FlagChanged ==
  ASSUME NEW t \in TableNames, NEW row \in RowOf(t),
         NEW flag \in BOOLEAN
  PROVE  /\ [row EXCEPT !.flag = flag] \in RowOf(t)
         /\ [row EXCEPT !.flag = flag] =
              [key |-> row.key, flag |-> flag, number |-> row.number, refs |-> row.refs]
<1>1. PICK k, f, n, r : row = [key |-> k, flag |-> f, number |-> n, refs |-> r]
  BY RowParts
<1>2. row.key = k /\ row.flag = f /\ row.number = n /\ row.refs = r
  BY <1>1
<1>3. [row EXCEPT !.flag = flag] = [key |-> row.key, flag |-> flag, number |-> row.number, refs |-> row.refs]
  BY <1>1, <1>2
<1>4. [key |-> row.key, flag |-> flag, number |-> row.number, refs |-> row.refs] \in RowOf(t)
  BY RowParts, RowType
<1> QED BY <1>3, <1>4

LEMMA RefsChanged ==
  ASSUME NEW t \in TableNames, NEW row \in RowOf(t),
         NEW refs, refs \in [RefsOf[t] -> Ids \cup {None}],
         \A ref \in RefsOf[t] :
           refs[ref] \in IdsOf(ref) \/ (refs[ref] = None /\ <<t, ref>> \notin NotNull)
  PROVE  /\ [row EXCEPT !.refs = refs] \in RowOf(t)
         /\ [row EXCEPT !.refs = refs] =
              [key |-> row.key, flag |-> row.flag, number |-> row.number, refs |-> refs]
<1>1. PICK k, f, n, r : row = [key |-> k, flag |-> f, number |-> n, refs |-> r]
  BY RowParts
<1>2. row.key = k /\ row.flag = f /\ row.number = n /\ row.refs = r
  BY <1>1
<1>3. [row EXCEPT !.refs = refs] = [key |-> row.key, flag |-> row.flag, number |-> row.number, refs |-> refs]
  BY <1>1, <1>2
<1>4. [key |-> row.key, flag |-> row.flag, number |-> row.number, refs |-> refs] \in RowOf(t)
  BY RowParts, RowType
<1> QED BY <1>3, <1>4

LEMMA Rows ==
  ASSUME RowsTyped, NEW t \in TableNames, NEW id \in IdsOf(t)
  PROVE  /\ At(id) \in RowOf(t) \cup {None}
         /\ Has(id) <=> At(id) # None
         /\ Has(id) => At(id) \in RowOf(t)
         /\ id \in RowsIn(t) <=> Has(id)
<1>1. id[1] = t /\ id[2] \in 1..Slots[t] /\ id # None
  BY IdParts
<1>2. rows[t][id[2]] \in RowOf(t) \cup {None}
  BY <1>1 DEF RowsTyped
<1>3. At(id) = rows[t][id[2]]
  BY <1>1 DEF At
<1>4. Has(id) <=> At(id) # None
  BY <1>1 DEF Has
<1> QED BY <1>2, <1>3, <1>4 DEF RowsIn

LEMMA RowsInTable ==
  ASSUME RowsTyped, NEW t \in TableNames, NEW id \in RowsIn(t)
  PROVE  id \in IdsOf(t) /\ id[1] = t /\ id \in Ids /\ Has(id) /\ At(id) \in RowOf(t)
BY Rows, IdParts DEF RowsIn

(* Rows after one of them was written.                                     *)
LEMMA Written ==
  ASSUME RowsTyped, NEW t \in TableNames, NEW id \in IdsOf(t), NEW row \in RowOf(t),
         rows' = RowsWith(id, row)
  PROVE  /\ RowsTyped'
         /\ At(id)' = row
         /\ \A x \in Ids \ {id} : At(x)' = At(x)
<1>1. id[1] = t /\ id[2] \in 1..Slots[t] /\ id = <<t, id[2]>> /\ t \in DOMAIN rows
  BY IdParts DEF RowsTyped
<1>2. rows' = [rows EXCEPT ![t] = [rows[t] EXCEPT ![id[2]] = row]]
  BY <1>1 DEF RowsWith
<1>3. rows'[t] = [rows[t] EXCEPT ![id[2]] = row] /\ \A u \in TableNames \ {t} : rows'[u] = rows[u]
  BY <1>1, <1>2 DEF RowsTyped
<1>4. RowsTyped'
  BY <1>1, <1>2, <1>3 DEF RowsTyped
<1>5. At(id)' = row
  BY <1>1, <1>3 DEF At, RowsTyped
<1>6. ASSUME NEW x \in Ids \ {id}
      PROVE  At(x)' = At(x)
  <2>1. x[1] \in TableNames /\ x[2] \in 1..Slots[x[1]] /\ x = <<x[1], x[2]>>
    BY IdsHaveTables, IdParts
  <2>2. CASE x[1] # t
    BY <2>1, <2>2, <1>3 DEF At
  <2>3. CASE x[1] = t
    <3>1. x[2] # id[2]
      BY <2>1, <2>3, <1>1
    <3> QED BY <2>1, <2>3, <3>1, <1>3 DEF At, RowsTyped
  <2> QED BY <2>2, <2>3
<1> QED BY <1>4, <1>5, <1>6

(* Rows taken away: what goes, and what is forgotten of the rest.          *)
LEMMA NulledRow ==
  ASSUME NEW t \in TableNames, NEW row \in RowOf(t), NEW gone
  PROVE  /\ Nulled(row, t, gone) \in RowOf(t)
         /\ Nulled(row, t, gone).key = row.key
         /\ Nulled(row, t, gone).flag = row.flag
         /\ Nulled(row, t, gone).number = row.number
         /\ \A ref \in RefsOf[t] :
              Nulled(row, t, gone).refs[ref] =
                IF <<t, ref>> \in Nulling /\ row.refs[ref] \in gone THEN None ELSE row.refs[ref]
<1> DEFINE refs == [ref \in RefsOf[t] |->
     IF <<t, ref>> \in Nulling /\ row.refs[ref] \in gone THEN None ELSE row.refs[ref]]
<1>2. refs \in [RefsOf[t] -> Ids \cup {None}]
  BY RowParts
<1>3. \A ref \in RefsOf[t] :
        refs[ref] \in IdsOf(ref) \/ (refs[ref] = None /\ <<t, ref>> \notin NotNull)
  BY RowParts DEF Nulling, NotNull
<1>4. [key |-> row.key, flag |-> row.flag, number |-> row.number, refs |-> refs] \in RowOf(t)
  <2> HIDE DEF refs
  <2> QED BY <1>2, <1>3, RowParts, RowType
<1>1. Nulled(row, t, gone) = [key |-> row.key, flag |-> row.flag, number |-> row.number, refs |-> refs]
  <2> HIDE DEF refs
  <2>1. Nulled(row, t, gone) = [row EXCEPT !.refs = refs]
    BY DEF Nulled, refs
  <2> QED BY <1>2, <1>3, <2>1, RowParts, RefsChanged
<1> QED BY <1>1, <1>4

LEMMA TakenAway ==
  ASSUME RowsTyped, NEW gone, rows' = RowsWithout(gone)
  PROVE  /\ RowsTyped'
         /\ \A x \in Ids : At(x)' = IF x \in gone \/ At(x) = None THEN None
                                    ELSE Nulled(At(x), x[1], gone)
<1>1. ASSUME NEW t \in TableNames, NEW n \in 1..Slots[t]
      PROVE  /\ rows'[t][n] = IF <<t, n>> \in gone \/ rows[t][n] = None THEN None
                              ELSE Nulled(rows[t][n], t, gone)
             /\ rows'[t][n] \in RowOf(t) \cup {None}
  <2>1. rows'[t][n] = IF <<t, n>> \in gone \/ rows[t][n] = None THEN None
                      ELSE Nulled(rows[t][n], t, gone)
    BY DEF RowsWithout
  <2>2. rows[t][n] \in RowOf(t) \cup {None}
    BY DEF RowsTyped
  <2> QED BY <2>1, <2>2, NulledRow
<1>2. DOMAIN rows' = TableNames /\ \A t \in TableNames : rows'[t] = [n \in 1..Slots[t] |-> rows'[t][n]]
  BY DEF RowsWithout
<1>3. RowsTyped'
  BY <1>1, <1>2 DEF RowsTyped
<1>4. ASSUME NEW x \in Ids
      PROVE  At(x)' = IF x \in gone \/ At(x) = None THEN None ELSE Nulled(At(x), x[1], gone)
  <2>1. x[1] \in TableNames /\ x[2] \in 1..Slots[x[1]] /\ x = <<x[1], x[2]>>
    BY IdsHaveTables, IdParts
  <2> QED BY <2>1, <1>1 DEF At
<1> QED BY <1>3, <1>4

(* The other links of a product, no longer primary.                        *)
Unset(row) == [key |-> row.key, flag |-> FALSE, number |-> row.number, refs |-> row.refs]

LEMMA Cleared ==
  ASSUME RowsTyped, NEW unset,
         rows' = [rows EXCEPT !.link = [n \in DOMAIN @ |->
                    IF <<"link", n>> \in unset THEN [@[n] EXCEPT !.flag = FALSE] ELSE @[n]]],
         unset \subseteq RowsIn("link")
  PROVE  /\ RowsTyped'
         /\ \A x \in Ids \ unset : At(x)' = At(x)
         /\ \A x \in unset : At(x)' = Unset(At(x))
<1>1. "link" \in TableNames /\ "link" \in DOMAIN rows
  BY DEF TableNames, RefsOf, RowsTyped
<1>2. /\ rows'["link"] = [n \in 1..Slots["link"] |->
           IF <<"link", n>> \in unset THEN [rows["link"][n] EXCEPT !.flag = FALSE]
           ELSE rows["link"][n]]
      /\ \A t \in TableNames \ {"link"} : rows'[t] = rows[t]
      /\ DOMAIN rows' = TableNames
  BY <1>1 DEF RowsTyped
<1>3. ASSUME NEW n \in 1..Slots["link"], <<"link", n>> \in unset
      PROVE  /\ [rows["link"][n] EXCEPT !.flag = FALSE] \in RowOf("link")
             /\ [rows["link"][n] EXCEPT !.flag = FALSE] = Unset(rows["link"][n])
  <2>1. At(<<"link", n>>) \in RowOf("link")
    BY <1>1, <1>3, RowsInTable
  <2>2. rows["link"][n] \in RowOf("link")
    BY <2>1 DEF At
  <2> QED BY <1>1, <2>2, FlagChanged DEF Unset
<1>4. RowsTyped'
  BY <1>1, <1>2, <1>3 DEF RowsTyped
<1>5. ASSUME NEW x \in Ids
      PROVE  At(x)' = IF x \in unset THEN Unset(At(x)) ELSE At(x)
  <2>1. x[1] \in TableNames /\ x[2] \in 1..Slots[x[1]] /\ x = <<x[1], x[2]>>
    BY IdsHaveTables, IdParts
  <2>2. x \in unset => x[1] = "link"
    BY <1>1, RowsInTable
  <2>3. CASE x[1] # "link"
    BY <2>1, <2>2, <2>3, <1>2 DEF At
  <2>4. CASE x[1] = "link"
    <3>1. At(x)' = rows'["link"][x[2]] /\ At(x) = rows["link"][x[2]]
      BY <2>4 DEF At
    <3>2. x = <<"link", x[2]>> /\ x[2] \in 1..Slots["link"]
      BY <2>1, <2>4
    <3> DEFINE n == x[2]
    <3> HIDE DEF n
    <3>4. /\ n \in 1..Slots["link"] /\ x = <<"link", n>>
      BY <3>2 DEF n
    <3>5. rows'["link"][n] =
            IF <<"link", n>> \in unset THEN [rows["link"][n] EXCEPT !.flag = FALSE]
            ELSE rows["link"][n]
      BY <3>4, <1>2
    <3>3. rows'["link"][x[2]] =
            IF x \in unset THEN Unset(rows["link"][x[2]]) ELSE rows["link"][x[2]]
      BY <3>4, <3>5, <1>3 DEF n
    <3> QED BY <3>1, <3>3, Zenon
  <2> QED BY <2>3, <2>4
<1>6. unset \subseteq Ids
  BY <1>1, RowsInTable
<1> QED BY <1>4, <1>5, <1>6

-----------------------------------------------------------------------------
(* Queues.                                                                 *)
LEMMA SettingsIds ==
  ASSUME NEW t \in TableNames, NEW id \in IdsOf(t)
  PROVE  id \notin IdsOf("settings") <=> t # "settings"
BY IdParts DEF TableNames, RefsOf

LEMMA SaveTypes ==
  ASSUME NEW t \in TableNames \ {"settings"}, NEW step \in Saves(t)
  PROVE  /\ step.do \in {"save", "insert", "update"} /\ Writes(step)
         /\ step.id \in IdsOf(t) /\ step.id[1] = t /\ step.row \in RowOf(t)
         /\ step.do = "update" => step.stored \in RowOf(t)
<1>1. /\ step.do \in {"save", "insert", "update"} /\ step.id \in IdsOf(t) /\ step.row \in RowOf(t)
      /\ step.do = "update" => step.stored \in RowOf(t)
  BY DEF Saves
<1>2. step.id[1] = t /\ step.id \notin IdsOf("settings")
  BY <1>1, IdParts, SettingsIds
<1> QED BY <1>1, <1>2 DEF Writes

LEMMA StepTypes ==
  ASSUME NEW step \in Steps
  PROVE  /\ step.do \in {"save", "insert", "update", "change", "drop", "clear", "stock", "assign"}
         /\ Writes(step) =>
              /\ step.id[1] \in TableNames \ {"settings"}
              /\ step.id \in IdsOf(step.id[1]) /\ step.row \in RowOf(step.id[1])
              /\ step.do = "update" => step.stored \in RowOf(step.id[1])
         /\ step.do \in {"save", "update"} => Writes(step)
         /\ ~Writes(step) /\ step.do \in {"insert", "change"} =>
              step.id \in IdsOf("settings") /\ step.row \in RowOf("settings")
         /\ step.do = "drop" => step.id \in Ids \ IdsOf("stock")
         /\ step.do = "clear" =>
              step.id \in IdsOf("product") /\ step.but \in IdsOf("link") \cup {None}
         /\ step.do = "stock" => step.id \in IdsOf("product") /\ step = UpsertStock(step.id)
         /\ step.do = "assign" =>
              step.id \in IdsOf("product") /\ step.target \in IdsOf("category") \cup IdsOf("sub")
<1>1. CASE \E t \in TableNames \ {"settings"} : step \in Saves(t)
  <2>1. PICK t \in TableNames \ {"settings"} : step \in Saves(t)
    BY <1>1
  <2> QED BY <2>1, SaveTypes
<1>2. CASE step \in SettingsChanges
  <2>1. /\ step.do \in {"insert", "change"} /\ step.id \in IdsOf("settings")
        /\ step.row \in RowOf("settings")
    BY <1>2 DEF SettingsChanges
  <2> QED BY <2>1 DEF Writes
<1>3. CASE step \in Drops
  BY <1>3 DEF Drops, Writes
<1>4. CASE step \in Clears
  BY <1>4 DEF Clears, Writes
<1>5. CASE step \in Stocks
  BY <1>5 DEF Stocks, UpsertStock, Writes
<1>6. CASE step \in Assigns
  BY <1>6 DEF Assigns, Writes
<1>7. \/ \E t \in TableNames \ {"settings"} : step \in Saves(t)
      \/ step \in SettingsChanges \/ step \in Drops \/ step \in Clears
      \/ step \in Stocks \/ step \in Assigns
  <2>1. step \in AnySave => \E t \in TableNames \ {"settings"} : step \in Saves(t)
    BY DEF AnySave
  <2> QED BY <2>1 DEF Steps
<1> QED BY <1>1, <1>2, <1>3, <1>4, <1>5, <1>6, <1>7

LEMMA SavesAre ==
  ASSUME NEW t \in TableNames \ {"settings"}, NEW id \in IdsOf(t), NEW row \in RowOf(t)
  PROVE  /\ Save(id, row) \in Steps /\ Insert(id, row) \in Steps
         /\ Writes(Save(id, row)) /\ Writes(Insert(id, row))
         /\ \A stored \in RowOf(t) : Update(id, row, stored) \in Steps /\ Writes(Update(id, row, stored))
<1>1. /\ Save(id, row) \in Saves(t) /\ Insert(id, row) \in Saves(t)
      /\ \A stored \in RowOf(t) : Update(id, row, stored) \in Saves(t)
  BY DEF Saves, Save, Insert, Update
<1>2. Saves(t) \subseteq Steps
  BY DEF AnySave, Steps
<1> QED BY <1>1, <1>2, SaveTypes

LEMMA StepsAre ==
  /\ \A t \in TableNames \ {"settings"} : \A id \in IdsOf(t), row \in RowOf(t) :
       Save(id, row) \in Steps /\ Writes(Save(id, row))
  /\ \A id \in IdsOf("settings"), row \in RowOf("settings") :
       Insert(id, row) \in Steps /\ Change(id, row) \in Steps
  /\ \A id \in Ids \ IdsOf("stock") : Drop(id) \in Steps
  /\ \A id \in IdsOf("product"), but \in IdsOf("link") \cup {None} : ClearPrimary(id, but) \in Steps
  /\ \A id \in IdsOf("product") : UpsertStock(id) \in Steps
  /\ \A id \in IdsOf("product"), target \in IdsOf("category") \cup IdsOf("sub") :
       Assign(id, target) \in Steps
<1>2. \A id \in IdsOf("settings"), row \in RowOf("settings") :
        Insert(id, row) \in SettingsChanges /\ Change(id, row) \in SettingsChanges
  BY DEF SettingsChanges, Insert, Change
<1>3. \A id \in Ids \ IdsOf("stock") : Drop(id) \in Drops
  BY DEF Drops, Drop
<1>4. \A id \in IdsOf("product"), but \in IdsOf("link") \cup {None} : ClearPrimary(id, but) \in Clears
  BY DEF Clears, ClearPrimary
<1>5. \A id \in IdsOf("product") : UpsertStock(id) \in Stocks
  BY DEF Stocks, UpsertStock
<1>6. \A id \in IdsOf("product"), target \in IdsOf("category") \cup IdsOf("sub") :
        Assign(id, target) \in Assigns
  BY DEF Assigns, Assign
<1>7. /\ SettingsChanges \subseteq Steps /\ Drops \subseteq Steps /\ Clears \subseteq Steps
      /\ Stocks \subseteq Steps /\ Assigns \subseteq Steps
  BY DEF Steps
<1> QED
  <2>1. \A t \in TableNames \ {"settings"} : \A id \in IdsOf(t), row \in RowOf(t) :
          Save(id, row) \in Steps /\ Writes(Save(id, row))
    BY SavesAre
  <2>2. \A id \in IdsOf("settings"), row \in RowOf("settings") :
          Insert(id, row) \in Steps /\ Change(id, row) \in Steps
    BY <1>2, <1>7
  <2> QED BY <1>3, <1>4, <1>5, <1>6, <1>7, <2>1, <2>2

LEMMA QueueHead ==
  ASSUME NEW q, Queue(q), q # <<>>
  PROVE  1 \in DOMAIN q /\ Head(q) = q[1] /\ q[1] \in Steps
BY DEF Queue

LEMMA QueueTail ==
  ASSUME NEW q, Queue(q), q # <<>>
  PROVE  /\ Queue(Tail(q))
         /\ \A i \in DOMAIN Tail(q) : i + 1 \in DOMAIN q /\ Tail(q)[i] = q[i + 1]
         /\ q[1].do = "drop" => Tail(q) = <<>>
         /\ Tail(q) # <<>> => Head(Tail(q)) = q[2] /\ 2 \in DOMAIN q /\ Follows(q, 2)
<1>1. q \in Seq(Steps) /\ Tail(q) \in Seq(Steps) /\ 1 \in DOMAIN q
  BY DEF Queue
<1>2. \A i \in DOMAIN Tail(q) : i \in Nat /\ i > 0 /\ i + 1 \in DOMAIN q /\ Tail(q)[i] = q[i + 1]
  BY <1>1
<1>3. Tail(q) # <<>> => 1 \in DOMAIN Tail(q) /\ Head(Tail(q)) = Tail(q)[1]
  BY <1>1
<1>4. Tail(q) # <<>> => Head(Tail(q)) = q[2] /\ 2 \in DOMAIN q /\ Follows(q, 2)
  BY <1>2, <1>3 DEF Queue
<1>5. ASSUME NEW i \in DOMAIN Tail(q), i > 1
      PROVE  Follows(Tail(q), i) /\ Tail(q)[1].do # "drop"
  <2>1. i \in Nat /\ i + 1 > 2 /\ i + 1 \in DOMAIN q /\ Tail(q)[i] = q[i + 1]
    BY <1>2, <1>5
  <2>2. Follows(q, i + 1)
    BY <2>1 DEF Queue
  <2>3. q[i + 1].do = "assign"
    BY <2>1, <2>2 DEF Follows
  <2>4. Head(Tail(q)) = Tail(q)[1] /\ Head(Tail(q)) = q[2] /\ Follows(q, 2)
    BY <1>3, <1>4
  <2>5. q[2].do # "drop"
    BY <2>4 DEF Follows, IsSave, Writes, UpsertStock
  <2> QED BY <2>1, <2>3, <2>4, <2>5 DEF Follows
<1>6. Queue(Tail(q))
  BY <1>1, <1>5 DEF Queue
<1>7. q[1].do = "drop" => Tail(q) = <<>>
  BY <1>4 DEF Queue
<1> QED BY <1>2, <1>4, <1>6, <1>7

(* A step that becomes a save: what was queued behind it stays behind it.  *)
LEMMA QueueAgain ==
  ASSUME NEW q, Queue(q), q # <<>>, q[1].do \in {"stock", "assign"},
         NEW step \in Steps, Writes(step)
  PROVE  /\ Queue(<<step>> \o Tail(q))
         /\ <<step>> \o Tail(q) # <<>>
         /\ Head(<<step>> \o Tail(q)) = step
         /\ 1 \in DOMAIN (<<step>> \o Tail(q)) /\ (<<step>> \o Tail(q))[1] = step
         /\ \A i \in DOMAIN (<<step>> \o Tail(q)) :
              i # 1 => i \in DOMAIN q /\ (<<step>> \o Tail(q))[i] = q[i] /\ q[i].do = "assign"
<1> DEFINE p == <<step>> \o Tail(q)
<1>1. q \in Seq(Steps)
  BY DEF Queue
<1>2. /\ p \in Seq(Steps) /\ p # <<>> /\ Head(p) = step /\ 1 \in DOMAIN p /\ p[1] = step
      /\ \A i \in DOMAIN p : i # 1 => i > 1 /\ i \in DOMAIN q /\ p[i] = q[i]
  BY <1>1
<1> HIDE DEF p
<1>3. ASSUME NEW i \in DOMAIN p, i # 1
      PROVE  i > 1 /\ q[i].do = "assign"
  <2>1. Follows(q, i)
    BY <1>2, <1>3 DEF Queue
  <2> QED BY <1>2, <1>3, <2>1 DEF Follows, IsSave, Writes
<1>4. Queue(p)
  BY <1>2, <1>3 DEF Queue, Follows, Writes
<1> QED BY <1>2, <1>3, <1>4 DEF p

(* A save that has found its row, or none: the same entity, and the same   *)
(* behind it.                                                              *)
LEMMA QueueSame ==
  ASSUME NEW q, Queue(q), q # <<>>, Writes(q[1]),
         NEW step \in Steps, Writes(step), step.id = q[1].id, step.row = q[1].row
  PROVE  /\ Queue(<<step>> \o Tail(q))
         /\ <<step>> \o Tail(q) # <<>>
         /\ Head(<<step>> \o Tail(q)) = step
         /\ Len(<<step>> \o Tail(q)) = Len(q)
         /\ DOMAIN (<<step>> \o Tail(q)) = DOMAIN q /\ (<<step>> \o Tail(q))[1] = step
         /\ \A i \in DOMAIN q : i # 1 => (<<step>> \o Tail(q))[i] = q[i]
<1> DEFINE p == <<step>> \o Tail(q)
<1>1. q \in Seq(Steps)
  BY DEF Queue
<1>2. /\ p \in Seq(Steps) /\ p # <<>> /\ Head(p) = step /\ 1 \in DOMAIN p /\ p[1] = step
      /\ DOMAIN p = DOMAIN q /\ Len(p) = Len(q)
      /\ \A i \in DOMAIN q : i # 1 => i > 1 /\ p[i] = q[i]
  BY <1>1
<1> HIDE DEF p
<1>3. ASSUME NEW i \in DOMAIN p, i > 1
      PROVE  Follows(p, i)
  <2>1. Follows(q, i) /\ p[i] = q[i]
    BY <1>2, <1>3 DEF Queue
  <2>2. i = 2 => p[2] = q[2]
    BY <2>1
  <2>3. q[1].do # "clear" /\ (IsSave(q[1], "product") => IsSave(step, "product"))
    BY DEF IsSave, Writes
  <2> QED BY <1>2, <2>1, <2>2, <2>3 DEF Follows
<1>4. Queue(p)
  BY <1>2, <1>3 DEF Queue, Writes
<1> QED BY <1>2, <1>4 DEF p

LEMMA QueueOfOne ==
  ASSUME NEW step \in Steps
  PROVE  /\ Queue(<<step>>) /\ <<step>> # <<>> /\ Head(<<step>>) = step
         /\ Len(<<step>>) = 1 /\ DOMAIN <<step>> = {1} /\ <<step>>[1] = step
BY DEF Queue

LEMMA NoQueue == Queue(<<>>) /\ DOMAIN <<>> = {}
BY DEF Queue

LEMMA CallsAfter ==
  ASSUME Queues, NEW h \in Handlers, NEW q, Queue(q), calls' = [calls EXCEPT ![h] = q]
  PROVE  /\ Queues' /\ calls'[h] = q
         /\ \A g \in Handlers \ {h} : calls'[g] = calls[g]
BY DEF Queues

LEMMA HeadOf ==
  ASSUME Queues, NEW h \in Handlers, calls[h] # <<>>
  PROVE  /\ Step(h) = calls[h][1] /\ Step(h) \in Steps
         /\ 1 \in DOMAIN calls[h] /\ Queue(calls[h])
BY QueueHead DEF Queues, Step

(* The next statement of the others is the same as before.                 *)
LEMMA OthersWait ==
  ASSUME Queues, NEW h \in Handlers, NEW q, Queue(q), calls' = [calls EXCEPT ![h] = q],
         NEW g \in Handlers \ {h}
  PROVE  /\ calls'[g] = calls[g] /\ Step(g)' = Step(g)
         /\ Saving(g)' <=> Saving(g)
         /\ \A do : In(g, do)' <=> In(g, do)
<1>1. calls'[g] = calls[g]
  BY CallsAfter
<1> QED BY <1>1 DEF Step, In, Saving

(* What a request has in hand.                                             *)
LEMMA Holds ==
  ASSUME Queues, NEW h \in Handlers, calls[h] # <<>>
  PROVE  InHand(Step(h)) \subseteq HeldBy(h)
<1>1. Step(h) = calls[h][1] /\ 1 \in DOMAIN calls[h]
  BY HeadOf
<1> QED BY <1>1 DEF HeldBy

LEMMA SaveHolds ==
  ASSUME NEW step \in Steps
  PROVE  /\ step.id \in InHand(step)
         /\ Writes(step) =>
              /\ \A ref \in RefsOf[step.id[1]] :
                   step.row.refs[ref] # None => step.row.refs[ref] \in InHand(step)
              /\ step.row.key # None => <<step.id[1], step.row.key>> \in InHand(step)
<1>1. step.id \in InHand(step)
  BY DEF InHand
<1>2. ASSUME Writes(step)
      PROVE  /\ \A ref \in RefsOf[step.id[1]] :
                  step.row.refs[ref] # None => step.row.refs[ref] \in InHand(step)
             /\ step.row.key # None => <<step.id[1], step.row.key>> \in InHand(step)
  <2>1. step.row \in RowOf(step.id[1]) /\ step.id[1] \in TableNames
    BY <1>2, StepTypes
  <2>2. DOMAIN step.row.refs = RefsOf[step.id[1]]
    BY <2>1, RowParts
  <2>3. InHand(step) = {step.id}
          \cup ({x \in {step.row.refs[ref] : ref \in DOMAIN step.row.refs} : x # None}
                \cup {x \in {<<step.id[1], step.row.key>>} : x[2] # None})
    BY <1>2 DEF InHand, Writes
  <2> QED BY <2>2, <2>3
<1> QED BY <1>1, <1>2

-----------------------------------------------------------------------------
(* The steps, by what they do to rows and queues.                          *)

(* The row is gone, or lacks what it lacks now; nothing is added to it.    *)
Lessened(x) ==
  \/ At(x)' = None
  \/ /\ At(x) # None /\ At(x)' # None
     /\ At(x)'.key = At(x).key /\ At(x)'.number = At(x).number
     /\ (At(x)'.flag => At(x).flag)
     /\ \A ref \in RefsOf[x[1]] :
          \/ At(x)'.refs[ref] = At(x).refs[ref]
          \/ At(x)'.refs[ref] = None /\ <<x[1], ref>> \in Nulling

Passes(h, written) ==
  /\ calls[h] # <<>>
  /\ Goes(h, written)
  /\ merged \subseteq merged'
  /\ UNCHANGED <<used, requests, cut, moved, approvals>>

(* Column by column, a row is the entity or what was there.                *)
Between(row, entity, now) ==
  /\ row.key \in {entity.key, now.key} /\ row.flag \in {entity.flag, now.flag}
  /\ row.number \in {entity.number, now.number}
  /\ \A ref \in DOMAIN entity.refs : row.refs[ref] \in {entity.refs[ref], now.refs[ref]}

(* save() has found the row, or that there is none.                        *)
Selects(h) ==
  \E step \in Steps :
    /\ Saving(h) /\ Writes(step) /\ step.id = Step(h).id /\ step.row = Step(h).row
    /\ step.do = "update" => Has(step.id)
    /\ calls' = [calls EXCEPT ![h] = <<step>> \o Tail(calls[h])]
    /\ UNCHANGED <<rows, used, requests, raced, cut, moved, approvals, merged>>

SaveGoes(h) ==
  \E row : \E id \in Ids :
    /\ Saving(h) /\ id = Step(h).id /\ row \in RowOf(id[1])
    /\ row = Step(h).row \/ (Has(id) /\ Between(row, Step(h).row, At(id)))
    /\ id[1] = "product" => row = Step(h).row \/ <<id, row.key>> \in merged'
    /\ At(id)' = row /\ \A x \in Ids \ {id} : At(x)' = At(x)
    /\ Passes(h, InHand(Step(h)))

(* The row is gone before its UPDATE.                                      *)
Misses(h) ==
  /\ In(h, "update") /\ ~Has(Step(h).id)
  /\ UNCHANGED rows
  /\ Passes(h, InHand(Step(h)))

LessGoes(h) ==
  /\ calls[h] # <<>> /\ Step(h).do \in {"insert", "change", "drop", "clear"} /\ ~Writes(Step(h))
  /\ \A x \in Ids \ IdsOf("settings") : Lessened(x)
  /\ \E written :
       /\ Passes(h, written)
       /\ \A x \in Ids : At(x) # None /\ At(x)' = None => x \in written
  /\ \A x \in IdsOf("stock"), product \in Ids :
       At(x) # None /\ At(x)' = None /\ At(x).refs.product = product => At(product)' = None
  /\ \A x \in Ids :
       x[1] \in {"shipping", "parent"} /\ At(x) # None /\ At(x)' = None =>
         /\ Step(h).do = "drop" /\ Step(h).id = x
         /\ x[1] = "parent" => \A y \in RowsIn("category") : At(y).refs.parent # x
  /\ Step(h).do = "clear" =>
       \A x \in RowsIn("link") :
         At(x).refs.product = Step(h).id => x = Step(h).but \/ ~At(x)'.flag

Stops(h) ==
  /\ calls[h] # <<>>
  /\ calls' = [calls EXCEPT ![h] = <<>>]
  /\ cut \subseteq cut' /\ cut' \subseteq Ids
  /\ \A product \in RowsIn("product") : WritesStock(h, product) => product \in cut' \/ Stocked(product)
  /\ UNCHANGED <<rows, used, requests, raced, moved, approvals, merged>>

(* What a request has seen when it decides on a row to save.               *)
LevelsSeen(t, id, row) ==
  LET low == row.refs[Low[t]]
      high == row.refs[High[t]]
  IN  /\ low # None => Has(low) \/ (Has(id) /\ At(id).refs[Low[t]] = low)
      /\ \/ id \in moved'
         \/ /\ Has(id) /\ At(id).refs[High[t]] = high
            /\ \/ At(id).refs[Low[t]] = low
               \/ t = "link" /\ Has(low) /\ At(low).refs[High[t]] = high
         \/ /\ id[2] = used[t] + 1
            /\ low # None => (t = "city" /\ high = None) \/ At(low).refs[High[t]] = high

NewOne(id) == id[2] = used[id[1]] + 1 /\ id[2] <= used'[id[1]]

SaveDecided(id, row) ==
  /\ id[1] = "product" /\ row.flag => <<id, row.key>> \in approvals'
  /\ id[1] \in {"attribute", "product"} =>
       WithKey(id[1], row.key) = {} \/ (Has(id) /\ At(id).key = row.key)
  /\ id[1] \in Fixed =>
       (Has(id) /\ At(id).refs[FixedRef[id[1]]] = row.refs[FixedRef[id[1]]]) \/ NewOne(id)
  /\ id[1] = "city" => Has(id) \/ NewOne(id)
  /\ id[1] \in {"link", "city"} => LevelsSeen(id[1], id, row)

FirstDecided(q) ==
  /\ IsSave(q[1], "link") /\ q[1].row.flag =>
       Has(q[1].id) /\ At(q[1].id).flag /\ At(q[1].id).refs.product = q[1].row.refs.product
  /\ IsSave(q[1], "product") => Has(q[1].id) \/ (Len(q) > 1 /\ q[2] = UpsertStock(q[1].id))
  /\ q[1].do = "drop" /\ q[1].id[1] = "shipping" => Chosen(q[1].id) = {}
  /\ ~IsSave(q[1], "stock") /\ q[1].do # "stock"

Decided(q) ==
  /\ FirstDecided(q)
  /\ \A i \in DOMAIN q : Writes(q[i]) => SaveDecided(q[i].id, q[i].row)

Grown ==
  /\ Counted' /\ \A t \in TableNames : used[t] <= used'[t]
  /\ moved \subseteq moved' /\ moved' \subseteq Ids
  /\ approvals \subseteq approvals'
  /\ UNCHANGED <<rows, raced, cut, merged>>

Begins(h) ==
  \E q :
    /\ calls[h] = <<>>
    /\ Queue(q) /\ q # <<>> /\ Decided(q)
    /\ calls' = [calls EXCEPT ![h] = q]
    /\ requests' \in 0..MaxRequests
    /\ Grown

(* A statement that turns into the saving of a row.                        *)
Finds(h) ==
  \E step \in Steps :
    /\ calls[h] # <<>> /\ step.do = "save" /\ SaveDecided(step.id, step.row)
    /\ \/ Step(h).do = "stock" /\ IsSave(step, "stock") /\ step.row.refs.product = Step(h).id
       \/ Step(h).do = "assign" /\ IsSave(step, "link") /\ ~step.row.flag
    /\ calls' = [calls EXCEPT ![h] = <<step>> \o Tail(calls[h])]
    /\ Grown
    /\ UNCHANGED <<requests, moved, approvals>>

CatalogStep(h) ==
  \/ Begins(h) \/ Finds(h) \/ Selects(h) \/ SaveGoes(h) \/ Misses(h) \/ LessGoes(h) \/ Stops(h)

-----------------------------------------------------------------------------
(* The schema: foreign keys and unique indexes.                            *)
Alike(r, s, columns) ==
  \A column \in columns : ColumnOf(r, column) # None /\ ColumnOf(r, column) = ColumnOf(s, column)

LEMMA UniqueColumns ==
  ASSUME NEW t \in TableNames, NEW columns \in UniqueOn[t], NEW column \in columns
  PROVE  column \in {"key", "number"} \cup RefsOf[t]
BY DEF UniqueOn, RefsOf, TableNames

LEMMA ClashIs ==
  ASSUME RowsTyped, NEW t \in TableNames, NEW id \in IdsOf(t), NEW row
  PROVE  Clash(id, row) <=>
           \E other \in RowsIn(t) \ {id}, columns \in UniqueOn[t] : Alike(row, At(other), columns)
BY IdParts DEF Clash, Alike

LEMMA RefsExistIs ==
  ASSUME NEW t \in TableNames, NEW row
  PROVE  RefsExist(t, row) <=>
           \A ref \in RefsOf[t] :
             <<t, ref>> \notin Unenforced /\ row.refs[ref] # None => Has(row.refs[ref])
BY DEF RefsExist

LEMMA SchemaSaved ==
  ASSUME RowsTyped, RowsTyped', Schema, NEW t \in TableNames, NEW id \in IdsOf(t),
         NEW row \in RowOf(t), Fits(id, row),
         At(id)' = row, \A x \in Ids \ {id} : At(x)' = At(x)
  PROVE  Schema'
<1>1. id \in Ids /\ id[1] = t /\ row # None
  BY IdParts, RowParts
<1>2. \A x \in Ids : /\ Has(x) <=> At(x) # None
                     /\ Has(x)' <=> At(x)' # None
                     /\ Has(x) => Has(x)' /\ (x # id => (Has(x)' => Has(x)))
  BY <1>1, IdsHaveTables DEF Has
<1>3. ASSUME NEW x \in Ids, Has(x)'
      PROVE  RefsExist(x[1], At(x))'
  <2>1. x[1] \in TableNames /\ x \in IdsOf(x[1])
    BY IdsHaveTables
  <2>2. At(x)' \in RowOf(x[1]) /\ RefsExist(x[1], At(x)')
    <3>1. CASE x = id
      BY <3>1, <1>1 DEF Fits
    <3>2. CASE x # id
      BY <2>1, <3>2, <1>2, <1>3, Rows DEF Schema
    <3> QED BY <3>1, <3>2
  <2>3. ASSUME NEW ref \in RefsOf[x[1]], <<x[1], ref>> \notin Unenforced,
               At(x)'.refs[ref] # None
        PROVE  Has(At(x).refs[ref])'
    <3>1. At(x)'.refs[ref] \in Ids
      BY <2>1, <2>2, <2>3, RowParts
    <3>2. Has(At(x)'.refs[ref])
      BY <2>1, <2>2, <2>3, RefsExistIs
    <3> QED BY <3>1, <3>2, <1>2
  <2> QED BY <2>3 DEF RefsExist
<1>4. ASSUME NEW x \in Ids, Has(x)'
      PROVE  ~Clash(x, At(x))'
  <2> DEFINE u == x[1]
  <2>1. u \in TableNames /\ x \in IdsOf(u)
    BY IdsHaveTables
  <2>2. SUFFICES ASSUME NEW other \in RowsIn(u)' \ {x}, NEW columns \in UniqueOn[u],
                        Alike(At(x)', At(other)', columns)
                 PROVE  FALSE
    BY <2>1 DEF Clash, Alike
  <2>3. other \in IdsOf(u) /\ other \in Ids /\ Has(other)'
    BY <2>1, IdParts DEF RowsIn
  <2>4. CASE x = id
    <3>1. other \in RowsIn(t) \ {id} /\ At(other)' = At(other) /\ u = t
      BY <2>3, <2>4, <1>1, <1>2 DEF RowsIn
    <3>2. Clash(id, row)
      BY <2>2, <2>4, <3>1, ClashIs
    <3> QED BY <3>2 DEF Fits
  <2>5. CASE other = id
    <3>1. x \in RowsIn(t) \ {id} /\ At(x)' = At(x) /\ u = t
      BY <2>1, <2>2, <2>3, <2>5, <1>1, <1>2, <1>4, IdParts DEF RowsIn
    <3>2. Alike(row, At(x), columns)
      BY <2>2, <2>5, <3>1 DEF Alike
    <3>3. Clash(id, row)
      BY <2>2, <3>1, <3>2, ClashIs
    <3> QED BY <3>3 DEF Fits
  <2>6. CASE x # id /\ other # id
    <3>1. other \in RowsIn(u) \ {x} /\ At(other)' = At(other) /\ At(x)' = At(x) /\ Has(x)
      BY <2>2, <2>3, <2>6, <1>2, <1>4 DEF RowsIn
    <3>2. Clash(x, At(x))
      BY <2>1, <2>2, <3>1, ClashIs
    <3> QED BY <3>1, <3>2 DEF Schema
  <2> QED BY <2>4, <2>5, <2>6
<1> QED BY <1>3, <1>4 DEF Schema

LEMMA SchemaLessened ==
  ASSUME RowsTyped, RowsTyped', Schema,
         \A x \in Ids \ IdsOf("settings") : Lessened(x),
         \A x \in Ids : Has(x)' => RefsExist(x[1], At(x))'
  PROVE  Schema'
<1>1. ASSUME NEW x \in Ids, Has(x)'
      PROVE  ~Clash(x, At(x))'
  <2> DEFINE u == x[1]
  <2>1. u \in TableNames /\ x \in IdsOf(u)
    BY IdsHaveTables
  <2>2. SUFFICES ASSUME NEW other \in RowsIn(u)' \ {x}, NEW columns \in UniqueOn[u],
                        Alike(At(x)', At(other)', columns)
                 PROVE  FALSE
    BY <2>1 DEF Clash, Alike
  <2>3. other \in IdsOf(u) /\ other \in Ids /\ Has(other)' /\ other[1] = u
    BY <2>1, IdParts DEF RowsIn
  <2>4. u # "settings"
    BY <2>2 DEF UniqueOn, TableNames, RefsOf
  <2>5. x \notin IdsOf("settings") /\ other \notin IdsOf("settings")
    BY <2>1, <2>3, <2>4, IdParts DEF TableNames, RefsOf
  <2>6. Lessened(x) /\ Lessened(other) /\ At(x)' # None /\ At(other)' # None
    BY <2>3, <2>5, <1>1 DEF Has
  <2>7. ASSUME NEW column \in columns
        PROVE  /\ ColumnOf(At(x), column) # None
               /\ ColumnOf(At(x), column) = ColumnOf(At(other), column)
    <3>1. ColumnOf(At(x)', column) # None /\ ColumnOf(At(x)', column) = ColumnOf(At(other)', column)
      BY <2>2 DEF Alike
    <3>2. column \in {"key", "number"} \cup RefsOf[u]
      BY <2>1, UniqueColumns
    <3>3. ASSUME NEW y \in {x, other}
          PROVE  ColumnOf(At(y)', column) # None => ColumnOf(At(y)', column) = ColumnOf(At(y), column)
      BY <2>3, <2>6, <3>2 DEF Lessened, ColumnOf
    <3> QED BY <3>1, <3>3
  <2>8. Alike(At(x), At(other), columns)
    BY <2>7 DEF Alike
  <2>9. Has(x) /\ other \in RowsIn(u) \ {x}
    BY <2>2, <2>3, <2>6, <1>1, IdsHaveTables DEF Lessened, Has, RowsIn
  <2>10. Clash(x, At(x))
    BY <2>1, <2>2, <2>8, <2>9, ClashIs
  <2> QED BY <2>9, <2>10 DEF Schema
<1> QED BY <1>1 DEF Schema

(* What goes with a row: nothing that stays refers to it any more.         *)
Cascading ==
  {<<"sub", "category">>, <<"stock", "product">>, <<"link", "product">>, <<"link", "category">>,
   <<"link", "sub">>, <<"state", "country">>, <<"banner", "category">>, <<"subscription", "user">>}

LEMMA CascadingIs ==
  ASSUME NEW t \in TableNames, NEW ref \in RefsOf[t],
         <<t, ref>> \notin Restricting \cup Nulling \cup Unenforced
  PROVE  <<t, ref>> \in Cascading
BY DEF TableNames, RefsOf, Restricting, Nulling, Unenforced, Cascading

LEMMA RefersIs ==
  ASSUME RowsTyped, NEW x \in Ids, NEW ref \in RefsOf[x[1]], Has(x), At(x).refs[ref] # None
  PROVE  /\ x[1] \in TableNames /\ ref \in TableNames
         /\ At(x).refs[ref] \in IdsOf(ref) /\ At(x).refs[ref] \in Ids
         /\ At(x).refs[ref][1] = ref
<1>1. x[1] \in TableNames /\ x \in IdsOf(x[1])
  BY IdsHaveTables
<1>2. At(x) \in RowOf(x[1]) /\ ref \in TableNames
  BY <1>1, Rows, RefTables
<1>3. \A r \in RefsOf[x[1]] : At(x).refs[r] \in IdsOf(r) \/ At(x).refs[r] = None
  BY <1>1, <1>2, RefParts
<1>4. At(x).refs[ref] \in IdsOf(ref)
  BY <1>3
<1> QED BY <1>1, <1>2, <1>4, IdParts

LEMMA CascadesAre ==
  ASSUME RowsTyped, NEW ids, ids \subseteq Ids, NEW x \in Ids
  PROVE  x \in CascadesFrom(ids) <=>
           /\ Has(x)
           /\ \E ref \in RefsOf[x[1]] :
                <<x[1], ref>> \notin Restricting \cup Nulling \cup Unenforced /\ At(x).refs[ref] \in ids
BY DEF CascadesFrom, RefersBy

LEMMA GoneIsClosed ==
  ASSUME RowsTyped, NEW id \in Ids, NEW y \in GoesWith(id), NEW x \in Ids, Has(x),
         NEW ref \in RefsOf[x[1]], <<x[1], ref>> \notin Restricting \cup Nulling \cup Unenforced,
         At(x).refs[ref] = y
  PROVE  x \in GoesWith(id)
<1> DEFINE near == {id} \cup CascadesFrom({id})
           far == CascadesFrom(near)
<1>1. CascadesFrom({id}) \subseteq Ids /\ near \subseteq Ids /\ far \subseteq Ids /\ y # None
  BY IdsHaveTables DEF CascadesFrom, GoesWith
<1>2. GoesWith(id) = near \cup far
  BY DEF GoesWith
<1>3. CASE y \in near
  <2>1. x \in CascadesFrom(near)
    BY <1>1, <1>3, CascadesAre
  <2> QED BY <1>2, <2>1
<1>4. CASE y \notin near
  <2>1. y \in far
    BY <1>2, <1>4
  <2>2. PICK r2 \in RefsOf[y[1]] :
          /\ <<y[1], r2>> \notin Restricting \cup Nulling \cup Unenforced
          /\ Has(y) /\ At(y).refs[r2] \in near
    BY <1>1, <2>1, CascadesAre
  <2> DEFINE z == At(y).refs[r2]
  <2>3. y \in Ids /\ z \in Ids /\ y[1] \in TableNames
    BY <1>1, <2>1, <2>2, IdsHaveTables
  <2>4. z # id
    BY <2>2, <2>3, <1>4, CascadesAre
  <2>5. PICK r3 \in RefsOf[z[1]] :
          <<z[1], r3>> \notin Restricting \cup Nulling \cup Unenforced
    <3>1. z \in CascadesFrom({id}) /\ {id} \subseteq Ids
      BY <2>2, <2>4
    <3> QED BY <2>3, <3>1, CascadesAre
  <2>6. z[1] = r2 /\ y[1] = ref /\ x[1] \in TableNames /\ z[1] \in TableNames
    BY <2>2, <2>3, <1>1, RefersIs, IdsHaveTables
  <2>7. <<y[1], r2>> \in Cascading /\ <<r2, r3>> \in Cascading /\ <<x[1], y[1]>> \in Cascading
    BY <2>2, <2>3, <2>5, <2>6, CascadingIs
  <2> QED BY <2>7 DEF Cascading
<1> QED BY <1>3, <1>4

LEMMA GoneRows ==
  ASSUME RowsTyped, NEW id \in Ids
  PROVE  /\ id \in GoesWith(id) /\ GoesWith(id) \subseteq Ids
         /\ \A x \in GoesWith(id) : x = id \/
              \E ref \in RefsOf[x[1]] :
                <<x[1], ref>> \in Cascading /\ Has(x) /\ At(x).refs[ref] \in GoesWith(id)
<1> DEFINE near == {id} \cup CascadesFrom({id})
           far == CascadesFrom(near)
<1>1. CascadesFrom({id}) \subseteq Ids /\ near \subseteq Ids /\ far \subseteq Ids
  BY DEF CascadesFrom
<1>2. GoesWith(id) = near \cup far
  BY DEF GoesWith
<1>3. ASSUME NEW x \in GoesWith(id), x # id
      PROVE  \E ref \in RefsOf[x[1]] :
                <<x[1], ref>> \in Cascading /\ Has(x) /\ At(x).refs[ref] \in GoesWith(id)
  <2>1. x \in Ids /\ x[1] \in TableNames
    BY <1>1, <1>2, IdsHaveTables
  <2>2. \E ref \in RefsOf[x[1]] :
          /\ <<x[1], ref>> \notin Restricting \cup Nulling \cup Unenforced
          /\ Has(x) /\ At(x).refs[ref] \in near
    BY <1>1, <1>2, <1>3, <2>1, CascadesAre
  <2> QED BY <1>2, <2>1, <2>2, CascadingIs
<1> QED BY <1>1, <1>2, <1>3

LEMMA DropKeepsRefs ==
  ASSUME RowsTyped, RowsTyped', Schema, NEW id \in Ids, MayGo(GoesWith(id)),
         \A x \in Ids : At(x)' = IF x \in GoesWith(id) \/ At(x) = None THEN None
                                 ELSE Nulled(At(x), x[1], GoesWith(id)),
         NEW x \in Ids, Has(x)'
  PROVE  RefsExist(x[1], At(x))'
<1> DEFINE gone == GoesWith(id)
<1>1. x[1] \in TableNames /\ x \in IdsOf(x[1]) /\ At(x)' # None
  BY IdsHaveTables DEF Has
<1>2. x \notin gone /\ At(x) # None /\ Has(x) /\ At(x)' = Nulled(At(x), x[1], gone)
  BY <1>1, IdsHaveTables DEF Has
<1>3. ASSUME NEW ref \in RefsOf[x[1]], <<x[1], ref>> \notin Unenforced, At(x)'.refs[ref] # None
      PROVE  Has(At(x).refs[ref])'
  <2>1. PICK y : y = At(x).refs[ref]
    OBVIOUS
  <2>2. At(x)'.refs[ref] = y /\ y # None /\ ~(<<x[1], ref>> \in Nulling /\ y \in gone)
    BY <1>1, <1>2, <1>3, <2>1, Rows, NulledRow
  <2>3. y \in Ids /\ y \in IdsOf(ref) /\ ref \in TableNames
    BY <1>2, <2>1, <2>2, RefersIs
  <2>4. Has(y)
    BY <1>2, <1>3, <2>1, <2>2 DEF Schema, RefsExist
  <2>5. y \notin gone
    <3>1. CASE <<x[1], ref>> \in Restricting
      <4>1. ref \in {"parent", "product"}
        BY <3>1 DEF Restricting
      <4> QED BY <1>2, <2>1, <3>1, <4>1 DEF MayGo, RefersBy
    <3>2. CASE <<x[1], ref>> \in Nulling
      BY <3>2, <2>2
    <3>3. CASE <<x[1], ref>> \notin Restricting \cup Nulling
      BY <3>3, <1>2, <1>3, <2>1, GoneIsClosed
    <3> QED BY <3>1, <3>2, <3>3
  <2>6. At(y)' # None
    <3>1. At(y) \in RowOf(ref) /\ At(y) # None /\ y[1] = ref
      BY <2>3, <2>4, Rows, IdParts
    <3>2. Nulled(At(y), ref, gone) \in RowOf(ref)
      BY <2>3, <3>1, NulledRow
    <3>3. At(y)' = Nulled(At(y), ref, gone)
      BY <2>3, <2>5, <3>1
    <3> QED BY <2>3, <3>2, <3>3, NoneIsNoRow
  <2>7. Has(y)'
    BY <2>2, <2>6 DEF Has
  <2> QED BY <2>2, <2>7
<1> QED BY <1>3 DEF RefsExist

-----------------------------------------------------------------------------
(* Every statement keeps types and schema, and is one of the steps above.  *)
LEMMA PassesOn ==
  ASSUME BaseInv, NEW h \in Handlers, NEW written, Passes(h, written)
  PROVE  /\ Queues' /\ Counted' /\ requests' \in 0..MaxRequests /\ moved' \subseteq Ids
         /\ cut' \subseteq Ids
         /\ calls' = [calls EXCEPT ![h] = Tail(calls[h])] /\ Queue(Tail(calls[h]))
         /\ raced \subseteq raced'
         /\ \A x \in written, g \in Handlers \ {h} : x \in HeldBy(g) => x \in raced'
<1>1. Queue(Tail(calls[h])) /\ calls' = [calls EXCEPT ![h] = Tail(calls[h])]
  BY QueueTail DEF BaseInv, Queues, Passes, Goes, Goto
<1>2. Queues'
  BY <1>1, CallsAfter DEF BaseInv
<1>3. Counted' /\ requests' \in 0..MaxRequests /\ moved' \subseteq Ids /\ cut' \subseteq Ids
  BY DEF Passes, BaseInv, Counted
<1>4. raced \subseteq raced' /\ \A x \in written, g \in Handlers \ {h} : x \in HeldBy(g) => x \in raced'
  BY DEF Passes, Goes
<1> QED BY <1>1, <1>2, <1>3, <1>4

LEMMA StopsOn ==
  ASSUME BaseInv, NEW h \in Handlers, Stops(h)
  PROVE  BaseInv'
<1>1. Queues'
  BY CallsAfter, NoQueue DEF BaseInv, Stops
<1>2. RowsTyped' /\ Counted'
  BY DEF BaseInv, Stops, RowsTyped, Counted
<1>3. Schema'
  <2>1. rows' = rows
    BY DEF Stops
  <2>2. \A x : At(x)' = At(x) /\ (Has(x)' <=> Has(x))
    BY <2>1 DEF At, Has
  <2>3. \A t : RowsIn(t)' = RowsIn(t)
    BY <2>2 DEF RowsIn
  <2> QED BY <2>2, <2>3 DEF BaseInv, Schema, RefsExist, Clash
<1> QED BY <1>1, <1>2, <1>3 DEF BaseInv, Stops

LEMMA NothingGone ==
  ASSUME NEW t \in TableNames, NEW row \in RowOf(t)
  PROVE  Nulled(row, t, {}) = row
<1>1. row.refs = [ref \in RefsOf[t] |-> row.refs[ref]]
  BY RowParts
<1>2. Nulled(row, t, {}).refs = row.refs
  BY <1>1, RowParts DEF Nulled
<1>3. Nulled(row, t, {}) \in RowOf(t)
  BY NulledRow
<1> QED BY <1>2, <1>3, RowParts, NulledRow

LEMMA SameSchema ==
  ASSUME RowsTyped, Schema, \A x \in Ids : At(x)' = At(x)
  PROVE  Schema'
<1>1. \A x \in Ids : Has(x)' <=> Has(x)
  BY DEF Has
<1>2. \A t \in TableNames : RowsIn(t)' = RowsIn(t) /\ RowsIn(t) \subseteq Ids
  BY <1>1, IdParts DEF RowsIn
<1>3. ASSUME NEW x \in Ids, Has(x)'
      PROVE  RefsExist(x[1], At(x))' /\ ~Clash(x, At(x))'
  <2>1. At(x)' = At(x) /\ Has(x) /\ x[1] \in TableNames /\ x \in IdsOf(x[1])
    BY <1>1, <1>3, IdsHaveTables
  <2>2. RefsExist(x[1], At(x)) /\ ~Clash(x, At(x))
    BY <2>1 DEF Schema
  <2>3. RefsExist(x[1], At(x))'
    <3>1. ASSUME NEW ref \in RefsOf[x[1]], <<x[1], ref>> \notin Unenforced, At(x).refs[ref] # None
          PROVE  Has(At(x).refs[ref])'
      <4>1. PICK y : y = At(x).refs[ref]
        OBVIOUS
      <4>2. y \in Ids /\ Has(y)
        BY <2>1, <2>2, <3>1, <4>1, RefersIs DEF RefsExist
      <4>3. Has(y)'
        BY <4>2, <1>1
      <4> QED BY <2>1, <4>1, <4>3
    <3> QED BY <2>1, <3>1 DEF RefsExist
  <2>4. ~Clash(x, At(x))'
    BY <1>2, <2>1, <2>2 DEF Clash
  <2> QED BY <2>3, <2>4
<1> QED BY <1>3 DEF Schema

LEMMA Bears ==
  ASSUME Queues, NEW h \in Handlers, Saving(h)
  PROVE  Step(h).row \in Borne(Step(h).id)
<1>1. Step(h) = calls[h][1] /\ 1 \in DOMAIN calls[h]
  BY HeadOf DEF Saving
<1> QED BY <1>1 DEF Borne, Queued, Saving

LEMMA SavingTypes ==
  ASSUME BaseInv, NEW h \in Handlers, Saving(h)
  PROVE  /\ calls[h] # <<>> /\ Step(h) \in Steps /\ Writes(Step(h)) /\ RowsTyped /\ Schema /\ Queues
         /\ Step(h).id[1] \in TableNames \ {"settings"}
         /\ Step(h).id \in IdsOf(Step(h).id[1]) /\ Step(h).id \in Ids /\ Step(h).id # None
         /\ Step(h).row \in RowOf(Step(h).id[1])
         /\ Step(h).do = "update" => Step(h).stored \in RowOf(Step(h).id[1])
<1>1. calls[h] # <<>> /\ Step(h) \in Steps /\ Writes(Step(h)) /\ RowsTyped /\ Schema /\ Queues
  BY HeadOf DEF Saving, BaseInv
<1> QED BY <1>1, StepTypes, IdParts

LEMMA MergedType ==
  ASSUME NEW t \in TableNames, NEW entity \in RowOf(t), NEW stored \in RowOf(t), NEW now \in RowOf(t)
  PROVE  MergedRow(entity, stored, now) \in RowOf(t) /\ Between(MergedRow(entity, stored, now), entity, now)
<1> DEFINE refs == [ref \in DOMAIN entity.refs |->
                      Merged(entity.refs[ref], stored.refs[ref], now.refs[ref])]
           row == MergedRow(entity, stored, now)
<1>1. DOMAIN entity.refs = RefsOf[t]
  BY RowParts
<1>2. \A ref \in RefsOf[t] : refs[ref] \in {entity.refs[ref], now.refs[ref]}
  BY <1>1 DEF Merged
<1>3. /\ row.key \in {entity.key, now.key} /\ row.flag \in {entity.flag, now.flag}
      /\ row.number \in {entity.number, now.number} /\ row.refs = refs
      /\ row = [key |-> row.key, flag |-> row.flag, number |-> row.number, refs |-> refs]
  BY DEF MergedRow, Merged
<1>4. /\ row.key \in Names \cup {None} /\ row.flag \in BOOLEAN /\ row.number \in Nat \cup {None}
  BY <1>3, RowParts
<1>5. \A ref \in RefsOf[t] :
        refs[ref] \in IdsOf(ref) \/ (refs[ref] = None /\ <<t, ref>> \notin NotNull)
  BY <1>2, RowParts
<1>6. refs \in [RefsOf[t] -> Ids \cup {None}]
  <2>1. entity.refs \in [RefsOf[t] -> Ids \cup {None}] /\ now.refs \in [RefsOf[t] -> Ids \cup {None}]
    BY RowParts
  <2>2. \A ref \in RefsOf[t] : entity.refs[ref] \in Ids \cup {None} /\ now.refs[ref] \in Ids \cup {None}
    BY <2>1
  <2>3. refs = [ref \in RefsOf[t] |-> refs[ref]]
    BY <1>1
  <2> HIDE DEF refs
  <2> QED BY <1>2, <2>2, <2>3
<1>7. Between(row, entity, now)
  BY <1>1, <1>2, <1>3 DEF Between
<1>8. row \in RowOf(t)
  <2>1. PICK k, f, n, r : k = row.key /\ f = row.flag /\ n = row.number /\ r = refs
    OBVIOUS
  <2> HIDE DEF row, refs
  <2>2. [key |-> k, flag |-> f, number |-> n, refs |-> r] \in RowOf(t)
    BY <1>4, <1>5, <1>6, <2>1, RowType
  <2> QED BY <1>3, <2>1, <2>2
<1> QED BY <1>7, <1>8

LEMMA RowGoes ==
  ASSUME BaseInv, NEW h \in Handlers, Saving(h), NEW id, NEW row, id = Step(h).id, row \in RowOf(id[1]),
         row = Step(h).row \/ (Has(id) /\ Between(row, Step(h).row, At(id))),
         id[1] = "product" => row = Step(h).row \/ <<id, row.key>> \in merged',
         Fits(id, row), rows' = RowsWith(id, row), Passes(h, InHand(Step(h)))
  PROVE  BaseInv' /\ CatalogStep(h)
<1>1. RowsTyped /\ Schema /\ id[1] \in TableNames /\ id \in IdsOf(id[1]) /\ id \in Ids
  BY SavingTypes
<1>2. RowsTyped' /\ At(id)' = row /\ \A x \in Ids \ {id} : At(x)' = At(x)
  BY <1>1, Written
<1>3. Schema'
  BY <1>1, <1>2, SchemaSaved
<1>4. BaseInv'
  BY <1>2, <1>3, PassesOn DEF BaseInv
<1>5. SaveGoes(h)
  BY <1>1, <1>2 DEF SaveGoes
<1> QED BY <1>4, <1>5 DEF CatalogStep

LEMMA RowRefused ==
  ASSUME BaseInv, OneParent, NEW h \in Handlers, Saving(h), Refused(h),
         UNCHANGED <<used, requests, cut, moved, approvals, merged>>,
         Has(Step(h).id) \/ ~Fits(Step(h).id, Step(h).row)
  PROVE  BaseInv' /\ CatalogStep(h)
<1>1. PICK id, row : id = Step(h).id /\ row = Step(h).row
  OBVIOUS
<1>2. /\ RowsTyped /\ Queues /\ id \in IdsOf(id[1]) /\ id[1] \in TableNames /\ row \in RowOf(id[1])
      /\ calls[h] # <<>> /\ Writes(Step(h))
  BY <1>1, SavingTypes
<1>3. UNCHANGED <<rows, used, requests, raced, cut, moved, approvals, merged>> /\ calls' = [calls EXCEPT ![h] = <<>>]
  BY DEF Refused, Goto
<1>4. ASSUME NEW product \in RowsIn("product"), WritesStock(h, product)
      PROVE  Stocked(product)
  <2>1. id[1] = "stock" /\ row.refs.product = product
    BY <1>1, <1>2, <1>4 DEF WritesStock, IsSave, UpsertStock, Writes
  <2>2. CASE Has(id)
    <3>1. row \in Borne(id) /\ At(id) \in Borne(id) /\ id \in RowsIn("stock")
      BY <1>1, <1>2, <2>1, <2>2, Bears, Rows DEF Borne
    <3>2. At(id).refs.product = product
      BY <1>2, <2>1, <3>1 DEF OneParent, Fixed, FixedRef
    <3> QED BY <3>1, <3>2 DEF Stocked
  <2>3. CASE ~Has(id)
    <3>2. RefsExist("stock", row)
      BY <1>4, <2>1 DEF RefsExist, RefsOf, RowsIn
    <3>3. Clash(id, row)
      BY <1>1, <2>1, <2>3, <3>2 DEF Fits
    <3>4. PICK other \in RowsIn("stock") \ {id}, columns \in UniqueOn["stock"] :
            Alike(row, At(other), columns)
      BY <1>2, <2>1, <3>3, ClashIs
    <3>5. columns = {"product"}
      BY <3>4 DEF UniqueOn, TableNames, RefsOf
    <3>6. ColumnOf(row, "product") = ColumnOf(At(other), "product")
      BY <3>4, <3>5 DEF Alike
    <3> QED BY <2>1, <3>4, <3>6 DEF ColumnOf, Stocked
  <2> QED BY <2>2, <2>3
<1>5. Stops(h)
  BY <1>2, <1>3, <1>4 DEF Stops, BaseInv
<1> QED BY <1>5, StopsOn DEF CatalogStep

(* save() runs its SELECT.                                                 *)
LEMMA SelectIs ==
  ASSUME BaseInv, NEW h \in Handlers, SelectStep(h)
  PROVE  BaseInv' /\ CatalogStep(h)
<1>1. PICK id, row : id = Step(h).id /\ row = Step(h).row
  OBVIOUS
<1>2. calls[h] # <<>> /\ Step(h) \in Steps /\ Step(h).do = "save"
  BY HeadOf DEF SelectStep, In, BaseInv
<1>3. Saving(h)
  BY <1>2, StepTypes DEF Saving
<1>4. /\ RowsTyped /\ Schema /\ Queues /\ id[1] \in TableNames \ {"settings"} /\ id \in IdsOf(id[1])
      /\ row \in RowOf(id[1])
  BY <1>1, <1>3, SavingTypes
<1>5. PICK step : step = IF Has(id) THEN Update(id, row, At(id)) ELSE Insert(id, row)
  OBVIOUS
<1>6. step \in Steps /\ Writes(step)
  BY <1>4, <1>5, Rows, SavesAre
<1>7. step.id = id /\ step.row = row /\ (step.do = "update" => Has(id))
  BY <1>5 DEF Update, Insert
<1>8. /\ calls' = [calls EXCEPT ![h] = <<step>> \o Tail(calls[h])]
      /\ UNCHANGED <<rows, used, requests, raced, cut, moved, approvals, merged>>
  BY <1>1, <1>5 DEF SelectStep, Goto
<1>9. Selects(h)
  BY <1>1, <1>3, <1>6, <1>7, <1>8 DEF Selects
<1>10. Queues'
  <2>1. Queue(calls[h]) /\ Step(h) = calls[h][1]
    BY <1>2, <1>4, HeadOf
  <2>2. Queue(<<step>> \o Tail(calls[h]))
    BY <1>1, <1>2, <1>3, <1>6, <1>7, <2>1, QueueSame DEF Saving
  <2> QED BY <1>4, <1>8, <2>2, CallsAfter
<1>11. RowsTyped' /\ Counted' /\ requests' \in 0..MaxRequests /\ moved' \subseteq Ids /\ cut' \subseteq Ids
  BY <1>8 DEF BaseInv, RowsTyped, Counted
<1>12. Schema'
  <2>1. \A x \in Ids : At(x)' = At(x)
    BY <1>8 DEF At
  <2> QED BY <1>4, <2>1, SameSchema
<1> QED BY <1>9, <1>10, <1>11, <1>12 DEF BaseInv, CatalogStep

(* ... then its UPDATE                                                     *)
LEMMA UpdateIs ==
  ASSUME BaseInv, OneParent, NEW h \in Handlers, UpdateStep(h)
  PROVE  BaseInv' /\ CatalogStep(h)
<1>1. PICK id, row : id = Step(h).id /\ row = MergedRow(Step(h).row, Step(h).stored, At(id))
  OBVIOUS
<1>2. calls[h] # <<>> /\ Step(h) \in Steps /\ Step(h).do = "update" /\ In(h, "update")
  BY HeadOf DEF UpdateStep, In, BaseInv
<1>3. Saving(h)
  BY <1>2, StepTypes DEF Saving
<1>4. /\ RowsTyped /\ Schema /\ id[1] \in TableNames /\ id \in IdsOf(id[1])
      /\ Step(h).row \in RowOf(id[1]) /\ Step(h).stored \in RowOf(id[1])
  BY <1>1, <1>2, <1>3, SavingTypes
<1>5. CASE ~Has(id)
  <2>1. rows' = rows /\ Passes(h, InHand(Step(h)))
    BY <1>1, <1>2, <1>5 DEF UpdateStep, Passes
  <2>2. Misses(h)
    BY <1>1, <1>2, <1>5, <2>1 DEF Misses
  <2>3. Schema'
    <3>1. \A x \in Ids : At(x)' = At(x)
      BY <2>1 DEF At
    <3> QED BY <1>4, <3>1, SameSchema
  <2>4. RowsTyped'
    BY <1>4, <2>1 DEF RowsTyped
  <2>5. BaseInv'
    BY <2>1, <2>3, <2>4, PassesOn DEF BaseInv
  <2> QED BY <2>2, <2>5 DEF CatalogStep
<1>6. CASE Has(id) /\ ~Fits(id, row)
  <2>1. Refused(h) /\ UNCHANGED <<used, requests, cut, moved, approvals, merged>>
    BY <1>1, <1>6 DEF UpdateStep
  <2> QED BY <1>1, <1>3, <1>6, <2>1, RowRefused
<1>7. CASE Has(id) /\ Fits(id, row)
  <2>1. At(id) \in RowOf(id[1])
    BY <1>4, <1>7, Rows
  <2>2. row \in RowOf(id[1]) /\ Between(row, Step(h).row, At(id))
    BY <1>1, <1>4, <2>1, MergedType
  <2>3. /\ rows' = RowsWith(id, row) /\ Goes(h, InHand(Step(h)))
        /\ merged' = merged \cup {x \in {<<id, row.key>>} : id[1] = "product" /\ row # Step(h).row}
        /\ UNCHANGED <<used, requests, cut, moved, approvals>>
    BY <1>1, <1>7 DEF UpdateStep
  <2>4. Passes(h, InHand(Step(h)))
    BY <1>2, <2>3 DEF Passes
  <2>5. id[1] = "product" => row = Step(h).row \/ <<id, row.key>> \in merged'
    BY <2>3
  <2> QED BY <1>1, <1>3, <1>7, <2>2, <2>3, <2>4, <2>5, RowGoes
<1> QED BY <1>5, <1>6, <1>7

(* ... or its INSERT.                                                      *)
LEMMA InsertIs ==
  ASSUME BaseInv, OneParent, NEW h \in Handlers, InsertStep(h), Writes(Step(h))
  PROVE  BaseInv' /\ CatalogStep(h)
<1>1. PICK id, row : id = Step(h).id /\ row = Step(h).row
  OBVIOUS
<1>2. calls[h] # <<>> /\ Saving(h)
  BY DEF InsertStep, In, Saving
<1>3. row \in RowOf(id[1])
  BY <1>1, <1>2, SavingTypes
<1>4. CASE Has(id) \/ ~Fits(id, row)
  <2>1. Refused(h) /\ UNCHANGED <<used, requests, cut, moved, approvals, merged>>
    BY <1>1, <1>4 DEF InsertStep
  <2> QED BY <1>1, <1>2, <1>4, <2>1, RowRefused
<1>5. CASE ~(Has(id) \/ ~Fits(id, row))
  <2>1. rows' = RowsWith(id, row) /\ Passes(h, InHand(Step(h)))
    BY <1>1, <1>2, <1>5 DEF InsertStep, Passes
  <2> QED BY <1>1, <1>2, <1>3, <1>5, <2>1, RowGoes
<1> QED BY <1>4, <1>5

LEMMA SettingsIs ==
  ASSUME BaseInv, NEW h \in Handlers, InsertStep(h) \/ ChangeStep(h), ~Writes(Step(h))
  PROVE  BaseInv' /\ CatalogStep(h)
<1>1. PICK id, row : id = Step(h).id /\ row = Step(h).row
  OBVIOUS
<1>2. /\ calls[h] # <<>> /\ Step(h) \in Steps /\ Step(h).do \in {"insert", "change"}
      /\ RowsTyped /\ Schema
  BY HeadOf DEF InsertStep, ChangeStep, In, BaseInv
<1>3. "settings" \in TableNames /\ id \in IdsOf("settings") /\ row \in RowOf("settings") /\ id \in Ids
  BY <1>1, <1>2, StepTypes, IdParts DEF TableNames, RefsOf
<1>4. CASE rows' \in {rows, RowsWith(id, row)} /\ (At(id) # None \/ rows' = RowsWith(id, row) \/ rows' = rows)
           /\ Passes(h, InHand(Step(h)))
  <2>1. RowsTyped' /\ \A x \in Ids \ {id} : At(x)' = At(x)
    <3>1. CASE rows' = rows
      BY <1>2, <3>1 DEF RowsTyped, At
    <3>2. CASE rows' = RowsWith(id, row)
      BY <1>2, <1>3, <3>2, Written
    <3> QED BY <1>4, <3>1, <3>2
  <2>2. At(id)' = At(id) \/ At(id)' = row
    BY <1>2, <1>3, <1>4, Written DEF At
  <2>3. \A x \in Ids \ IdsOf("settings") : At(x)' = At(x)
    BY <1>3, <2>1
  <2>4. \A x \in Ids : At(x) # None => At(x)' # None
    BY <1>3, <2>1, <2>2, NoneIsNoRow
  <2>5. \A x \in Ids \ IdsOf("settings") : Lessened(x)
    BY <2>3 DEF Lessened
  <2>6. ASSUME NEW x \in Ids, Has(x)'
        PROVE  RefsExist(x[1], At(x))'
    <3>1. x[1] \in TableNames /\ x \in IdsOf(x[1])
      BY IdsHaveTables
    <3>2. ASSUME NEW ref \in RefsOf[x[1]], <<x[1], ref>> \notin Unenforced, At(x)'.refs[ref] # None
          PROVE  Has(At(x).refs[ref])'
      <4>1. x[1] # "settings" /\ x \notin IdsOf("settings")
        BY <3>1, <3>2, <1>3, IdParts DEF RefsOf
      <4>2. PICK y : y = At(x).refs[ref]
        OBVIOUS
      <4>3. At(x)' = At(x) /\ Has(x) /\ At(x)'.refs[ref] = y /\ y # None
        BY <2>3, <2>6, <3>2, <4>1, <4>2 DEF Has
      <4>4. y \in Ids /\ Has(y)
        BY <1>2, <3>2, <4>2, <4>3, RefersIs DEF Schema, RefsExist
      <4>5. Has(y)'
        BY <2>4, <4>4 DEF Has
      <4> QED BY <4>3, <4>5
    <3> QED BY <3>2 DEF RefsExist
  <2>7. Schema'
    BY <1>2, <2>1, <2>5, <2>6, SchemaLessened
  <2>8. BaseInv'
    BY <1>4, <2>1, <2>7, PassesOn DEF BaseInv
  <2>9. \A x \in IdsOf("stock") : x \in Ids /\ At(x)' = At(x)
    BY <2>3, IdParts DEF TableNames, RefsOf
  <2>10. LessGoes(h)
    BY <1>2, <1>4, <2>4, <2>5, <2>9 DEF LessGoes
  <2> QED BY <2>8, <2>10 DEF CatalogStep
<1>5. CASE Refused(h) /\ InsertStep(h)
  <2>1. \A product : ~WritesStock(h, product)
    BY <1>2 DEF WritesStock, UpsertStock, IsSave
  <2>2. Stops(h)
    BY <1>2, <1>5, <2>1 DEF Stops, BaseInv, Refused, Goto, InsertStep
  <2> QED BY <2>2, StopsOn DEF CatalogStep
<1> QED BY <1>1, <1>2, <1>4, <1>5 DEF InsertStep, ChangeStep, Passes

LEMMA ChangeIs ==
  ASSUME BaseInv, NEW h \in Handlers, ChangeStep(h)
  PROVE  BaseInv' /\ CatalogStep(h)
<1>1. ~Writes(Step(h))
  BY DEF ChangeStep, In, Writes
<1> QED BY <1>1, SettingsIs

LEMMA DropIs ==
  ASSUME BaseInv, NEW h \in Handlers, DropStep(h)
  PROVE  BaseInv' /\ CatalogStep(h)
<1>1. PICK id : id = Step(h).id
  OBVIOUS
<1>2. PICK gone : gone = IF Has(id) THEN GoesWith(id) ELSE {}
  OBVIOUS
<1>3. /\ calls[h] # <<>> /\ Step(h) \in Steps /\ Step(h).do = "drop"
      /\ RowsTyped /\ Schema /\ id \in Ids /\ id \notin IdsOf("stock")
  BY <1>1, HeadOf, StepTypes DEF DropStep, In, BaseInv
<1>4. CASE MayGo(gone)
  <2>1. rows' = RowsWithout(gone) /\ Passes(h, gone)
    BY <1>1, <1>2, <1>3, <1>4 DEF DropStep, Passes
  <2>2. /\ RowsTyped'
        /\ \A x \in Ids : At(x)' = IF x \in gone \/ At(x) = None THEN None
                                   ELSE Nulled(At(x), x[1], gone)
    BY <1>3, <2>1, TakenAway
  <2>3. ASSUME NEW x \in Ids
        PROVE  /\ Lessened(x)
               /\ At(x) # None /\ At(x)' = None => x \in gone
               /\ x \in gone => At(x)' = None
    <3>1. x[1] \in TableNames /\ x \in IdsOf(x[1])
      BY IdsHaveTables
    <3>2. ASSUME At(x) # None, x \notin gone
          PROVE  At(x)' # None /\ Lessened(x)
      <4>1. At(x) \in RowOf(x[1]) /\ At(x)' = Nulled(At(x), x[1], gone)
        BY <1>3, <2>2, <3>1, <3>2, Rows
      <4>2. At(x)' # None
        BY <3>1, <4>1, NulledRow, NoneIsNoRow
      <4> QED BY <3>1, <3>2, <4>1, <4>2, NulledRow DEF Lessened
    <3> QED BY <2>2, <3>2 DEF Lessened
  <2>4. Schema'
    <3>1. CASE Has(id)
      <4>1. gone = GoesWith(id)
        BY <1>2, <3>1
      <4>2. ASSUME NEW x \in Ids, Has(x)'
            PROVE  RefsExist(x[1], At(x))'
        BY <1>3, <1>4, <2>2, <4>1, <4>2, DropKeepsRefs
      <4> QED BY <1>3, <2>2, <2>3, <4>2, SchemaLessened
    <3>2. CASE ~Has(id)
      <4>1. \A x \in Ids : At(x)' = At(x)
        BY <1>2, <1>3, <2>2, <3>2, IdsHaveTables, Rows, NothingGone
      <4> QED BY <1>3, <4>1, SameSchema
    <3> QED BY <3>1, <3>2
  <2>5. BaseInv'
    BY <2>1, <2>2, <2>4, PassesOn DEF BaseInv
  <2>6. ASSUME NEW x \in IdsOf("stock"), NEW product \in Ids,
               At(x) # None, At(x)' = None, At(x).refs.product = product
        PROVE  At(product)' = None
    <3>1. "stock" \in TableNames /\ x \in Ids /\ x[1] = "stock" /\ x # id
      BY <1>3, IdParts DEF TableNames, RefsOf
    <3>2. x \in gone
      BY <2>3, <2>6, <3>1
    <3>3. gone = GoesWith(id)
      BY <1>2, <3>2
    <3>4. PICK ref \in RefsOf["stock"] : At(x).refs[ref] \in gone
      BY <1>3, <3>1, <3>2, <3>3, GoneRows
    <3>5. ref = "product"
      BY <3>4 DEF RefsOf
    <3> QED BY <2>3, <2>6, <3>4, <3>5
  <2>8. ASSUME NEW x \in Ids, x[1] \in {"shipping", "parent"}, At(x) # None, At(x)' = None
        PROVE  x = id /\ (x[1] = "parent" => \A y \in RowsIn("category") : At(y).refs.parent # x)
    <3>1. x \in gone
      BY <2>3, <2>8
    <3>2. gone = GoesWith(id)
      BY <1>2, <3>1
    <3>5. \A t \in {"shipping", "parent"} : RefsOf[t] = {}
      BY DEF RefsOf
    <3>6. RefsOf[x[1]] = {}
      BY <2>8, <3>5
    <3>3. x = id
      BY <1>3, <3>1, <3>2, <3>6, GoneRows
    <3>4. ASSUME x[1] = "parent", NEW y \in RowsIn("category"), At(y).refs.parent = x
          PROVE  FALSE
      <4>1. "category" \in TableNames /\ "parent" \in RefsOf["category"]
        BY DEF TableNames, RefsOf
      <4>2. y \in Ids /\ Has(y) /\ y[1] = "category"
        BY <1>3, <4>1, RowsInTable
      <4>3. y # id /\ y \notin gone
        BY <1>3, <3>2, <3>3, <3>4, <4>2, GoneRows DEF RefsOf, Cascading
      <4> QED BY <1>4, <3>1, <3>4, <4>1, <4>2, <4>3 DEF MayGo, Restricting, RefersBy
    <3> QED BY <3>3, <3>4
  <2>9. ~Writes(Step(h))
    BY <1>3 DEF Writes
  <2>7. LessGoes(h)
    BY <1>1, <1>3, <2>1, <2>3, <2>6, <2>8, <2>9 DEF LessGoes
  <2> QED BY <2>5, <2>7 DEF CatalogStep
<1>5. CASE ~MayGo(gone)
  <2>1. \A product : ~WritesStock(h, product)
    BY <1>3 DEF WritesStock, UpsertStock, IsSave, Writes
  <2>2. Stops(h)
    BY <1>1, <1>2, <1>3, <1>5, <2>1 DEF Stops, BaseInv, Refused, Goto, DropStep
  <2> QED BY <2>2, StopsOn DEF CatalogStep
<1> QED BY <1>4, <1>5

LEMMA ClearIs ==
  ASSUME BaseInv, NEW h \in Handlers, ClearStep(h)
  PROVE  BaseInv' /\ CatalogStep(h)
<1>1. PICK unset : unset = LinksOf(Step(h).id) \ KeepsPrimary(Step(h).id, Step(h).but)
  OBVIOUS
<1>2. /\ calls[h] # <<>> /\ Step(h) \in Steps /\ Step(h).do = "clear"
      /\ RowsTyped /\ Schema
  BY HeadOf DEF ClearStep, In, BaseInv
<1>3. "link" \in TableNames /\ unset \subseteq RowsIn("link")
  BY <1>1 DEF TableNames, RefsOf, LinksOf
<1>4. rows' = [rows EXCEPT !.link = [n \in DOMAIN @ |->
                 IF <<"link", n>> \in unset THEN [@[n] EXCEPT !.flag = FALSE] ELSE @[n]]]
  BY <1>1 DEF ClearStep
<1>5. PICK written : Passes(h, written)
  BY <1>2 DEF ClearStep, Passes
<1>6. /\ RowsTyped'
      /\ \A x \in Ids \ unset : At(x)' = At(x)
      /\ \A x \in unset : At(x)' = Unset(At(x))
  BY <1>2, <1>3, <1>4, Cleared
<1>7. ASSUME NEW x \in unset
      PROVE  x \in Ids /\ At(x) # None /\ At(x)' # None /\ Lessened(x) /\ x[1] = "link"
             /\ Has(x) /\ At(x)'.refs = At(x).refs
  <2>1. x \in IdsOf("link") /\ x \in Ids /\ Has(x) /\ At(x) \in RowOf("link") /\ x[1] = "link"
    BY <1>2, <1>3, RowsInTable
  <2>2. At(x)' = Unset(At(x))
    BY <1>6
  <2>3. Unset(At(x)) # None
    <3>1. Unset(At(x)) \in RowOf("link")
      BY <1>3, <2>1, FlagChanged DEF Unset
    <3> QED BY <1>3, <3>1, NoneIsNoRow
  <2> QED BY <2>1, <2>2, <2>3 DEF Lessened, Unset, Has
<1>8. \A x \in Ids : Lessened(x) /\ (At(x) # None => At(x)' # None) /\ (Has(x)' <=> Has(x))
  BY <1>6, <1>7, IdsHaveTables DEF Lessened, Has
<1>9. Schema'
  <2>1. ASSUME NEW x \in Ids, Has(x)'
        PROVE  RefsExist(x[1], At(x))'
    <3>1. Has(x) /\ At(x)'.refs = At(x).refs
      BY <1>6, <1>7, <1>8, <2>1
    <3>2. ASSUME NEW ref \in RefsOf[x[1]], <<x[1], ref>> \notin Unenforced, At(x).refs[ref] # None
          PROVE  Has(At(x).refs[ref])'
      <4>1. PICK y : y = At(x).refs[ref]
        OBVIOUS
      <4>2. y \in Ids /\ Has(y)
        BY <1>2, <3>1, <3>2, <4>1, RefersIs DEF RefsExist, Schema
      <4>3. Has(y)'
        BY <4>2, <1>8
      <4> QED BY <3>1, <4>1, <4>3
    <3> QED BY <3>1, <3>2 DEF RefsExist
  <2> QED BY <1>2, <1>6, <1>8, <2>1, SchemaLessened
<1>10. BaseInv'
  BY <1>5, <1>6, <1>9, PassesOn DEF BaseInv
<1>11. \A x \in IdsOf("stock") : x \in Ids
  BY IdParts DEF TableNames, RefsOf
<1>13. ASSUME NEW x \in RowsIn("link"), At(x).refs.product = Step(h).id, x # Step(h).but
       PROVE  ~At(x)'.flag
  <2>1. x \in unset
    BY <1>1, <1>13 DEF LinksOf, KeepsPrimary
  <2> QED BY <1>6, <2>1 DEF Unset
<1>12. LessGoes(h)
  BY <1>2, <1>5, <1>8, <1>11, <1>13 DEF LessGoes, Writes
<1> QED BY <1>10, <1>12 DEF CatalogStep

LEMMA NewIds ==
  ASSUME Counted, NEW t \in TableNames, HasRoom(t)
  PROVE  /\ NewId(t) \in IdsOf(t) /\ NewId(t)[1] = t /\ NewId(t)[2] = used[t] + 1
         /\ used' = WithUsed(t) =>
              /\ Counted' /\ used'[t] = used[t] + 1
              /\ \A u \in TableNames : used[u] <= used'[u]
<1>1. used[t] + 1 \in Nat /\ used[t] + 1 > 0 /\ used[t] + 1 <= Slots[t]
  BY TablesAssumption DEF Counted, HasRoom
<1>2. NewId(t) \in IdsOf(t)
  BY <1>1, NumberedIds DEF NewId
<1>3. ASSUME used' = WithUsed(t)
      PROVE  /\ Counted' /\ used'[t] = used[t] + 1
             /\ \A u \in TableNames : used[u] <= used'[u]
  BY <1>1, <1>3 DEF WithUsed, Counted
<1> QED BY <1>2, <1>3 DEF NewId

LEMMA NewOnes ==
  ASSUME Counted, NEW t \in TableNames, HasRoom(t), used' = WithUsed(t)
  PROVE  NewOne(NewId(t)) /\ NewId(t)[2] = used[t] + 1
<1>1. used[t] \in Nat
  BY DEF Counted
<1> QED BY <1>1, NewIds DEF NewOne

(* Rows, as requests make them.                                            *)
LEMMA PlainRow ==
  ASSUME NEW t \in TableNames, NEW key \in Names \cup {None},
         NEW refs, refs \in [RefsOf[t] -> Ids \cup {None}],
         \A ref \in RefsOf[t] :
           refs[ref] \in IdsOf(ref) \/ (refs[ref] = None /\ <<t, ref>> \notin NotNull)
  PROVE  /\ Plain(key, refs) \in RowOf(t) /\ Plain(key, refs).refs = refs
         /\ Plain(key, refs).key = key /\ Plain(key, refs).flag = FALSE
<1>3. Plain(key, refs) \in RowOf(t)
  BY RowType DEF Plain
<1> QED BY <1>3 DEF Plain

LEMMA FlaggedRow ==
  ASSUME NEW t \in TableNames, NEW row \in RowOf(t), NEW flag \in BOOLEAN
  PROVE  /\ [row EXCEPT !.flag = flag] \in RowOf(t)
         /\ [row EXCEPT !.flag = flag].refs = row.refs
         /\ [row EXCEPT !.flag = flag].key = row.key
         /\ [row EXCEPT !.flag = flag].flag = flag
         /\ [row EXCEPT !.flag = flag].number = row.number
<1>1. PICK new : new = [row EXCEPT !.flag = flag]
  OBVIOUS
<1>2. new \in RowOf(t)
      /\ new = [key |-> row.key, flag |-> flag, number |-> row.number, refs |-> row.refs]
  BY <1>1, FlagChanged
<1>3. new.refs = row.refs /\ new.key = row.key /\ new.flag = flag /\ new.number = row.number
  BY <1>2
<1> QED BY <1>1, <1>2, <1>3

LEMMA StockRow ==
  ASSUME NEW product \in IdsOf("product")
  PROVE  /\ ProductStock(product) \in RowOf("stock")
         /\ ProductStock(product).refs = [product |-> product]
         /\ ProductStock(product).refs.product = product
<1>1. "stock" \in TableNames /\ RefsOf["stock"] = {"product"}
  BY DEF TableNames, RefsOf
<1>2. PICK refs : refs = [product |-> product]
  OBVIOUS
<1>3. refs.product = product /\ product \in Ids
  BY <1>2, IdParts DEF TableNames, RefsOf
<1>7. refs \in [RefsOf["stock"] -> Ids \cup {None}]
  BY <1>1, <1>2, <1>3
<1>4. \A ref \in RefsOf["stock"] :
        refs[ref] \in IdsOf(ref) \/ (refs[ref] = None /\ <<"stock", ref>> \notin NotNull)
  BY <1>1, <1>3
<1>5. None \in Names \cup {None}
  OBVIOUS
<1>6. Plain(None, refs) \in RowOf("stock") /\ Plain(None, refs).refs = refs
  BY <1>1, <1>4, <1>5, <1>7 DEF Plain, RowOf
<1> QED BY <1>2, <1>3, <1>6 DEF ProductStock

LEMMA LinkRefsType ==
  ASSUME RowsTyped, NEW product \in IdsOf("product"),
         NEW target \in IdsOf("category") \cup IdsOf("sub"), Has(target)
  PROVE  LET refs == LinkRefs(product, target)
         IN  /\ refs \in [RefsOf["link"] -> Ids \cup {None}]
             /\ refs.product = product /\ refs.category \in IdsOf("category")
             /\ refs.sub \in IdsOf("sub") \cup {None}
             /\ refs.sub # None => Has(refs.sub) /\ At(refs.sub).refs.category = refs.category
<1>1. "category" \in TableNames /\ "sub" \in TableNames /\ RefsOf["link"] = {"product", "category", "sub"}
      /\ RefsOf["sub"] = {"category"} /\ <<"sub", "category">> \in NotNull
  BY DEF TableNames, RefsOf, NotNull
<1>4. \A t \in {"product", "category", "sub"} : IdsOf(t) \subseteq Ids
  BY IdParts DEF TableNames, RefsOf
<1>2. CASE target \in IdsOf("sub")
  <2>1. target[1] = "sub" /\ At(target) \in RowOf("sub") /\ target # None
    BY <1>1, <1>2, IdParts, Rows
  <2>2. At(target).refs["category"] \in IdsOf("category")
    BY <1>1, <2>1, RefParts
  <2> QED BY <1>1, <1>2, <1>4, <2>1, <2>2 DEF LinkRefs, Resolved
<1>3. CASE target \in IdsOf("category")
  <2>1. target[1] = "category"
    BY <1>1, <1>3, IdParts
  <2> QED BY <1>1, <1>3, <1>4, <2>1 DEF LinkRefs, Resolved
<1> QED BY <1>2, <1>3

LEMMA LinkRow ==
  ASSUME NEW refs \in [RefsOf["link"] -> Ids \cup {None}],
         refs.product \in IdsOf("product"), refs.category \in IdsOf("category") \cup {None},
         refs.sub \in IdsOf("sub") \cup {None}, NEW flag \in BOOLEAN
  PROVE  /\ ProductCategory(refs, flag) \in RowOf("link")
         /\ ProductCategory(refs, flag).refs = refs /\ ProductCategory(refs, flag).flag = flag
<1>1. "link" \in TableNames /\ RefsOf["link"] = {"product", "category", "sub"}
      /\ <<"link", "category">> \notin NotNull /\ <<"link", "sub">> \notin NotNull
  BY DEF TableNames, RefsOf, NotNull
<1>2. \A ref \in RefsOf["link"] :
        refs[ref] \in IdsOf(ref) \/ (refs[ref] = None /\ <<"link", ref>> \notin NotNull)
  BY <1>1
<1>4. None \in Names \cup {None}
  OBVIOUS
<1>3. Plain(None, refs) \in RowOf("link") /\ Plain(None, refs).refs = refs
  BY <1>1, <1>2, <1>4 DEF Plain, RowOf
<1> QED BY <1>1, <1>3, FlaggedRow DEF ProductCategory

LEMMA StockIs ==
  ASSUME BaseInv, NEW h \in Handlers, StockStep(h)
  PROVE  BaseInv' /\ CatalogStep(h)
<1>1. PICK product : product = Step(h).id
  OBVIOUS
<1>2. PICK old : old = {id \in RowsIn("stock") : At(id).refs.product = product}
  OBVIOUS
<1>3. PICK id : id = IF old = {} THEN NewId("stock") ELSE CHOOSE x \in old : TRUE
  OBVIOUS
<1>4. PICK step : step = Save(id, ProductStock(product))
  OBVIOUS
<1>5. /\ calls[h] # <<>> /\ Step(h) \in Steps /\ Step(h).do = "stock" /\ Step(h) = calls[h][1]
      /\ RowsTyped /\ Schema /\ Queue(calls[h]) /\ Counted /\ Queues
      /\ "stock" \in TableNames /\ product \in IdsOf("product") /\ RefsOf["stock"] = {"product"}
  BY <1>1, HeadOf, StepTypes DEF StockStep, In, BaseInv, TableNames, RefsOf
<1>6. /\ old = {} => HasRoom("stock")
      /\ used' = IF old = {} THEN WithUsed("stock") ELSE used
      /\ calls' = [calls EXCEPT ![h] = <<step>> \o Tail(calls[h])]
      /\ UNCHANGED <<rows, requests, raced, cut, moved, approvals, merged>>
  BY <1>1, <1>2, <1>3, <1>4 DEF StockStep, Goto
<1>7. ASSUME old # {}
      PROVE  id \in IdsOf("stock") /\ Has(id) /\ At(id).refs = ProductStock(product).refs
  <2>1. id \in RowsIn("stock") /\ At(id).refs.product = product
    BY <1>2, <1>3, <1>7
  <2>2. id \in IdsOf("stock") /\ Has(id) /\ At(id) \in RowOf("stock")
    BY <1>5, <2>1, RowsInTable
  <2>3. At(id).refs \in [{"product"} -> Ids \cup {None}]
    BY <1>5, <2>2, RowParts
  <2> QED BY <1>5, <2>1, <2>2, <2>3, StockRow
<1>8. id \in IdsOf("stock") /\ id[1] = "stock"
  BY <1>3, <1>5, <1>6, <1>7, NewIds, IdParts
<1>9. Counted' /\ \A t \in TableNames : used[t] <= used'[t]
  BY <1>5, <1>6, NewIds DEF Counted
<1>10. step \in Steps /\ Writes(step) /\ step.do = "save" /\ step.id = id /\ step.row = ProductStock(product)
  BY <1>4, <1>5, <1>8, StepsAre, StockRow DEF Save
<1>11. \/ Has(id) /\ At(id).refs = step.row.refs
       \/ id[2] = used["stock"] + 1 /\ id[2] <= used'["stock"]
  <2>1. CASE old = {}
    <3>1. HasRoom("stock") /\ used' = WithUsed("stock") /\ id = NewId("stock")
      BY <1>3, <1>6, <2>1
    <3>2. id[2] = used["stock"] + 1 /\ used'["stock"] = used["stock"] + 1
      BY <1>5, <3>1, NewIds
    <3>3. used["stock"] \in Nat
      BY <1>5 DEF Counted
    <3> QED BY <3>2, <3>3
  <2>2. CASE old # {}
    <3>1. Has(id) /\ At(id).refs = ProductStock(product).refs
      BY <2>2, <1>7
    <3> QED BY <3>1, <1>10
  <2> QED BY <2>1, <2>2
<1>12. SaveDecided(step.id, step.row)
  BY <1>8, <1>10, <1>11 DEF SaveDecided, NewOne
<1>13. step.row.refs.product = Step(h).id
  BY <1>1, <1>5, <1>10, StockRow
<1>14. Queue(<<step>> \o Tail(calls[h]))
  BY <1>5, <1>10, QueueAgain
<1>15. Queues'
  BY <1>5, <1>6, <1>14, CallsAfter
<1>16. RowsTyped' /\ Schema'
  BY <1>5, <1>6, SameSchema DEF RowsTyped, At
<1>17. BaseInv'
  BY <1>6, <1>9, <1>15, <1>16 DEF BaseInv
<1>18. Grown
  BY <1>6, <1>9 DEF Grown, BaseInv
<1>19. Finds(h)
  BY <1>5, <1>6, <1>8, <1>10, <1>12, <1>13, <1>18 DEF Finds, IsSave
<1> QED BY <1>17, <1>19 DEF CatalogStep

LEMMA AssignIs ==
  ASSUME BaseInv, NEW h \in Handlers, AssignStep(h)
  PROVE  BaseInv' /\ CatalogStep(h)
<1>1. PICK product, target : product = Step(h).id /\ target = Step(h).target
  OBVIOUS
<1>2. PICK refs : refs = LinkRefs(product, target)
  OBVIOUS
<1>3. PICK step : step = Save(NewId("link"), ProductCategory(refs, FALSE))
  OBVIOUS
<1>4. /\ calls[h] # <<>> /\ Step(h) \in Steps /\ Step(h).do = "assign" /\ Step(h) = calls[h][1]
      /\ RowsTyped /\ Schema /\ Queue(calls[h]) /\ Counted /\ Queues
      /\ "link" \in TableNames /\ product \in IdsOf("product")
      /\ target \in IdsOf("category") \cup IdsOf("sub")
  BY <1>1, HeadOf, StepTypes DEF AssignStep, In, BaseInv, TableNames, RefsOf
<1>5. CASE Has(target) /\ SameLinks(refs) = {}
  <2>1. /\ HasRoom("link") /\ used' = WithUsed("link")
        /\ calls' = [calls EXCEPT ![h] = <<step>> \o Tail(calls[h])]
        /\ UNCHANGED <<rows, requests, raced, cut, moved, approvals, merged>>
    BY <1>1, <1>2, <1>3, <1>5 DEF AssignStep, Goto
  <2>2. /\ NewId("link") \in IdsOf("link") /\ NewId("link")[1] = "link"
        /\ Counted' /\ \A t \in TableNames : used[t] <= used'[t]
    BY <1>4, <2>1, NewIds
  <2>3. /\ refs \in [RefsOf["link"] -> Ids \cup {None}]
        /\ refs.product = product /\ refs.category \in IdsOf("category")
        /\ refs.sub \in IdsOf("sub") \cup {None}
        /\ refs.sub # None => Has(refs.sub) /\ At(refs.sub).refs.category = refs.category
    BY <1>2, <1>4, <1>5, LinkRefsType
  <2>4. /\ ProductCategory(refs, FALSE) \in RowOf("link")
        /\ ProductCategory(refs, FALSE).refs = refs /\ ProductCategory(refs, FALSE).flag = FALSE
    BY <1>4, <2>3, LinkRow
  <2>5. step \in Steps /\ Writes(step) /\ step.do = "save" /\ step.id = NewId("link")
        /\ step.row = ProductCategory(refs, FALSE)
    BY <1>3, <1>4, <2>2, <2>4, StepsAre DEF Save
  <2>14. NewOne(NewId("link"))
    <3>1. used["link"] \in Nat
      BY <1>4 DEF Counted
    <3> QED BY <1>4, <2>1, <3>1, NewIds DEF NewOne
  <2>6. LevelsSeen("link", step.id, step.row)
    BY <1>4, <2>1, <2>3, <2>4, <2>5, NewIds DEF LevelsSeen, Low, High
  <2>7. SaveDecided(step.id, step.row)
    BY <2>2, <2>5, <2>6, <2>14 DEF SaveDecided, Fixed
  <2>13. Queue(<<step>> \o Tail(calls[h]))
    BY <1>4, <2>5, QueueAgain
  <2>8. Queues'
    BY <1>4, <2>1, <2>13, CallsAfter
  <2>9. RowsTyped' /\ Schema'
    BY <1>4, <2>1, SameSchema DEF RowsTyped, At
  <2>10. BaseInv'
    BY <2>1, <2>2, <2>8, <2>9 DEF BaseInv
  <2>11. Grown
    BY <2>1, <2>2 DEF Grown, BaseInv
  <2>12. Finds(h)
    BY <1>4, <2>1, <2>2, <2>4, <2>5, <2>7, <2>11 DEF Finds, IsSave
  <2> QED BY <2>10, <2>12 DEF CatalogStep
<1>6. CASE ~(Has(target) /\ SameLinks(refs) = {})
  <2>1. \A p : ~WritesStock(h, p)
    BY <1>4 DEF WritesStock, UpsertStock, IsSave, Writes
  <2>2. Stops(h)
    BY <1>1, <1>2, <1>4, <1>6, <2>1 DEF Stops, BaseInv, Goto, AssignStep
  <2> QED BY <2>2, StopsOn DEF CatalogStep
<1> QED BY <1>5, <1>6

LEMMA CutOffIs ==
  ASSUME BaseInv, NEW h \in Handlers, CutOff(h)
  PROVE  BaseInv' /\ CatalogStep(h)
<1>1. /\ calls[h] # <<>> /\ Step(h) = calls[h][1] /\ 1 \in DOMAIN calls[h]
      /\ calls[h] \in Seq(Steps) /\ Queue(calls[h])
  BY HeadOf DEF CutOff, BaseInv, Queue
<1>2. StockAwaited(h) \subseteq Ids
  <2>1. ASSUME NEW i \in DOMAIN calls[h], calls[h][i].do = "stock"
        PROVE  calls[h][i].id \in Ids
    BY <1>1, <2>1, StepTypes, IdParts DEF TableNames, RefsOf
  <2>2. ASSUME NEW i \in DOMAIN calls[h], calls[h][i].do \in {"save", "insert", "update"},
               calls[h][i].id[1] = "stock"
        PROVE  calls[h][i].row.refs.product \in Ids
    <3>1. "stock" \in TableNames /\ "product" \in RefsOf["stock"] /\ "product" \in TableNames
          /\ <<"stock", "product">> \in NotNull
      BY DEF TableNames, RefsOf, NotNull
    <3>4. calls[h][i].id \notin IdsOf("settings")
      BY <2>2, <3>1, IdParts DEF TableNames, RefsOf
    <3>2. calls[h][i].row \in RowOf("stock")
      BY <1>1, <2>2, <3>4, StepTypes DEF Writes
    <3>3. calls[h][i].row.refs["product"] \in IdsOf("product")
      BY <3>1, <3>2, RefParts
    <3> QED BY <3>1, <3>3, IdParts
  <2> QED BY <2>1, <2>2 DEF StockAwaited
<1>3. ASSUME NEW product, WritesStock(h, product)
      PROVE  product \in StockAwaited(h)
  BY <1>1, <1>3 DEF WritesStock, StockAwaited, UpsertStock, IsSave, Writes
<1>4. Stops(h)
  BY <1>1, <1>2, <1>3 DEF Stops, CutOff, Goto, BaseInv
<1> QED BY <1>4, StopsOn DEF CatalogStep

-----------------------------------------------------------------------------
(* The number of a new row: one above the largest.                         *)
LEMMA Largest ==
  ASSUME NEW T \in SUBSET Nat, T # {}, NEW b \in Nat, \A x \in T : x <= b
  PROVE  Max(T) \in T
<1> DEFINE D == {b - x : x \in T}
<1>1. D \in SUBSET Nat /\ D # {}
  <2>1. \A x \in T : b - x \in Nat
    OBVIOUS
  <2>2. D \subseteq Nat
    BY <2>1
  <2>3. PICK x \in T : TRUE
    OBVIOUS
  <2>4. b - x \in D
    OBVIOUS
  <2> QED BY <2>2, <2>4
<1>2. PICK d \in D : \A e \in D : d <= e
  BY <1>1, LeastNatural
<1>3. PICK x \in T : d = b - x
  OBVIOUS
<1>4. \A y \in T : x >= y
  BY <1>2, <1>3
<1> QED BY <1>4 DEF Max

LEMMA Bounded ==
  ASSUME NEW n \in Nat, NEW col, \A i \in 1..n : col[i] \in Nat
  PROVE  \E b \in Nat : \A i \in 1..n : col[i] <= b
<1> DEFINE S == {m \in Nat : m <= n => \E b \in Nat : \A i \in 1..m : col[i] <= b}
<1>1. 0 \in S
  OBVIOUS
<1>2. ASSUME NEW m \in Nat, m \in S
      PROVE  m + 1 \in S
  <2>1. CASE m + 1 <= n
    <3>1. PICK b \in Nat : \A i \in 1..m : col[i] <= b
      BY <1>2, <2>1
    <3>2. m + 1 \in 1..n /\ col[m + 1] \in Nat /\ \A i \in 1..m : col[i] \in Nat
      BY <2>1
    <3>3. \A i \in 1..(m + 1) : i \in 1..m \/ i = m + 1
      OBVIOUS
    <3>4. \A i \in 1..(m + 1) : col[i] <= b + col[m + 1]
      BY <3>1, <3>2, <3>3
    <3>5. b + col[m + 1] \in Nat
      BY <3>2
    <3> QED BY <3>4, <3>5
  <2>2. CASE ~(m + 1 <= n)
    BY <2>2
  <2> QED BY <2>1, <2>2
<1> HIDE DEF S
<1>3. n \in S
  BY <1>1, <1>2, SetInduction
<1> QED BY <1>3 DEF S

LEMMA NextNumberType ==
  ASSUME RowsTyped, NEW t \in TableNames
  PROVE  NextNumber(t) \in Nat
<1> DEFINE T == {0} \cup ({At(id).number : id \in RowsIn(t)} \ {None})
           col == [n \in 1..Slots[t] |->
                     IF rows[t][n] # None /\ rows[t][n].number # None THEN rows[t][n].number ELSE 0]
<1>1. ASSUME NEW id \in RowsIn(t)
      PROVE  /\ At(id).number \in Nat \cup {None}
             /\ id[2] \in 1..Slots[t] /\ At(id) = rows[t][id[2]] /\ At(id) # None
  <2>1. id \in IdsOf(t) /\ id[1] = t /\ At(id) \in RowOf(t) /\ Has(id)
    BY RowsInTable
  <2> QED BY <2>1, IdParts, RowParts DEF At, Has
<1>2. Slots[t] \in Nat /\ \A n \in 1..Slots[t] : col[n] \in Nat
  <2>1. ASSUME NEW n \in 1..Slots[t]
        PROVE  rows[t][n] = None \/ rows[t][n].number \in Nat \cup {None}
    <3>1. rows[t][n] \in RowOf(t) \cup {None}
      BY DEF RowsTyped
    <3> QED BY <3>1, RowParts
  <2>2. Slots[t] \in Nat
    BY TablesAssumption
  <2> QED BY <2>1, <2>2
<1>3. PICK b \in Nat : \A n \in 1..Slots[t] : col[n] <= b
  <2> HIDE DEF col
  <2> QED BY <1>2, Bounded
<1>4. ASSUME NEW x \in T
      PROVE  x \in Nat /\ x <= b
  <2>1. CASE x = 0
    BY <2>1
  <2>2. CASE x # 0
    <3>1. PICK id \in RowsIn(t) : x = At(id).number /\ x # None
      BY <2>2
    <3>2. x \in Nat /\ id[2] \in 1..Slots[t] /\ x = col[id[2]]
      BY <1>1, <3>1
    <3> QED BY <1>3, <3>2
  <2> QED BY <2>1, <2>2
<1>5. Max(T) \in T
  <2>1. T \in SUBSET Nat /\ T # {}
    BY <1>4
  <2> HIDE DEF T
  <2> QED BY <1>4, <2>1, Largest
<1>6. Max(T) + 1 \in Nat
  <2> HIDE DEF T
  <2> QED BY <1>4, <1>5
<1>7. NextNumber(t) = Max(T) + 1
  BY DEF NextNumber
<1> HIDE DEF T
<1> QED BY <1>6, <1>7

-----------------------------------------------------------------------------
(* A request that is accepted queues statements that were decided on the   *)
(* rows it has read.                                                       *)
LEMMA Began ==
  ASSUME BaseInv, NEW h \in Handlers, Free(h), NEW q, Queue(q), q # <<>>, Decided(q),
         Accept(h, q), Counted', \A t \in TableNames : used[t] <= used'[t],
         moved \subseteq moved', moved' \subseteq Ids, approvals \subseteq approvals'
  PROVE  BaseInv' /\ CatalogStep(h)
<1>1. /\ calls[h] = <<>> /\ requests' = requests + 1 /\ requests < MaxRequests
      /\ calls' = [calls EXCEPT ![h] = q]
      /\ UNCHANGED <<rows, raced, cut, merged>>
  BY DEF Free, Accept
<1>2. requests' \in 0..MaxRequests
  BY <1>1, TablesAssumption DEF BaseInv
<1>3. Queues'
  BY <1>1, CallsAfter DEF BaseInv
<1>4. RowsTyped' /\ Schema'
  BY <1>1, SameSchema DEF RowsTyped, At, BaseInv
<1>5. BaseInv'
  BY <1>1, <1>2, <1>3, <1>4 DEF BaseInv
<1>6. Grown
  BY <1>1 DEF Grown
<1>7. Begins(h)
  BY <1>1, <1>2, <1>6 DEF Begins
<1> QED BY <1>5, <1>7 DEF CatalogStep

LEMMA BeganOld ==
  ASSUME BaseInv, NEW h \in Handlers, Free(h), NEW q, Queue(q), q # <<>>, Decided(q),
         AcceptOld(h, q)
  PROVE  BaseInv' /\ CatalogStep(h)
<1>1. Accept(h, q) /\ used' = used /\ moved' = moved /\ approvals' = approvals
  BY DEF AcceptOld
<1>2. Counted' /\ \A t \in TableNames : used[t] <= used'[t]
  BY <1>1 DEF BaseInv, Counted
<1> QED BY <1>1, <1>2, Began DEF BaseInv

LEMMA BeganNew ==
  ASSUME BaseInv, NEW h \in Handlers, Free(h), NEW q, Queue(q), q # <<>>, Decided(q),
         NEW t \in TableNames, AcceptNew(h, NewId(t), q)
  PROVE  BaseInv' /\ CatalogStep(h)
<1>1. /\ Accept(h, q) /\ HasRoom(t) /\ used' = WithUsed(t)
      /\ moved' = moved /\ approvals' = approvals
  BY DEF AcceptNew, NewId
<1>2. Counted' /\ \A u \in TableNames : used[u] <= used'[u]
  BY <1>1, NewIds DEF BaseInv
<1> QED BY <1>1, <1>2, Began DEF BaseInv

(* One statement, and nothing to follow it.                                *)
LEMMA OneStep ==
  ASSUME NEW step \in Steps, step.do \in {"save", "insert", "change", "drop"},
         Writes(step) => step.id[1] # "stock" /\ SaveDecided(step.id, step.row),
         IsSave(step, "product") => Has(step.id),
         IsSave(step, "link") /\ step.row.flag =>
           Has(step.id) /\ At(step.id).flag /\ At(step.id).refs.product = step.row.refs.product,
         step.do = "drop" /\ step.id[1] = "shipping" => Chosen(step.id) = {}
  PROVE  Queue(<<step>>) /\ <<step>> # <<>> /\ Decided(<<step>>)
<1>1. PICK q : q = <<step>>
  OBVIOUS
<1>2. Queue(q) /\ q # <<>> /\ DOMAIN q = {1} /\ q[1] = step
  BY <1>1, QueueOfOne
<1>3. FirstDecided(q)
  BY <1>2 DEF FirstDecided, IsSave
<1>4. Decided(q)
  BY <1>2, <1>3 DEF Decided
<1> QED BY <1>1, <1>2, <1>4

(* Tables of which nothing but the schema is asked.                        *)
Unguarded ==
  {"parent", "category", "order", "country", "banner", "message", "subscription", "value",
   "brand", "shipping"}

LEMMA UnguardedSave ==
  ASSUME NEW t \in Unguarded, NEW id \in IdsOf(t), NEW row \in RowOf(t)
  PROVE  /\ Queue(<<Save(id, row)>>) /\ <<Save(id, row)>> # <<>>
         /\ Decided(<<Save(id, row)>>) /\ t \in TableNames
<1>1. t \in TableNames \ {"settings"} /\ t \notin {"product", "attribute", "link", "city"} \cup Fixed
  BY DEF Unguarded, TableNames, RefsOf, Fixed, FixedRef
<1>2. PICK step : step = Save(id, row)
  OBVIOUS
<1>3. /\ step \in Steps /\ step.do = "save" /\ step.id = id /\ step.row = row /\ id[1] = t
  BY <1>1, <1>2, StepsAre, IdParts DEF Save
<1>4. SaveDecided(step.id, step.row) /\ step.id[1] # "stock"
  BY <1>1, <1>3 DEF SaveDecided, Fixed, FixedRef
<1>5. Queue(<<step>>) /\ <<step>> # <<>> /\ Decided(<<step>>)
  BY <1>1, <1>3, <1>4, OneStep DEF IsSave
<1> QED BY <1>1, <1>2, <1>5

LEMMA OldRow ==
  ASSUME BaseInv, NEW h \in Handlers, Free(h), NEW t \in Unguarded, NEW id \in IdsOf(t),
         NEW row \in RowOf(t), AcceptOld(h, <<Save(id, row)>>)
  PROVE  BaseInv' /\ CatalogStep(h)
BY UnguardedSave, BeganOld

LEMMA NewRow ==
  ASSUME BaseInv, NEW h \in Handlers, Free(h), NEW t \in Unguarded, NEW row \in RowOf(t),
         AcceptNew(h, NewId(t), <<Save(NewId(t), row)>>)
  PROVE  BaseInv' /\ CatalogStep(h)
<1>1. t \in TableNames
  BY DEF Unguarded, TableNames, RefsOf
<1>2. NewId(t) \in IdsOf(t)
  BY <1>1, NewIds DEF AcceptNew, NewId, BaseInv
<1> QED BY <1>1, <1>2, UnguardedSave, BeganNew

LEMMA Removal ==
  ASSUME BaseInv, NEW h \in Handlers, Free(h), NEW t \in TableNames \ {"stock"},
         NEW id \in IdsOf(t), t = "shipping" => Chosen(id) = {}, AcceptOld(h, <<Drop(id)>>)
  PROVE  BaseInv' /\ CatalogStep(h)
<1>1. PICK step : step = Drop(id)
  OBVIOUS
<1>2. id[1] = t /\ id \in Ids /\ id \notin IdsOf("stock")
  BY IdParts DEF TableNames, RefsOf
<1>3. step \in Steps /\ step.do = "drop" /\ step.id = id
  BY <1>1, <1>2, StepsAre DEF Drop
<1>4. Queue(<<step>>) /\ <<step>> # <<>> /\ Decided(<<step>>)
  BY <1>2, <1>3, OneStep DEF IsSave, Writes
<1> QED BY <1>1, <1>4, BeganOld

(* The rows that requests make of what they were given.                    *)
LEMMA RowWithoutRefs ==
  ASSUME NEW t \in TableNames, RefsOf[t] = {}, NEW key \in Names \cup {None},
         NEW flag \in BOOLEAN, NEW number \in Nat \cup {None}
  PROVE  /\ Plain(key, NoRefs) \in RowOf(t)
         /\ [Plain(key, NoRefs) EXCEPT !.flag = flag] \in RowOf(t)
         /\ Numbered(key, NoRefs, flag, number) \in RowOf(t)
<1>1. PICK refs : refs = NoRefs
  OBVIOUS
<1>2. refs \in [RefsOf[t] -> Ids \cup {None}] /\ None \in Nat \cup {None} /\ FALSE \in BOOLEAN
  BY <1>1 DEF NoRefs
<1>3. \A n \in Nat \cup {None}, f \in BOOLEAN :
        [key |-> key, flag |-> f, number |-> n, refs |-> refs] \in RowOf(t)
  BY <1>2 DEF RowOf
<1>4. Plain(key, refs) \in RowOf(t) /\ Numbered(key, refs, flag, number) \in RowOf(t)
  BY <1>2, <1>3 DEF Plain, Numbered
<1> QED BY <1>1, <1>4, FlaggedRow

Ref(ref, id) == [r \in {ref} |-> id]

LEMMA RowWithRef ==
  ASSUME NEW t \in TableNames, NEW ref, RefsOf[t] = {ref}, NEW id,
         id \in IdsOf(ref) \/ (id = None /\ <<t, ref>> \notin NotNull),
         NEW key \in Names \cup {None}
  PROVE  Plain(key, Ref(ref, id)) \in RowOf(t)
<1>1. PICK refs : refs = Ref(ref, id)
  OBVIOUS
<1>2. refs[ref] = id /\ id \in Ids \cup {None} /\ refs \in [{ref} -> {id}]
  BY <1>1, RefTables, IdParts DEF Ref
<1>3. refs \in [RefsOf[t] -> Ids \cup {None}] /\ None \in Nat \cup {None} /\ FALSE \in BOOLEAN
  BY <1>2
<1>4. Plain(key, refs) \in RowOf(t)
  BY <1>2, <1>3 DEF RowOf, Plain
<1> QED BY <1>1, <1>4

LEMMA CategoryRows ==
  ASSUME NEW key \in Names
  PROVE  /\ ParentCategory(key) \in RowOf("parent")
         /\ \A parent \in IdsOf("parent") : Category(key, parent) \in RowOf("category")
         /\ \A category \in IdsOf("category") :
              /\ SubCategory(key, category) \in RowOf("sub")
              /\ SubCategory(key, category).refs = [category |-> category]
<1>1. /\ "parent" \in TableNames /\ "category" \in TableNames /\ "sub" \in TableNames
      /\ RefsOf["parent"] = {} /\ RefsOf["category"] = {"parent"} /\ RefsOf["sub"] = {"category"}
  BY DEF TableNames, RefsOf
<1>2. key \in Names \cup {None} /\ FALSE \in BOOLEAN /\ None \in Nat \cup {None}
  OBVIOUS
<1>3. ParentCategory(key) \in RowOf("parent")
  BY <1>1, <1>2, RowWithoutRefs DEF ParentCategory
<1>4. ASSUME NEW parent \in IdsOf("parent")
      PROVE  Category(key, parent) \in RowOf("category")
  <2>1. Plain(key, Ref("parent", parent)) \in RowOf("category")
    BY <1>1, <1>2, RowWithRef
  <2>2. Ref("parent", parent) = [parent |-> parent]
    BY DEF Ref
  <2> QED BY <2>1, <2>2 DEF Category
<1>5. ASSUME NEW category \in IdsOf("category")
      PROVE  SubCategory(key, category) \in RowOf("sub") /\ SubCategory(key, category).refs = [category |-> category]
  <2>1. Plain(key, Ref("category", category)) \in RowOf("sub")
    BY <1>1, <1>2, RowWithRef
  <2>2. Ref("category", category) = [category |-> category]
    BY DEF Ref
  <2> QED BY <2>1, <2>2 DEF SubCategory, Plain
<1> QED BY <1>3, <1>4, <1>5

LEMMA RenamedRow ==
  ASSUME RowsTyped, NEW t \in TableNames, NEW id \in RowsIn(t), NEW key \in Names
  PROVE  /\ [At(id) EXCEPT !.key = key] \in RowOf(t)
         /\ [At(id) EXCEPT !.key = key].refs = At(id).refs
<1>1. PICK row : row = At(id)
  OBVIOUS
<1>2. row \in RowOf(t)
  BY <1>1, RowsInTable
<1>3. PICK new : new = [row EXCEPT !.key = key]
  OBVIOUS
<1>4. new \in RowOf(t) /\ new = [key |-> key, flag |-> row.flag, number |-> row.number, refs |-> row.refs]
  BY <1>2, <1>3, KeyChanged
<1>5. new.refs = row.refs
  BY <1>4
<1> QED BY <1>1, <1>3, <1>4, <1>5

LEMMA ChangedCategory ==
  ASSUME RowsTyped, NEW id \in RowsIn("category"), NEW parent \in RowsIn("parent"), NEW slug \in Names
  PROVE  [At(id) EXCEPT !.key = slug, !.refs.parent = Kept(@, parent)] \in RowOf("category")
<1>1. /\ "category" \in TableNames /\ RefsOf["category"] = {"parent"} /\ "parent" \in TableNames
      /\ <<"category", "parent">> \in NotNull
  BY DEF TableNames, RefsOf, NotNull
<1>2. PICK row : row = At(id)
  OBVIOUS
<1>3. row \in RowOf("category") /\ parent \in IdsOf("parent")
  BY <1>1, <1>2, RowsInTable
<1>4. PICK k, f, n, r : row = [key |-> k, flag |-> f, number |-> n, refs |-> r]
  BY <1>1, <1>3, RowParts
<1>5. /\ f \in BOOLEAN /\ n \in Nat \cup {None} /\ r \in [{"parent"} -> Ids \cup {None}]
      /\ r["parent"] \in IdsOf("parent")
  BY <1>1, <1>3, <1>4, RowParts
<1>6. Kept(r["parent"], parent) \in IdsOf("parent")
  BY <1>3, <1>5 DEF Kept
<1>7. [row EXCEPT !.key = slug, !.refs.parent = Kept(@, parent)] =
        [key |-> slug, flag |-> f, number |-> n, refs |-> [r EXCEPT !["parent"] = Kept(r["parent"], parent)]]
  <2>1. PICK new : new = [row EXCEPT !.key = slug]
    OBVIOUS
  <2>2. new = [key |-> slug, flag |-> f, number |-> n, refs |-> r]
    BY <1>4, <2>1
  <2>3. [row EXCEPT !.key = slug, !.refs.parent = Kept(@, parent)] =
          [new EXCEPT !.refs = [r EXCEPT !["parent"] = Kept(r["parent"], parent)]]
    BY <1>4, <2>1, <2>2
  <2>4. \A s : [new EXCEPT !.refs = s] = [key |-> slug, flag |-> f, number |-> n, refs |-> s]
    BY <2>2
  <2> QED BY <2>3, <2>4
<1>8. PICK s : s = [r EXCEPT !["parent"] = Kept(r["parent"], parent)]
  OBVIOUS
<1>9. s \in [{"parent"} -> Ids \cup {None}] /\ s["parent"] \in IdsOf("parent")
  BY <1>1, <1>5, <1>6, <1>8, IdParts
<1>10. [key |-> slug, flag |-> f, number |-> n, refs |-> s] \in RowOf("category")
  BY <1>1, <1>5, <1>9 DEF RowOf
<1> QED BY <1>2, <1>7, <1>8, <1>10

LEMMA SubCategorySaved ==
  ASSUME BaseInv, NEW h \in Handlers, Free(h), NEW id \in IdsOf("sub"), NEW row \in RowOf("sub"),
         \/ AcceptOld(h, <<Save(id, row)>>) /\ Has(id) /\ At(id).refs = row.refs
         \/ AcceptNew(h, id, <<Save(id, row)>>) /\ id = NewId("sub")
  PROVE  BaseInv' /\ CatalogStep(h)
<1>1. "sub" \in TableNames \ {"settings"} /\ "sub" \in Fixed
  BY DEF TableNames, RefsOf, Fixed, FixedRef
<1>2. PICK step : step = Save(id, row)
  OBVIOUS
<1>3. step \in Steps /\ step.do = "save" /\ step.id = id /\ step.row = row /\ id[1] = "sub"
  BY <1>1, <1>2, StepsAre, IdParts DEF Save
<1>4. ASSUME AcceptNew(h, id, <<Save(id, row)>>), id = NewId("sub")
      PROVE  id[2] = used["sub"] + 1 /\ id[2] <= used'["sub"]
  <2>1. HasRoom("sub") /\ used' = WithUsed("sub")
    BY <1>3, <1>4 DEF AcceptNew
  <2>2. id[2] = used["sub"] + 1 /\ used'["sub"] = used["sub"] + 1
    BY <1>1, <1>4, <2>1, NewIds DEF BaseInv
  <2>3. used["sub"] \in Nat
    BY <1>1 DEF BaseInv, Counted
  <2> QED BY <2>2, <2>3
<1>5. SaveDecided(id, row)
  BY <1>3, <1>4 DEF SaveDecided, NewOne
<1>6. Queue(<<step>>) /\ <<step>> # <<>> /\ Decided(<<step>>)
  BY <1>3, <1>5, OneStep DEF IsSave
<1>7. CASE AcceptOld(h, <<step>>)
  BY <1>6, <1>7, BeganOld
<1>8. CASE AcceptNew(h, NewId("sub"), <<step>>)
  BY <1>1, <1>6, <1>8, BeganNew
<1> QED BY <1>2, <1>7, <1>8

LEMMA Removed ==
  ASSUME BaseInv, NEW h \in Handlers, Free(h),
         NEW t \in TableNames \ {"stock", "shipping"}, NEW id \in RowsIn(t), AcceptOld(h, <<Drop(id)>>)
  PROVE  BaseInv' /\ CatalogStep(h)
<1>1. id \in IdsOf(t)
  BY DEF RowsIn
<1> QED BY <1>1, Removal

LEMMA CategoriesIs ==
  ASSUME BaseInv, NEW h \in Handlers, Free(h), NEW slug \in Names,
         \/ CreateParentCategory(h, slug)
         \/ \E id \in RowsIn("parent") : UpdateParentCategory(h, id, slug)
         \/ \E parent \in RowsIn("parent") :
              \/ CreateCategory(h, parent, slug)
              \/ \E id \in RowsIn("category") : UpdateCategory(h, id, parent, slug)
         \/ \E category \in RowsIn("category") : CreateSubCategory(h, category, slug)
         \/ \E id \in RowsIn("sub") : UpdateSubCategory(h, id, slug)
  PROVE  BaseInv' /\ CatalogStep(h)
<1>1. /\ "parent" \in TableNames /\ "category" \in TableNames /\ "sub" \in TableNames
      /\ "parent" \in Unguarded /\ "category" \in Unguarded /\ RowsTyped
  BY DEF TableNames, RefsOf, Unguarded, BaseInv
<1>2. \A t \in TableNames : RowsIn(t) \subseteq IdsOf(t)
  BY DEF RowsIn
<1>3. CASE CreateParentCategory(h, slug)
  BY <1>1, <1>3, CategoryRows, NewRow DEF CreateParentCategory
<1>4. ASSUME NEW id \in RowsIn("parent"), UpdateParentCategory(h, id, slug)
      PROVE  BaseInv' /\ CatalogStep(h)
  BY <1>1, <1>2, <1>4, RenamedRow, OldRow DEF UpdateParentCategory
<1>5. ASSUME NEW parent \in RowsIn("parent"), CreateCategory(h, parent, slug)
      PROVE  BaseInv' /\ CatalogStep(h)
  <2>1. Category(slug, parent) \in RowOf("category")
    BY <1>1, <1>2, CategoryRows
  <2> QED BY <1>1, <1>5, <2>1, NewRow DEF CreateCategory
<1>6. ASSUME NEW parent \in RowsIn("parent"), NEW id \in RowsIn("category"),
             UpdateCategory(h, id, parent, slug)
      PROVE  BaseInv' /\ CatalogStep(h)
  BY <1>1, <1>2, <1>6, ChangedCategory, OldRow DEF UpdateCategory
<1>7. ASSUME NEW category \in RowsIn("category"), CreateSubCategory(h, category, slug)
      PROVE  BaseInv' /\ CatalogStep(h)
  <2>1. SubCategory(slug, category) \in RowOf("sub")
    BY <1>1, <1>2, CategoryRows
  <2>2. PICK id : id = NewId("sub")
    OBVIOUS
  <2>3. AcceptNew(h, id, <<Save(id, SubCategory(slug, category))>>)
    BY <1>7, <2>2 DEF CreateSubCategory
  <2>4. id \in IdsOf("sub")
    BY <1>1, <2>2, <2>3, NewIds DEF AcceptNew, NewId, BaseInv
  <2> QED BY <2>1, <2>2, <2>3, <2>4, SubCategorySaved
<1>8. ASSUME NEW id \in RowsIn("sub"), UpdateSubCategory(h, id, slug)
      PROVE  BaseInv' /\ CatalogStep(h)
  <2>1. PICK row : row = [At(id) EXCEPT !.key = slug]
    OBVIOUS
  <2>2. row \in RowOf("sub") /\ row.refs = At(id).refs
    BY <1>1, <2>1, RenamedRow
  <2>3. id \in IdsOf("sub") /\ Has(id) /\ AcceptOld(h, <<Save(id, row)>>)
    BY <1>8, <2>1 DEF UpdateSubCategory, RowsIn
  <2> QED BY <2>2, <2>3, SubCategorySaved
<1> QED BY <1>3, <1>4, <1>5, <1>6, <1>7, <1>8

LEMMA TwoSteps ==
  ASSUME NEW a \in Steps, NEW b \in Steps
  PROVE  /\ <<a>> \o <<b>> \in Seq(Steps) /\ <<a>> \o <<b>> # <<>> /\ Len(<<a>> \o <<b>>) = 2
         /\ DOMAIN (<<a>> \o <<b>>) = {1, 2}
         /\ (<<a>> \o <<b>>)[1] = a /\ (<<a>> \o <<b>>)[2] = b
OBVIOUS

LEMMA LinkQueue ==
  ASSUME NEW id \in IdsOf("link"), NEW row \in RowOf("link"), SaveDecided(id, row),
         NEW clears, NEW but, but \in {None, id}, NEW product, product = row.refs.product,
         clears \/ (row.flag => Has(id) /\ At(id).flag /\ At(id).refs.product = product)
  PROVE  LET q == (IF clears THEN <<ClearPrimary(product, but)>> ELSE <<>>) \o <<Save(id, row)>>
         IN  Queue(q) /\ q # <<>> /\ Decided(q)
<1>1. /\ "link" \in TableNames \ {"settings"} /\ "product" \in RefsOf["link"]
      /\ <<"link", "product">> \in NotNull
  BY DEF TableNames, RefsOf, NotNull
<1>2. product \in IdsOf("product")
  <2>1. row.refs["product"] \in IdsOf("product")
    BY <1>1, RefParts
  <2> QED BY <2>1
<1>3. PICK save : save = Save(id, row)
  OBVIOUS
<1>4. PICK clear : clear = ClearPrimary(product, but)
  OBVIOUS
<1>5. /\ save \in Steps /\ save.do = "save" /\ Writes(save) /\ save.id = id /\ save.row = row
      /\ id[1] = "link"
  BY <1>1, <1>3, StepsAre, IdParts DEF Save
<1>6. clear \in Steps /\ clear.do = "clear" /\ clear.id = product /\ clear.but = but
  BY <1>2, <1>4, StepsAre DEF ClearPrimary
<1>7. CASE clears
  <2>1. PICK q : q = <<clear>> \o <<save>>
    OBVIOUS
  <2>2. q \in Seq(Steps) /\ q # <<>> /\ DOMAIN q = {1, 2} /\ q[1] = clear /\ q[2] = save
    BY <1>5, <1>6, <2>1, TwoSteps
  <2>3. Follows(q, 2)
    BY <1>5, <1>6, <2>2 DEF Follows, IsSave
  <2>4. Queue(q)
    BY <1>6, <2>2, <2>3 DEF Queue
  <2>5. FirstDecided(q)
    BY <1>6, <2>2 DEF FirstDecided, IsSave, Writes
  <2>6. Decided(q)
    BY <1>5, <1>6, <2>2, <2>5 DEF Decided, Writes
  <2> QED BY <1>3, <1>4, <1>7, <2>1, <2>2, <2>4, <2>6
<1>8. CASE ~clears
  <2>1. Queue(<<save>>) /\ <<save>> # <<>> /\ Decided(<<save>>)
    BY <1>5, <1>8, OneStep DEF IsSave
  <2>2. <<>> \o <<save>> = <<save>>
    BY <1>5
  <2> QED BY <1>3, <1>8, <2>1, <2>2
<1> QED BY <1>7, <1>8

LEMMA TargetRows ==
  ASSUME RowsTyped, NEW target \in Targets
  PROVE  target \in IdsOf("category") \cup IdsOf("sub") /\ Has(target)
BY DEF Targets, RowsIn

LEMMA AssignedIs ==
  ASSUME BaseInv, NEW h \in Handlers, Free(h), NEW product \in RowsIn("product"),
         NEW target \in Targets, NEW primary \in BOOLEAN,
         AssignProductCategory(h, product, target, primary)
  PROVE  BaseInv' /\ CatalogStep(h)
<1>1. PICK id : id = NewId("link")
  OBVIOUS
<1>2. PICK refs : refs = LinkRefs(product, target)
  OBVIOUS
<1>3. PICK q : q = (IF primary THEN <<ClearPrimary(product, None)>> ELSE <<>>)
                   \o <<Save(id, ProductCategory(refs, primary))>>
  OBVIOUS
<1>4. "link" \in TableNames /\ product \in IdsOf("product") /\ RowsTyped
  BY DEF TableNames, RefsOf, RowsIn, BaseInv
<1>5. AcceptNew(h, id, q)
  BY <1>1, <1>2, <1>3 DEF AssignProductCategory
<1>6. id \in IdsOf("link") /\ id[1] = "link"
  BY <1>1, <1>4, <1>5, NewIds DEF AcceptNew, NewId, BaseInv
<1>7. /\ refs \in [RefsOf["link"] -> Ids \cup {None}]
      /\ refs.product = product /\ refs.category \in IdsOf("category")
      /\ refs.sub \in IdsOf("sub") \cup {None}
      /\ refs.sub # None => Has(refs.sub) /\ At(refs.sub).refs.category = refs.category
  BY <1>2, <1>4, TargetRows, LinkRefsType
<1>8. PICK row : row = ProductCategory(refs, primary)
  OBVIOUS
<1>9. row \in RowOf("link") /\ row.refs = refs /\ row.flag = primary
  BY <1>4, <1>7, <1>8, LinkRow
<1>13. NewOne(id) /\ id[2] = used["link"] + 1
  <2>1. HasRoom("link") /\ used' = WithUsed("link")
    BY <1>5, <1>6 DEF AcceptNew
  <2> QED BY <1>1, <1>4, <2>1, NewOnes DEF BaseInv
<1>10. LevelsSeen("link", id, row)
  BY <1>7, <1>9, <1>13 DEF LevelsSeen, Low, High
<1>11. SaveDecided(id, row)
  BY <1>6, <1>10, <1>13 DEF SaveDecided, Fixed, FixedRef
<1>12. Queue(q) /\ q # <<>> /\ Decided(q)
  <2>1. None \in {None, id} /\ product = row.refs.product /\ (primary \/ ~row.flag)
    BY <1>7, <1>9
  <2> QED BY <1>3, <1>6, <1>8, <1>9, <1>11, <2>1, LinkQueue
<1> QED BY <1>1, <1>4, <1>5, <1>12, BeganNew

LinkChanged(old, primary, category, sub) ==
  [old EXCEPT !.flag = primary, !.refs.category = Kept(@, category), !.refs.sub = Kept(@, sub)]

LEMMA ChangedLink ==
  ASSUME RowsTyped, NEW id \in RowsIn("link"), NEW category \in IdsOf("category"),
         NEW sub \in IdsOf("sub") \cup {None}, NEW primary \in BOOLEAN
  PROVE  \E row \in RowOf("link") :
           /\ row = LinkChanged(At(id), primary, category, sub)
           /\ row.flag = primary /\ row.refs.product = At(id).refs.product
           /\ row.refs.category = Kept(At(id).refs.category, category)
           /\ row.refs.sub = Kept(At(id).refs.sub, sub)
<1>1. "link" \in TableNames /\ RefsOf["link"] = {"product", "category", "sub"}
      /\ "category" \in TableNames /\ "sub" \in TableNames
      /\ <<"link", "category">> \notin NotNull /\ <<"link", "sub">> \notin NotNull
      /\ <<"link", "product">> \in NotNull /\ "product" \in TableNames
  BY DEF TableNames, RefsOf, NotNull
<1>2. PICK old : old = At(id)
  OBVIOUS
<1>3. old \in RowOf("link")
  BY <1>1, <1>2, RowsInTable
<1>4. PICK k, f, n, r : old = [key |-> k, flag |-> f, number |-> n, refs |-> r]
  BY <1>1, <1>3, RowParts
<1>5. /\ k \in Names \cup {None} /\ n \in Nat \cup {None}
      /\ r \in [{"product", "category", "sub"} -> Ids \cup {None}]
      /\ r["product"] \in IdsOf("product")
      /\ r["category"] \in IdsOf("category") \cup {None}
      /\ r["sub"] \in IdsOf("sub") \cup {None}
  <2>1. /\ old.key \in Names \cup {None} /\ old.number \in Nat \cup {None}
        /\ old.refs \in [{"product", "category", "sub"} -> Ids \cup {None}]
    BY <1>1, <1>3, RowParts
  <2>2. \A ref \in RefsOf["link"] :
          old.refs[ref] \in IdsOf(ref) \/ (old.refs[ref] = None /\ <<"link", ref>> \notin NotNull)
    BY <1>1, <1>3, RefParts
  <2>3. old.key = k /\ old.number = n /\ old.refs = r
    BY <1>4
  <2>4. /\ r["product"] \in IdsOf("product")
        /\ r["category"] \in IdsOf("category") \cup {None}
        /\ r["sub"] \in IdsOf("sub") \cup {None}
    BY <1>1, <2>2, <2>3
  <2> QED BY <2>1, <2>3, <2>4
<1>6. PICK c, s : c = Kept(r["category"], category) /\ s = Kept(r["sub"], sub)
  OBVIOUS
<1>7. c \in IdsOf("category") /\ s \in IdsOf("sub") \cup {None}
  BY <1>5, <1>6 DEF Kept
<1>8. PICK r1 : r1 = [r EXCEPT !["category"] = c]
  OBVIOUS
<1>9. PICK r2 : r2 = [r1 EXCEPT !["sub"] = s]
  OBVIOUS
<1>10. r1 \in [{"product", "category", "sub"} -> Ids \cup {None}] /\ r1["sub"] = r["sub"]
  <2>1. c \in Ids
    BY <1>1, <1>7, IdParts
  <2> QED BY <1>5, <1>8, <2>1
<1>11. /\ r2 \in [{"product", "category", "sub"} -> Ids \cup {None}]
       /\ r2["product"] = r["product"] /\ r2["category"] = c /\ r2["sub"] = s
  <2>1. s \in Ids \cup {None}
    BY <1>1, <1>7, IdParts
  <2> QED BY <1>5, <1>8, <1>9, <1>10, <2>1
<1>12. PICK row : row = [key |-> k, flag |-> primary, number |-> n, refs |-> r2]
  OBVIOUS
<1>13. row \in RowOf("link")
  BY <1>1, <1>5, <1>7, <1>11, <1>12 DEF RowOf
<1>14. row = [old EXCEPT !.flag = primary, !.refs.category = Kept(@, category), !.refs.sub = Kept(@, sub)]
  <2>1. PICK a : a = [old EXCEPT !.flag = primary]
    OBVIOUS
  <2>2. a = [key |-> k, flag |-> primary, number |-> n, refs |-> r]
    BY <1>4, <2>1
  <2>3. PICK b : b = [a EXCEPT !.refs = r1]
    OBVIOUS
  <2>4. b = [key |-> k, flag |-> primary, number |-> n, refs |-> r1]
    BY <2>2, <2>3
  <2>5. [b EXCEPT !.refs = r2] = [key |-> k, flag |-> primary, number |-> n, refs |-> r2]
    BY <2>4
  <2>6. [old EXCEPT !.flag = primary, !.refs.category = Kept(@, category), !.refs.sub = Kept(@, sub)]
          = [b EXCEPT !.refs = r2]
    BY <1>4, <1>6, <1>8, <1>9, <1>10, <2>1, <2>2, <2>3, <2>4
  <2> QED BY <1>12, <2>5, <2>6
<1>15. row.flag = primary /\ row.refs = r2 /\ At(id).refs = r
  BY <1>2, <1>4, <1>12
<1>16. /\ row.refs.product = At(id).refs.product
       /\ row.refs.category = Kept(At(id).refs.category, category)
       /\ row.refs.sub = Kept(At(id).refs.sub, sub)
  BY <1>6, <1>11, <1>15
<1>17. row = LinkChanged(At(id), primary, category, sub)
  BY <1>2, <1>14 DEF LinkChanged
<1> QED BY <1>13, <1>15, <1>16, <1>17

LEMMA UpdatedLinkIs ==
  ASSUME BaseInv, NEW h \in Handlers, Free(h), NEW id \in RowsIn("link"),
         NEW target \in Targets, NEW given \in BOOLEAN, NEW primary \in BOOLEAN,
         UpdateProductCategory(h, id, target, given, primary)
  PROVE  BaseInv' /\ CatalogStep(h)
<1>1. PICK refs : refs = LinkRefs(At(id).refs.product, target)
  OBVIOUS
<1>2. /\ "link" \in TableNames /\ "product" \in RefsOf["link"] /\ RowsTyped
      /\ <<"link", "product">> \in NotNull
  BY DEF TableNames, RefsOf, NotNull, BaseInv
<1>3. id \in IdsOf("link") /\ id \in Ids /\ id[1] = "link" /\ Has(id) /\ At(id) \in RowOf("link")
  BY <1>2, RowsInTable
<1>4. At(id).refs["product"] \in IdsOf("product")
  BY <1>2, <1>3, RefParts
<1>5. /\ refs.product = At(id).refs.product /\ refs.category \in IdsOf("category")
      /\ refs.sub \in IdsOf("sub") \cup {None}
      /\ refs.sub # None => Has(refs.sub) /\ At(refs.sub).refs.category = refs.category
  BY <1>1, <1>2, <1>4, TargetRows, LinkRefsType
<1>6. PICK row \in RowOf("link") :
        /\ row = LinkChanged(At(id), primary, refs.category, refs.sub)
        /\ row.flag = primary /\ row.refs.product = At(id).refs.product
        /\ row.refs.category = Kept(At(id).refs.category, refs.category)
        /\ row.refs.sub = Kept(At(id).refs.sub, refs.sub)
  <2>1. refs.category \in IdsOf("category") /\ refs.sub \in IdsOf("sub") \cup {None} /\ RowsTyped
    BY <1>2, <1>5
  <2> QED BY <2>1, ChangedLink
<1>7. PICK clears : clears = (given /\ primary)
  OBVIOUS
<1>8. PICK product : product = At(id).refs.product
  OBVIOUS
<1>9. PICK q : q = (IF clears THEN <<ClearPrimary(product, id)>> ELSE <<>>) \o <<Save(id, row)>>
  OBVIOUS
<1>10. /\ Accept(h, q) /\ used' = used /\ approvals' = approvals
       /\ moved' = moved \cup {x \in {id} : refs.category # At(id).refs.category}
       /\ given \/ primary = At(id).flag
  <2>1. /\ Accept(h, (IF given /\ primary THEN <<ClearPrimary(At(id).refs.product, id)>> ELSE <<>>)
                   \o <<Save(id, LinkChanged(At(id), primary, refs.category, refs.sub))>>)
        /\ used' = used /\ approvals' = approvals
        /\ moved' = moved \cup {x \in {id} : refs.category # At(id).refs.category}
        /\ given \/ primary = At(id).flag
    BY <1>1 DEF UpdateProductCategory, LinkChanged
  <2> QED BY <1>6, <1>7, <1>8, <1>9, <2>1
<1>11. LevelsSeen("link", id, row)
  BY <1>3, <1>5, <1>6, <1>10 DEF LevelsSeen, Low, High, Kept
<1>12. SaveDecided(id, row)
  BY <1>3, <1>6, <1>11 DEF SaveDecided, Fixed, FixedRef
<1>13. Queue(q) /\ q # <<>> /\ Decided(q)
  <2>1. id \in {None, id} /\ product = row.refs.product
    BY <1>6, <1>8
  <2>2. clears \/ (row.flag => Has(id) /\ At(id).flag /\ At(id).refs.product = product)
    BY <1>3, <1>6, <1>7, <1>8, <1>10
  <2> QED BY <1>3, <1>6, <1>9, <1>12, <2>1, <2>2, LinkQueue
<1>14. Counted' /\ \A t \in TableNames : used[t] <= used'[t]
  BY <1>10 DEF BaseInv, Counted
<1>15. moved \subseteq moved' /\ moved' \subseteq Ids /\ approvals \subseteq approvals'
  BY <1>3, <1>10 DEF BaseInv
<1> QED BY <1>10, <1>13, <1>14, <1>15, Began

LEMMA CategoryRequestIs ==
  ASSUME BaseInv, NEW h \in Handlers, Free(h), CategoryRequest(h)
  PROVE  BaseInv' /\ CatalogStep(h)
<1>1. \A t \in {"parent", "category", "sub", "link"} : t \in TableNames \ {"stock", "shipping"}
  BY DEF TableNames, RefsOf
<1>2. ASSUME NEW t \in {"parent", "category", "sub", "link"}, NEW id \in RowsIn(t),
             AcceptOld(h, <<Drop(id)>>)
      PROVE  BaseInv' /\ CatalogStep(h)
  BY <1>1, <1>2, Removed
<1>3. CASE \E slug \in Names :
         \/ CreateParentCategory(h, slug)
         \/ \E id \in RowsIn("parent") : UpdateParentCategory(h, id, slug)
         \/ \E parent \in RowsIn("parent") :
              \/ CreateCategory(h, parent, slug)
              \/ \E id \in RowsIn("category") : UpdateCategory(h, id, parent, slug)
         \/ \E category \in RowsIn("category") : CreateSubCategory(h, category, slug)
         \/ \E id \in RowsIn("sub") : UpdateSubCategory(h, id, slug)
  BY <1>3, CategoriesIs
<1>4. CASE \E id \in RowsIn("parent") : RemoveParentCategory(h, id)
  BY <1>2, <1>4 DEF RemoveParentCategory
<1>5. CASE \E id \in RowsIn("category") : RemoveCategory(h, id)
  BY <1>2, <1>5 DEF RemoveCategory
<1>6. CASE \E id \in RowsIn("sub") : RemoveSubCategory(h, id)
  BY <1>2, <1>6 DEF RemoveSubCategory
<1>7. CASE \E target \in Targets, primary \in BOOLEAN, product \in RowsIn("product") :
             AssignProductCategory(h, product, target, primary)
  BY <1>7, AssignedIs
<1>8. CASE \E target \in Targets, primary \in BOOLEAN, id \in RowsIn("link"), given \in BOOLEAN :
             UpdateProductCategory(h, id, target, given, primary)
  BY <1>8, UpdatedLinkIs
<1>9. CASE \E id \in RowsIn("link") : RemoveProductCategory(h, id)
  BY <1>2, <1>9 DEF RemoveProductCategory
<1> QED
  BY <1>3, <1>4, <1>5, <1>6, <1>7, <1>8, <1>9 DEF CategoryRequest

(* Products: the row, then its stock, then its links.                      *)
LEMMA ProductRow ==
  ASSUME NEW brand \in IdsOf("brand") \cup {None}, NEW method \in IdsOf("shipping") \cup {None},
         NEW slug \in Names, NEW approved \in BOOLEAN, NEW number \in Nat \cup {None}
  PROVE  /\ Product(slug, brand, method, approved, number) \in RowOf("product")
         /\ Product(slug, brand, method, approved, number).flag = approved
         /\ Product(slug, brand, method, approved, number).key = slug
<1>1. /\ RefsOf["product"] = {"brand", "shipping"} /\ "brand" \in TableNames /\ "shipping" \in TableNames
      /\ <<"product", "brand">> \notin NotNull /\ <<"product", "shipping">> \notin NotNull
  BY DEF TableNames, RefsOf, NotNull
<1>2. PICK refs : refs = [brand |-> brand, shipping |-> method]
  OBVIOUS
<1>3. brand \in Ids \cup {None} /\ method \in Ids \cup {None}
  BY <1>1, IdParts
<1>4. /\ refs \in [RefsOf["product"] -> Ids \cup {None}]
      /\ refs["brand"] = brand /\ refs["shipping"] = method
  BY <1>1, <1>2, <1>3
<1>5. [key |-> slug, flag |-> approved, number |-> number, refs |-> refs] \in RowOf("product")
  BY <1>1, <1>4 DEF RowOf
<1> QED BY <1>2, <1>5 DEF Product, Numbered

LEMMA ProductQueue ==
  ASSUME NEW id \in IdsOf("product"), NEW row \in RowOf("product"), SaveDecided(id, row),
         NEW q \in Seq(Steps), q # <<>>, q[1] = Save(id, row),
         \A i \in DOMAIN q : i > 1 => q[i].do = "assign" \/ (i = 2 /\ q[2] = UpsertStock(id)),
         Has(id) \/ (Len(q) > 1 /\ q[2] = UpsertStock(id))
  PROVE  Queue(q) /\ Decided(q)
<1>1. q[1].do = "save" /\ q[1].id = id /\ q[1].row = row /\ id[1] = "product" /\ Writes(q[1])
  <2>1. id[1] = "product"
    BY IdParts DEF TableNames, RefsOf
  <2> QED BY <2>1, StepsAre DEF Save, TableNames, RefsOf
<1>2. ASSUME NEW i \in DOMAIN q, i > 1
      PROVE  Follows(q, i) /\ q[1].do # "drop" /\ ~Writes(q[i])
  BY <1>1, <1>2 DEF Follows, IsSave, Writes, UpsertStock
<1>3. Queue(q)
  BY <1>2 DEF Queue
<1>4. FirstDecided(q)
  BY <1>1 DEF FirstDecided, IsSave
<1>5. ASSUME NEW i \in DOMAIN q, Writes(q[i])
      PROVE  SaveDecided(q[i].id, q[i].row)
  <2>1. i = 1
    <3>1. i \in Nat /\ i >= 1
      OBVIOUS
    <3> QED BY <1>2, <1>5, <3>1
  <2> QED BY <1>1, <2>1
<1> QED BY <1>3, <1>4, <1>5 DEF Decided

LEMMA AssignmentsAre ==
  ASSUME RowsTyped, NEW id \in IdsOf("product"), NEW target \in Targets \cup {None}
  PROVE  /\ Assignments(id, target) \in Seq(Steps)
         /\ \A i \in DOMAIN Assignments(id, target) : Assignments(id, target)[i].do = "assign"
<1>1. CASE target = None
  BY <1>1 DEF Assignments
<1>2. CASE target # None
  <2>1. Assign(id, target) \in Steps /\ Assign(id, target).do = "assign"
    BY <1>2, TargetRows, StepsAre DEF Assign
  <2>2. PICK step : step = Assign(id, target)
    OBVIOUS
  <2>3. Assignments(id, target) = <<step>>
    BY <1>2, <2>2 DEF Assignments
  <2> QED BY <2>1, <2>2, <2>3
<1> QED BY <1>1, <1>2

LEMMA CreatedProductIs ==
  ASSUME BaseInv, NEW h \in Handlers, Free(h), NEW slug \in Names,
         NEW method \in RowsIn("shipping") \cup {None}, NEW approved \in BOOLEAN,
         NEW target \in Targets \cup {None}, NEW brand \in ActiveBrands \cup {None},
         CreateProduct(h, slug, brand, method, approved, target)
  PROVE  BaseInv' /\ CatalogStep(h)
<1>1. PICK id : id = NewId("product")
  OBVIOUS
<1>2. PICK row : row = Product(slug, brand, method, approved, NextNumber("product"))
  OBVIOUS
<1>3. PICK links : links = Assignments(id, target)
  OBVIOUS
<1>4. PICK save, stock : save = Save(id, row) /\ stock = UpsertStock(id)
  OBVIOUS
<1>5. PICK q : q = <<save, stock>> \o links
  OBVIOUS
<1>6. /\ WithKey("product", slug) = {} /\ HasRoom("product") /\ Accept(h, q)
      /\ used' = WithUsed("product") /\ moved' = moved
      /\ approvals' = approvals \cup ApprovedAs(id, row)
  BY <1>1, <1>2, <1>3, <1>4, <1>5 DEF CreateProduct, CreationOf
<1>7. "product" \in TableNames \ {"settings"} /\ RowsTyped /\ Counted
  BY DEF TableNames, RefsOf, BaseInv
<1>8. id \in IdsOf("product") /\ id[1] = "product" /\ Counted' /\ \A t \in TableNames : used[t] <= used'[t]
  BY <1>1, <1>6, <1>7, NewIds
<1>9. brand \in IdsOf("brand") \cup {None} /\ method \in IdsOf("shipping") \cup {None}
  BY DEF ActiveBrands, RowsIn
<1>10. row \in RowOf("product") /\ row.flag = approved /\ row.key = slug
  <2>1. PICK number \in Nat \cup {None} : number = NextNumber("product")
    BY <1>7, NextNumberType
  <2> QED BY <1>2, <1>9, <2>1, ProductRow
<1>11. save \in Steps /\ stock \in Steps
  BY <1>4, <1>7, <1>8, <1>10, StepsAre
<1>12. links \in Seq(Steps) /\ \A i \in DOMAIN links : links[i].do = "assign"
  BY <1>3, <1>7, <1>8, AssignmentsAre
<1>13. /\ q \in Seq(Steps) /\ q # <<>> /\ q[1] = save /\ q[2] = stock /\ Len(q) > 1
       /\ \A i \in DOMAIN q : i > 2 => i - 2 \in DOMAIN links /\ q[i] = links[i - 2]
  BY <1>5, <1>11, <1>12
<1>14. \A i \in DOMAIN q : i > 1 => q[i].do = "assign" \/ (i = 2 /\ q[2] = UpsertStock(id))
  BY <1>4, <1>12, <1>13
<1>15. SaveDecided(id, row)
  BY <1>6, <1>8, <1>10 DEF SaveDecided, Fixed, FixedRef, ApprovedAs
<1>16. Queue(q) /\ Decided(q)
  BY <1>4, <1>8, <1>10, <1>13, <1>14, <1>15, ProductQueue
<1>17. moved \subseteq moved' /\ moved' \subseteq Ids /\ approvals \subseteq approvals'
  BY <1>6 DEF BaseInv
<1> QED BY <1>6, <1>8, <1>13, <1>16, <1>17, Began

LEMMA Joined ==
  ASSUME NEW S, NEW p \in Seq(S), NEW r \in Seq(S)
  PROVE  /\ p \o r \in Seq(S) /\ Len(p \o r) = Len(p) + Len(r)
         /\ \A i \in 1..(Len(p) + Len(r)) :
              (p \o r)[i] = IF i <= Len(p) THEN p[i] ELSE r[i - Len(p)]
<1>1. p \o r \in Seq(S) /\ Len(p \o r) = Len(p) + Len(r)
  OBVIOUS
<1>2. \A i \in 1..(Len(p) + Len(r)) : (p \o r)[i] = IF i <= Len(p) THEN p[i] ELSE r[i - Len(p)]
  OBVIOUS
<1> QED BY <1>1, <1>2

LEMMA UpdatedProductIs ==
  ASSUME BaseInv, NEW h \in Handlers, Free(h), NEW slug \in Names, NEW id \in RowsIn("product"),
         NEW method \in RowsIn("shipping") \cup {None}, NEW approved \in BOOLEAN,
         NEW target \in Targets \cup {None}, NEW stock \in BOOLEAN,
         NEW brand \in ActiveBrands \cup {At(id).refs.brand, None},
         UpdateProduct(h, id, slug, brand, method, approved, stock, target)
  PROVE  BaseInv' /\ CatalogStep(h)
<1>1. PICK row : row = Product(slug, brand, method, approved, At(id).number)
  OBVIOUS
<1>2. PICK links : links = Assignments(id, target)
  OBVIOUS
<1>3. PICK save, upsert : save = Save(id, row) /\ upsert = UpsertStock(id)
  OBVIOUS
<1>4. PICK mid : mid = IF stock THEN <<upsert>> ELSE <<>>
  OBVIOUS
<1>5. PICK q : q = <<save>> \o mid \o links
  OBVIOUS
<1>6. /\ Has(id) /\ Renamed(id, slug) /\ Accept(h, q)
      /\ used' = used /\ moved' = moved
      /\ approvals' = approvals \cup {x \in ApprovedAs(id, row) : approved}
  BY <1>1, <1>2, <1>3, <1>4, <1>5 DEF UpdateProduct, PendingUnless
<1>7. /\ "product" \in TableNames \ {"settings"} /\ RowsTyped /\ Counted
      /\ "brand" \in RefsOf["product"]
  BY DEF TableNames, RefsOf, BaseInv
<1>8. id \in IdsOf("product") /\ id[1] = "product" /\ At(id) \in RowOf("product")
  BY <1>7, RowsInTable
<1>9. brand \in IdsOf("brand") \cup {None} /\ method \in IdsOf("shipping") \cup {None}
  <2>1. At(id).refs["brand"] \in IdsOf("brand") \cup {None}
    BY <1>7, <1>8, RefParts
  <2> QED BY <2>1 DEF ActiveBrands, RowsIn
<1>10. row \in RowOf("product") /\ row.flag = approved /\ row.key = slug
  <2>1. PICK number \in Nat \cup {None} : number = At(id).number
    BY <1>7, <1>8, RowParts
  <2> QED BY <1>1, <1>9, <2>1, ProductRow
<1>11. save \in Steps /\ upsert \in Steps
  BY <1>3, <1>7, <1>8, <1>10, StepsAre
<1>12. links \in Seq(Steps) /\ \A i \in DOMAIN links : links[i].do = "assign"
  BY <1>2, <1>7, <1>8, AssignmentsAre
<1>13. /\ q \in Seq(Steps) /\ q # <<>> /\ q[1] = save
       /\ \A i \in DOMAIN q : i > 1 => (i = 2 /\ q[2] = upsert) \/ q[i].do = "assign"
  <2>1. CASE stock
    <3>1. PICK p : p = <<save>> \o mid
      OBVIOUS
    <3>2. p \in Seq(Steps) /\ Len(p) = 2 /\ p[1] = save /\ p[2] = upsert
      BY <1>4, <1>11, <2>1, <3>1, TwoSteps
    <3>3. q = p \o links
      BY <1>5, <3>1
    <3>4. /\ q \in Seq(Steps) /\ q # <<>> /\ q[1] = save /\ q[2] = upsert
          /\ \A i \in DOMAIN q : i > 2 => i - 2 \in DOMAIN links /\ q[i] = links[i - 2]
      <4>7. /\ q \in Seq(Steps) /\ Len(q) = Len(p) + Len(links)
            /\ \A i \in 1..(Len(p) + Len(links)) : q[i] = IF i <= Len(p) THEN p[i] ELSE links[i - Len(p)]
        BY <1>12, <3>2, <3>3, Joined
      <4>1. /\ q \in Seq(Steps) /\ Len(q) = 2 + Len(links) /\ DOMAIN q = 1..(2 + Len(links))
            /\ DOMAIN links = 1..Len(links) /\ Len(links) \in Nat
        BY <1>12, <3>2, <4>7
      <4>2. \A i \in 1..(2 + Len(links)) : q[i] = IF i <= 2 THEN p[i] ELSE links[i - 2]
        BY <3>2, <4>7
      <4>3. 1 \in 1..(2 + Len(links)) /\ 2 \in 1..(2 + Len(links))
        BY <4>1
      <4>4. q[1] = save /\ q[2] = upsert
        BY <3>2, <4>2, <4>3
      <4>5. \A i \in DOMAIN q : i > 2 => i - 2 \in DOMAIN links /\ q[i] = links[i - 2]
        BY <4>1, <4>2
      <4>6. q # <<>>
        BY <4>1
      <4> QED BY <4>1, <4>4, <4>5, <4>6
    <3>5. ASSUME NEW i \in DOMAIN q, i > 1
          PROVE  (i = 2 /\ q[2] = upsert) \/ q[i].do = "assign"
      <4>1. i = 2 \/ i > 2
        BY <3>4, <3>5
      <4> QED BY <1>12, <3>4, <4>1
    <3> QED BY <3>4, <3>5
  <2>2. CASE ~stock
    <3>1. PICK p : p = <<save>> \o mid
      OBVIOUS
    <3>2. p = <<save>>
      BY <1>4, <1>11, <2>2, <3>1
    <3>3. q = <<save>> \o links
      BY <1>5, <3>1, <3>2
    <3>4. /\ q \in Seq(Steps) /\ q # <<>> /\ q[1] = save
          /\ \A i \in DOMAIN q : i > 1 => i - 1 \in DOMAIN links /\ q[i] = links[i - 1]
      BY <1>11, <1>12, <3>3
    <3> QED BY <1>12, <3>4
  <2> QED BY <2>1, <2>2
<1>14. \A i \in DOMAIN q : i > 1 => q[i].do = "assign" \/ (i = 2 /\ q[2] = UpsertStock(id))
  BY <1>3, <1>13
<1>15. SaveDecided(id, row)
  BY <1>6, <1>8, <1>10 DEF SaveDecided, Fixed, FixedRef, ApprovedAs, Renamed
<1>16. Queue(q) /\ Decided(q)
  BY <1>3, <1>6, <1>8, <1>10, <1>13, <1>14, <1>15, ProductQueue
<1>17. Counted' /\ \A t \in TableNames : used[t] <= used'[t]
  BY <1>6, <1>7 DEF Counted
<1>18. moved \subseteq moved' /\ moved' \subseteq Ids /\ approvals \subseteq approvals'
  BY <1>6 DEF BaseInv
<1> QED BY <1>6, <1>13, <1>16, <1>17, <1>18, Began

LEMMA ReviewIs ==
  ASSUME BaseInv, NEW h \in Handlers, Free(h), NEW id \in IdsOf("product"),
         NEW approved \in BOOLEAN, ReviewProduct(h, id, approved)
  PROVE  BaseInv' /\ CatalogStep(h)
<1>1. PICK row : row = [At(id) EXCEPT !.flag = approved]
  OBVIOUS
<1>2. PICK save : save = Save(id, row)
  OBVIOUS
<1>3. /\ Has(id) /\ Accept(h, <<save>>) /\ used' = used /\ moved' = moved
      /\ approvals' = approvals \cup ApprovedAs(id, row)
  BY <1>1, <1>2 DEF ReviewProduct
<1>4. "product" \in TableNames \ {"settings"} /\ RowsTyped /\ Counted
  BY DEF TableNames, RefsOf, BaseInv
<1>5. id[1] = "product" /\ At(id) \in RowOf("product")
  BY <1>3, <1>4, IdParts, Rows
<1>6. row \in RowOf("product") /\ row.flag = approved /\ row.key = At(id).key
  <2>1. PICK old : old = At(id)
    OBVIOUS
  <2> QED BY <1>1, <1>4, <1>5, <2>1, FlaggedRow
<1>7. save \in Steps /\ save.do = "save" /\ save.id = id /\ save.row = row
  BY <1>2, <1>4, <1>6, StepsAre DEF Save
<1>8. SaveDecided(id, row)
  BY <1>3, <1>5, <1>6 DEF SaveDecided, Fixed, FixedRef, ApprovedAs
<1>9. Queue(<<save>>) /\ <<save>> # <<>> /\ Decided(<<save>>)
  BY <1>3, <1>5, <1>7, <1>8, OneStep DEF IsSave
<1>10. Counted' /\ \A t \in TableNames : used[t] <= used'[t]
  BY <1>3, <1>4 DEF Counted
<1>11. moved \subseteq moved' /\ moved' \subseteq Ids /\ approvals \subseteq approvals'
  BY <1>3 DEF BaseInv
<1> QED BY <1>3, <1>9, <1>10, <1>11, Began

LEMMA ProductRequestIs ==
  ASSUME BaseInv, NEW h \in Handlers, Free(h), ProductRequest(h)
  PROVE  BaseInv' /\ CatalogStep(h)
<1>1. CASE \E slug \in Names, method \in RowsIn("shipping") \cup {None}, approved \in BOOLEAN,
              target \in Targets \cup {None}, brand \in ActiveBrands \cup {None} :
             CreateProduct(h, slug, brand, method, approved, target)
  BY <1>1, CreatedProductIs
<1>2. CASE \E slug \in Names, method \in RowsIn("shipping") \cup {None}, approved \in BOOLEAN,
              target \in Targets \cup {None}, id \in RowsIn("product"), stock \in BOOLEAN :
             \E brand \in ActiveBrands \cup {At(id).refs.brand, None} :
               UpdateProduct(h, id, slug, brand, method, approved, stock, target)
  BY <1>2, UpdatedProductIs
<1>3. "product" \in TableNames \ {"stock", "shipping"} /\ RowsIn("product") \subseteq IdsOf("product")
  BY DEF TableNames, RefsOf, RowsIn
<1>4. CASE \E id \in RowsIn("product") : RemoveProduct(h, id)
  BY <1>3, <1>4, Removed DEF RemoveProduct
<1>5. CASE \E id \in RowsIn("product"), approved \in BOOLEAN : ReviewProduct(h, id, approved)
  BY <1>3, <1>5, ReviewIs
<1>6. ASSUME NEW offer \in RowsIn("offer"), ApproveOffer(h, offer)
      PROVE  BaseInv' /\ CatalogStep(h)
  <2>1. /\ "offer" \in TableNames /\ "product" \in RefsOf["offer"] /\ RowsTyped
        /\ <<"offer", "product">> \in NotNull
    BY DEF TableNames, RefsOf, NotNull, BaseInv
  <2>2. At(offer) \in RowOf("offer")
    BY <2>1, RowsInTable
  <2>3. At(offer).refs["product"] \in IdsOf("product")
    BY <2>1, <2>2, RefParts
  <2>4. ReviewProduct(h, At(offer).refs.product, TRUE)
    BY <1>6 DEF ApproveOffer
  <2> QED BY <2>3, <2>4, ReviewIs
<1> QED BY <1>1, <1>2, <1>4, <1>5, <1>6 DEF ProductRequest

LEMMA ReferenceRows ==
  ASSUME NEW key \in Names, NEW flag \in BOOLEAN, NEW number \in Nat \cup {None}
  PROVE  /\ Brand(key, flag, number) \in RowOf("brand")
         /\ Attribute(key, number) \in RowOf("attribute") /\ Attribute(key, number).key = key
         /\ \A attribute \in IdsOf("attribute") :
              AttributeValue(key, attribute, number) \in RowOf("value")
         /\ ShippingMethod(key, flag) \in RowOf("shipping")
<1>1. /\ "brand" \in TableNames /\ "attribute" \in TableNames /\ "value" \in TableNames
      /\ "shipping" \in TableNames /\ RefsOf["brand"] = {} /\ RefsOf["attribute"] = {}
      /\ RefsOf["value"] = {"attribute"} /\ RefsOf["shipping"] = {}
  BY DEF TableNames, RefsOf
<1>2. /\ key \in Names \cup {None} /\ None \in Names \cup {None}
      /\ FALSE \in BOOLEAN /\ None \in Nat \cup {None}
  OBVIOUS
<1>3. Brand(key, flag, number) \in RowOf("brand")
  BY <1>1, <1>2, RowWithoutRefs DEF Brand
<1>4. Attribute(key, number) \in RowOf("attribute")
  BY <1>1, <1>2, RowWithoutRefs DEF Attribute
<1>5. ASSUME NEW attribute \in IdsOf("attribute")
      PROVE  AttributeValue(key, attribute, number) \in RowOf("value")
  <2>1. PICK refs : refs = [attribute |-> attribute]
    OBVIOUS
  <2>2. refs \in [RefsOf["value"] -> Ids \cup {None}] /\ refs["attribute"] \in IdsOf("attribute")
    BY <1>1, <2>1, IdParts
  <2>3. [key |-> key, flag |-> FALSE, number |-> number, refs |-> refs] \in RowOf("value")
    BY <1>1, <1>2, <2>2 DEF RowOf
  <2> QED BY <2>1, <2>3 DEF AttributeValue, Numbered
<1>6. ShippingMethod(key, flag) \in RowOf("shipping")
  <2>1. PICK row : row = Plain(key, NoRefs)
    OBVIOUS
  <2>2. row \in RowOf("shipping")
    BY <1>1, <1>2, <2>1, RowWithoutRefs
  <2>3. [row EXCEPT !.flag = flag] \in RowOf("shipping")
    BY <1>1, <2>2, FlaggedRow
  <2> QED BY <2>1, <2>3 DEF ShippingMethod
<1> QED BY <1>3, <1>4, <1>5, <1>6 DEF Attribute, Numbered

LEMMA AttributeSaved ==
  ASSUME BaseInv, NEW h \in Handlers, Free(h), NEW id \in IdsOf("attribute"),
         NEW row \in RowOf("attribute"),
         \/ AcceptOld(h, <<Save(id, row)>>) /\ Has(id) /\ Renamed(id, row.key)
         \/ AcceptNew(h, id, <<Save(id, row)>>) /\ id = NewId("attribute") /\ NameFree(row.key)
  PROVE  BaseInv' /\ CatalogStep(h)
<1>1. "attribute" \in TableNames \ {"settings"} /\ "attribute" \notin Fixed
  BY DEF TableNames, RefsOf, Fixed, FixedRef
<1>2. PICK step : step = Save(id, row)
  OBVIOUS
<1>3. step \in Steps /\ step.do = "save" /\ step.id = id /\ step.row = row /\ id[1] = "attribute"
  BY <1>1, <1>2, StepsAre, IdParts DEF Save
<1>4. SaveDecided(id, row)
  BY <1>1, <1>3 DEF SaveDecided, Renamed, NameFree
<1>5. Queue(<<step>>) /\ <<step>> # <<>> /\ Decided(<<step>>)
  BY <1>3, <1>4, OneStep DEF IsSave
<1>6. CASE AcceptOld(h, <<step>>)
  BY <1>5, <1>6, BeganOld
<1>7. CASE AcceptNew(h, NewId("attribute"), <<step>>)
  BY <1>1, <1>5, <1>7, BeganNew
<1> QED BY <1>2, <1>6, <1>7

LEMMA ReferenceRequestIs ==
  ASSUME BaseInv, NEW h \in Handlers, Free(h), ReferenceRequest(h)
  PROVE  BaseInv' /\ CatalogStep(h)
<1>1. /\ \A t \in {"brand", "attribute", "value", "shipping", "order"} :
           t \in TableNames /\ RowsIn(t) \subseteq IdsOf(t)
      /\ "brand" \in Unguarded /\ "value" \in Unguarded /\ "shipping" \in Unguarded
      /\ "order" \in Unguarded /\ RowsTyped
  BY DEF TableNames, RefsOf, Unguarded, BaseInv, RowsIn
<1>2. ASSUME NEW t \in {"brand", "attribute", "value"}, NEW id \in RowsIn(t),
             AcceptOld(h, <<Drop(id)>>)
      PROVE  BaseInv' /\ CatalogStep(h)
  <2>1. t \in TableNames \ {"stock", "shipping"}
    BY <1>1
  <2> QED BY <1>2, <2>1, Removed
<1>3. \A t \in {"brand", "attribute", "value", "shipping", "order"}, id \in Ids :
        id \in RowsIn(t) => At(id).number \in Nat \cup {None}
  BY <1>1, RowsInTable, RowParts
<1>4. ASSUME NEW name \in Names, NEW active \in BOOLEAN, CreateBrand(h, name, active)
      PROVE  BaseInv' /\ CatalogStep(h)
  <2>1. Brand(name, active, NextNumber("brand")) \in RowOf("brand")
    BY <1>1, NextNumberType, ReferenceRows
  <2> QED BY <1>1, <1>4, <2>1, NewRow DEF CreateBrand
<1>5. ASSUME NEW name \in Names, NEW active \in BOOLEAN, CreateShippingMethod(h, name, active)
      PROVE  BaseInv' /\ CatalogStep(h)
  <2>1. None \in Nat \cup {None}
    OBVIOUS
  <2>2. ShippingMethod(name, active) \in RowOf("shipping")
    BY <2>1, ReferenceRows
  <2> QED BY <1>1, <1>5, <2>2, NewRow DEF CreateShippingMethod
<1>6. ASSUME NEW name \in Names, NEW active \in BOOLEAN, NEW id \in RowsIn("brand"),
             UpdateBrand(h, id, name, active)
      PROVE  BaseInv' /\ CatalogStep(h)
  <2>1. id \in Ids /\ id \in IdsOf("brand")
    BY <1>1, IdParts
  <2>2. Brand(name, active, At(id).number) \in RowOf("brand")
    BY <1>3, <2>1, ReferenceRows
  <2> QED BY <1>1, <1>6, <2>1, <2>2, OldRow DEF UpdateBrand
<1>7. ASSUME NEW name \in Names, NEW active \in BOOLEAN, NEW id \in RowsIn("shipping"),
             UpdateShippingMethod(h, id, name, active)
      PROVE  BaseInv' /\ CatalogStep(h)
  <2>1. None \in Nat \cup {None}
    OBVIOUS
  <2>2. ShippingMethod(name, active) \in RowOf("shipping")
    BY <2>1, ReferenceRows
  <2> QED BY <1>1, <1>7, <2>2, OldRow DEF UpdateShippingMethod
<1>8. ASSUME NEW name \in Names, CreateAttribute(h, name)
      PROVE  BaseInv' /\ CatalogStep(h)
  <2>1. PICK id, row : id = NewId("attribute") /\ row = Attribute(name, NextNumber("attribute"))
    OBVIOUS
  <2>2. row \in RowOf("attribute") /\ row.key = name
    BY <1>1, <2>1, NextNumberType, ReferenceRows
  <2>3. AcceptNew(h, id, <<Save(id, row)>>) /\ NameFree(name)
    BY <1>8, <2>1 DEF CreateAttribute
  <2>4. id \in IdsOf("attribute")
    BY <1>1, <2>1, <2>3, NewIds DEF AcceptNew, NewId, BaseInv
  <2> QED BY <2>1, <2>2, <2>3, <2>4, AttributeSaved
<1>9. ASSUME NEW name \in Names, NEW id \in RowsIn("attribute"), UpdateAttribute(h, id, name)
      PROVE  BaseInv' /\ CatalogStep(h)
  <2>1. PICK row : row = Attribute(name, At(id).number)
    OBVIOUS
  <2>2. id \in Ids /\ id \in IdsOf("attribute")
    BY <1>1, IdParts
  <2>3. row \in RowOf("attribute") /\ row.key = name
    BY <1>3, <2>1, <2>2, ReferenceRows
  <2>4. AcceptOld(h, <<Save(id, row)>>) /\ Has(id) /\ Renamed(id, name)
    BY <1>9, <2>1 DEF UpdateAttribute
  <2> QED BY <2>2, <2>3, <2>4, AttributeSaved
<1>10. ASSUME NEW name \in Names, NEW id \in RowsIn("attribute"), CreateValue(h, id, name)
       PROVE  BaseInv' /\ CatalogStep(h)
  <2>1. AttributeValue(name, id, NextNumber("value")) \in RowOf("value")
    BY <1>1, NextNumberType, ReferenceRows
  <2> QED BY <1>1, <1>10, <2>1, NewRow DEF CreateValue
<1>11. ASSUME NEW name \in Names, NEW id \in RowsIn("attribute"), NEW value \in RowsIn("value"),
              UpdateValue(h, value, id, name)
       PROVE  BaseInv' /\ CatalogStep(h)
  <2>1. value \in Ids /\ value \in IdsOf("value") /\ id \in IdsOf("attribute")
    BY <1>1, IdParts
  <2>2. AttributeValue(name, id, At(value).number) \in RowOf("value")
    BY <1>3, <2>1, ReferenceRows
  <2> QED BY <1>1, <1>11, <2>1, <2>2, OldRow DEF UpdateValue
<1>12. ASSUME NEW id \in RowsIn("shipping"), RemoveShippingMethod(h, id)
       PROVE  BaseInv' /\ CatalogStep(h)
  <2>1. id \in IdsOf("shipping") /\ "shipping" \in TableNames \ {"stock"}
    BY <1>1
  <2>2. Chosen(id) = {} /\ AcceptOld(h, <<Drop(id)>>)
    BY <1>12 DEF RemoveShippingMethod, NotInUse
  <2> QED BY <2>1, <2>2, Removal
<1>13. ASSUME NEW id \in RowsIn("shipping"), PlaceOrder(h, id)
       PROVE  BaseInv' /\ CatalogStep(h)
  <2>1. Plain(None, [shipping |-> id]) \in RowOf("order")
    <3>1. "shipping" \in TableNames /\ "order" \in TableNames /\ RefsOf["order"] = {"shipping"}
          /\ None \in Names \cup {None} /\ id \in IdsOf("shipping")
      BY <1>1 DEF RefsOf
    <3>2. Plain(None, Ref("shipping", id)) \in RowOf("order")
      BY <3>1, RowWithRef
    <3>3. Ref("shipping", id) = [shipping |-> id]
      BY DEF Ref
    <3> QED BY <3>2, <3>3
  <2> QED BY <1>1, <1>13, <2>1, NewRow DEF PlaceOrder
<1>14. ASSUME NEW id \in RowsIn("brand"), RemoveBrand(h, id)
       PROVE  BaseInv' /\ CatalogStep(h)
  BY <1>2, <1>14 DEF RemoveBrand
<1>15. ASSUME NEW id \in RowsIn("attribute"), RemoveAttribute(h, id)
       PROVE  BaseInv' /\ CatalogStep(h)
  BY <1>2, <1>15 DEF RemoveAttribute
<1>16. ASSUME NEW id \in RowsIn("value"), RemoveValue(h, id)
       PROVE  BaseInv' /\ CatalogStep(h)
  BY <1>2, <1>16 DEF RemoveValue
<1> QED BY <1>4, <1>5, <1>6, <1>7, <1>8, <1>9, <1>10, <1>11, <1>12, <1>13, <1>14, <1>15, <1>16
        DEF ReferenceRequest

LEMMA LocationRows ==
  /\ \A code \in Names : Country(code) \in RowOf("country")
  /\ \A code \in Names, country \in IdsOf("country") :
       State(code, country) \in RowOf("state") /\ State(code, country).refs = [country |-> country]
  /\ \A country \in IdsOf("country") \cup {None}, state \in IdsOf("state") \cup {None} :
       /\ City(country, state) \in RowOf("city")
       /\ City(country, state).refs = [country |-> country, state |-> state]
<1>1. /\ "country" \in TableNames /\ "state" \in TableNames /\ "city" \in TableNames
      /\ RefsOf["country"] = {} /\ RefsOf["state"] = {"country"} /\ RefsOf["city"] = {"country", "state"}
      /\ <<"city", "country">> \notin NotNull /\ <<"city", "state">> \notin NotNull
  BY DEF TableNames, RefsOf, NotNull
<1>2. FALSE \in BOOLEAN /\ None \in Nat \cup {None} /\ None \in Names \cup {None}
  OBVIOUS
<1>3. ASSUME NEW code \in Names
      PROVE  Country(code) \in RowOf("country")
  <2>1. code \in Names \cup {None}
    OBVIOUS
  <2> QED BY <1>1, <1>2, <2>1, RowWithoutRefs DEF Country
<1>4. ASSUME NEW code \in Names, NEW country \in IdsOf("country")
      PROVE  State(code, country) \in RowOf("state") /\ State(code, country).refs = [country |-> country]
  <2>1. code \in Names \cup {None}
    OBVIOUS
  <2>2. Plain(code, Ref("country", country)) \in RowOf("state")
    BY <1>1, <2>1, RowWithRef
  <2>3. Ref("country", country) = [country |-> country]
    BY DEF Ref
  <2> QED BY <2>2, <2>3 DEF State, Plain
<1>5. ASSUME NEW country \in IdsOf("country") \cup {None}, NEW state \in IdsOf("state") \cup {None}
      PROVE  /\ City(country, state) \in RowOf("city")
             /\ City(country, state).refs = [country |-> country, state |-> state]
  <2>1. PICK refs : refs = [country |-> country, state |-> state]
    OBVIOUS
  <2>2. country \in Ids \cup {None} /\ state \in Ids \cup {None}
    BY <1>1, IdParts
  <2>3. refs \in [RefsOf["city"] -> Ids \cup {None}] /\ refs["country"] = country /\ refs["state"] = state
    BY <1>1, <2>1, <2>2
  <2>4. Plain(None, refs) \in RowOf("city") /\ Plain(None, refs).refs = refs
    BY <1>1, <1>2, <2>3 DEF Plain, RowOf
  <2> QED BY <2>1, <2>4 DEF City
<1> QED BY <1>3, <1>4, <1>5

LEMMA StateSaved ==
  ASSUME BaseInv, NEW h \in Handlers, Free(h), NEW id \in IdsOf("state"), NEW row \in RowOf("state"),
         \/ AcceptOld(h, <<Save(id, row)>>) /\ Has(id) /\ At(id).refs = row.refs
         \/ AcceptNew(h, id, <<Save(id, row)>>) /\ id = NewId("state")
  PROVE  BaseInv' /\ CatalogStep(h)
<1>1. "state" \in TableNames \ {"settings"} /\ "state" \in Fixed
  BY DEF TableNames, RefsOf, Fixed, FixedRef
<1>2. PICK step : step = Save(id, row)
  OBVIOUS
<1>3. step \in Steps /\ step.do = "save" /\ step.id = id /\ step.row = row /\ id[1] = "state"
  BY <1>1, <1>2, StepsAre, IdParts DEF Save
<1>4. ASSUME AcceptNew(h, id, <<Save(id, row)>>), id = NewId("state")
      PROVE  id[2] = used["state"] + 1 /\ id[2] <= used'["state"]
  <2>1. HasRoom("state") /\ used' = WithUsed("state")
    BY <1>3, <1>4 DEF AcceptNew
  <2>2. id[2] = used["state"] + 1 /\ used'["state"] = used["state"] + 1
    BY <1>1, <1>4, <2>1, NewIds DEF BaseInv
  <2>3. used["state"] \in Nat
    BY <1>1 DEF BaseInv, Counted
  <2> QED BY <2>2, <2>3
<1>5. SaveDecided(id, row)
  BY <1>3, <1>4 DEF SaveDecided, NewOne
<1>6. Queue(<<step>>) /\ <<step>> # <<>> /\ Decided(<<step>>)
  BY <1>3, <1>5, OneStep DEF IsSave
<1>7. CASE AcceptOld(h, <<step>>)
  BY <1>6, <1>7, BeganOld
<1>8. CASE AcceptNew(h, NewId("state"), <<step>>)
  BY <1>1, <1>6, <1>8, BeganNew
<1> QED BY <1>2, <1>7, <1>8

LEMMA CityDecided ==
  ASSUME NEW id \in IdsOf("city"), NEW row \in RowOf("city"), LevelsSeen("city", id, row),
         Has(id) \/ NewOne(id)
  PROVE  /\ Queue(<<Save(id, row)>>) /\ <<Save(id, row)>> # <<>>
         /\ Decided(<<Save(id, row)>>)
<1>1. "city" \in TableNames \ {"settings"} /\ "city" \notin Fixed
  BY DEF TableNames, RefsOf, Fixed, FixedRef
<1>2. PICK step : step = Save(id, row)
  OBVIOUS
<1>3. step \in Steps /\ step.do = "save" /\ step.id = id /\ step.row = row /\ id[1] = "city"
  BY <1>1, <1>2, StepsAre, IdParts DEF Save
<1>4. SaveDecided(id, row)
  BY <1>1, <1>3 DEF SaveDecided
<1>5. Queue(<<step>>) /\ <<step>> # <<>> /\ Decided(<<step>>)
  BY <1>3, <1>4, OneStep DEF IsSave
<1> QED BY <1>2, <1>5

LEMMA CityRequestIs ==
  ASSUME BaseInv, NEW h \in Handlers, Free(h), NEW country \in RowsIn("country") \cup {None},
         NEW state \in RowsIn("state") \cup {None},
         CreateCity(h, country, state) \/ \E id \in RowsIn("city") : UpdateCity(h, id, country, state)
  PROVE  BaseInv' /\ CatalogStep(h)
<1>1. /\ "city" \in TableNames /\ RowsTyped /\ Counted /\ RefsOf["city"] = {"country", "state"}
      /\ country \in IdsOf("country") \cup {None} /\ state \in IdsOf("state") \cup {None}
  BY DEF TableNames, RefsOf, RowsIn, BaseInv
<1>2. CASE CreateCity(h, country, state)
  <2>1. PICK id, row : id = NewId("city") /\ row = City(country, state)
    OBVIOUS
  <2>2. row \in RowOf("city") /\ row.refs = [country |-> country, state |-> state]
    BY <1>1, <2>1, LocationRows
  <2>3. ValidCity(country, state) /\ AcceptNew(h, id, <<Save(id, row)>>)
    BY <1>2, <2>1 DEF CreateCity
  <2>4. id \in IdsOf("city")
    BY <1>1, <2>1, <2>3, NewIds DEF AcceptNew, NewId
  <2>7. NewOne(id) /\ id[2] = used["city"] + 1
    <3>1. HasRoom("city") /\ used' = WithUsed("city")
      BY <1>1, <2>1, <2>3, NewIds DEF AcceptNew, NewId
    <3> QED BY <1>1, <2>1, <3>1, NewOnes
  <2>5. LevelsSeen("city", id, row)
    <3>1. state # None => Has(state)
      BY DEF RowsIn
    <3> QED BY <2>2, <2>3, <2>7, <3>1 DEF LevelsSeen, Low, High, ValidCity
  <2>6. Queue(<<Save(id, row)>>) /\ <<Save(id, row)>> # <<>> /\ Decided(<<Save(id, row)>>)
    BY <2>2, <2>4, <2>5, <2>7, CityDecided
  <2> QED BY <1>1, <2>1, <2>3, <2>6, BeganNew
<1>3. ASSUME NEW id \in RowsIn("city"), UpdateCity(h, id, country, state)
      PROVE  BaseInv' /\ CatalogStep(h)
  <2>1. PICK old : old = At(id).refs
    OBVIOUS
  <2>2. PICK c, s : c = Kept(old.country, country) /\ s = Kept(old.state, state)
    OBVIOUS
  <2>3. PICK row : row = City(c, s)
    OBVIOUS
  <2>4. id \in IdsOf("city") /\ id \in Ids /\ Has(id) /\ At(id) \in RowOf("city") /\ id[1] = "city"
    BY <1>1, RowsInTable
  <2>5. old["country"] \in IdsOf("country") \cup {None} /\ old["state"] \in IdsOf("state") \cup {None}
    BY <1>1, <2>1, <2>4, RefParts
  <2>6. row \in RowOf("city") /\ row.refs = [country |-> c, state |-> s]
    BY <1>1, <2>2, <2>3, <2>5, LocationRows DEF Kept
  <2>7. /\ Accept(h, <<Save(id, row)>>) /\ used' = used /\ approvals' = approvals
        /\ moved' = moved \cup {x \in {id} : country # old.country \/ state # old.state}
    BY <1>3, <2>1, <2>2, <2>3 DEF UpdateCity
  <2>8. LevelsSeen("city", id, row)
    <3>1. state # None => Has(state)
      BY DEF RowsIn
    <3>2. row.refs.state = s /\ row.refs.country = c
      BY <2>6
    <3>3. id \in moved' \/ (country = old.country /\ state = old.state)
      BY <2>7
    <3>4. old.state # None => s = old.state
      BY <2>2 DEF Kept
    <3>5. old.state = None => s = state
      BY <2>2 DEF Kept
    <3>6. country = old.country => c = old.country
      BY <2>2 DEF Kept
    <3>7. state = old.state => s = old.state
      BY <2>2 DEF Kept
    <3>8. s # None => Has(s) \/ old.state = s
      BY <3>1, <3>4, <3>5
    <3>9. id \in moved' \/ (old.country = c /\ old.state = s)
      BY <3>3, <3>6, <3>7
    <3> QED BY <2>1, <2>4, <3>2, <3>8, <3>9 DEF LevelsSeen, Low, High
  <2>9. Queue(<<Save(id, row)>>) /\ <<Save(id, row)>> # <<>> /\ Decided(<<Save(id, row)>>)
    BY <2>4, <2>6, <2>8, CityDecided
  <2>10. Counted' /\ \A t \in TableNames : used[t] <= used'[t]
    BY <1>1, <2>7 DEF Counted
  <2>11. moved \subseteq moved' /\ moved' \subseteq Ids /\ approvals \subseteq approvals'
    BY <2>4, <2>7 DEF BaseInv
  <2> QED BY <2>7, <2>9, <2>10, <2>11, Began
<1> QED BY <1>2, <1>3

LEMMA LocationRequestIs ==
  ASSUME BaseInv, NEW h \in Handlers, Free(h), LocationRequest(h)
  PROVE  BaseInv' /\ CatalogStep(h)
<1>1. /\ \A t \in {"country", "state", "city"} :
           t \in TableNames \ {"stock", "shipping"} /\ RowsIn(t) \subseteq IdsOf(t)
      /\ "country" \in Unguarded /\ RowsTyped /\ RefsOf["state"] = {"country"}
      /\ <<"state", "country">> \in NotNull
  BY DEF TableNames, RefsOf, Unguarded, BaseInv, RowsIn, NotNull
<1>2. ASSUME NEW t \in {"country", "state", "city"}, NEW id \in RowsIn(t), AcceptOld(h, <<Drop(id)>>)
      PROVE  BaseInv' /\ CatalogStep(h)
  BY <1>1, <1>2, Removed
<1>3. ASSUME NEW code \in Names, CreateCountry(h, code)
      PROVE  BaseInv' /\ CatalogStep(h)
  BY <1>1, <1>3, LocationRows, NewRow DEF CreateCountry
<1>4. ASSUME NEW code \in Names, NEW country \in RowsIn("country"), UpdateCountry(h, country, code)
      PROVE  BaseInv' /\ CatalogStep(h)
  BY <1>1, <1>4, LocationRows, OldRow DEF UpdateCountry
<1>5. ASSUME NEW code \in Names, NEW country \in RowsIn("country"), CreateState(h, country, code)
      PROVE  BaseInv' /\ CatalogStep(h)
  <2>1. PICK id, row : id = NewId("state") /\ row = State(code, country)
    OBVIOUS
  <2>2. row \in RowOf("state")
    BY <1>1, <2>1, LocationRows
  <2>3. AcceptNew(h, id, <<Save(id, row)>>)
    BY <1>5, <2>1 DEF CreateState
  <2>4. id \in IdsOf("state")
    BY <1>1, <2>1, <2>3, NewIds DEF AcceptNew, NewId, BaseInv
  <2> QED BY <2>1, <2>2, <2>3, <2>4, StateSaved
<1>6. ASSUME NEW code \in Names, NEW country \in RowsIn("country"), NEW id \in RowsIn("state"),
             UpdateState(h, id, country, code)
      PROVE  BaseInv' /\ CatalogStep(h)
  <2>1. PICK old : old = At(id).refs.country
    OBVIOUS
  <2>2. id \in IdsOf("state") /\ Has(id) /\ At(id) \in RowOf("state")
    BY <1>1, RowsInTable
  <2>3. old \in IdsOf("country") /\ old # None
    <3>1. \A ref \in RefsOf["state"] : At(id).refs[ref] \in IdsOf(ref) /\ At(id).refs[ref] # None
      BY <1>1, <2>2, RefParts
    <3>2. At(id).refs["country"] \in IdsOf("country") /\ At(id).refs["country"] # None
      BY <1>1, <3>1
    <3> QED BY <2>1, <3>2
  <2>4. Kept(old, country) = old
    BY <2>3 DEF Kept
  <2>5. PICK row : row = State(code, old)
    OBVIOUS
  <2>6. row \in RowOf("state") /\ row.refs = [country |-> old]
    BY <2>3, <2>5, LocationRows
  <2>7. At(id).refs = [country |-> old]
    <3>1. At(id).refs \in [{"country"} -> Ids \cup {None}]
      BY <1>1, <2>2, RowParts
    <3> QED BY <2>1, <3>1
  <2>8. AcceptOld(h, <<Save(id, row)>>)
    BY <1>6, <2>1, <2>4, <2>5 DEF UpdateState
  <2> QED BY <2>2, <2>6, <2>7, <2>8, StateSaved
<1>7. ASSUME NEW country \in RowsIn("country") \cup {None}, NEW state \in RowsIn("state") \cup {None},
             CreateCity(h, country, state) \/ \E id \in RowsIn("city") : UpdateCity(h, id, country, state)
      PROVE  BaseInv' /\ CatalogStep(h)
  BY <1>7, CityRequestIs
<1>8. ASSUME NEW id \in RowsIn("country"), RemoveCountry(h, id)
      PROVE  BaseInv' /\ CatalogStep(h)
  BY <1>2, <1>8 DEF RemoveCountry
<1>9. ASSUME NEW id \in RowsIn("state"), RemoveState(h, id)
      PROVE  BaseInv' /\ CatalogStep(h)
  BY <1>2, <1>9 DEF RemoveState
<1>10. ASSUME NEW id \in RowsIn("city"), RemoveCity(h, id)
       PROVE  BaseInv' /\ CatalogStep(h)
  BY <1>2, <1>10 DEF RemoveCity
<1> QED BY <1>3, <1>4, <1>5, <1>6, <1>7, <1>8, <1>9, <1>10 DEF LocationRequest

LEMMA PageRows ==
  ASSUME RowsTyped
  PROVE  /\ \A place \in Places : Banner(place) \in RowOf("banner")
         /\ \A changed \in BOOLEAN : Settings(changed) \in RowOf("settings")
         /\ \A isRead \in BOOLEAN : ContactMessage(isRead) \in RowOf("message")
         /\ \A user \in IdsOf("user"), active \in BOOLEAN :
              Subscription(user, active) \in RowOf("subscription")
<1>1. /\ "banner" \in TableNames /\ "settings" \in TableNames /\ "message" \in TableNames
      /\ "subscription" \in TableNames /\ RefsOf["banner"] = {"category"} /\ RefsOf["settings"] = {}
      /\ RefsOf["message"] = {} /\ RefsOf["subscription"] = {"user"}
      /\ <<"banner", "category">> \notin NotNull /\ "category" \in TableNames
  BY DEF TableNames, RefsOf, NotNull
<1>2. FALSE \in BOOLEAN /\ None \in Nat \cup {None} /\ None \in Names \cup {None}
  OBVIOUS
<1>3. ASSUME NEW place \in Places
      PROVE  Banner(place) \in RowOf("banner")
  <2>1. /\ place.key \in Names \cup {None}
        /\ place.category \in IdsOf("category") \/ place.category = None
    BY ReferenceAssumption DEF Places, RowsIn
  <2>2. PICK key, category : key = place.key /\ category = place.category
    OBVIOUS
  <2>3. Plain(key, Ref("category", category)) \in RowOf("banner")
    BY <1>1, <2>1, <2>2, RowWithRef
  <2>4. Ref("category", category) = [category |-> category]
    BY DEF Ref
  <2> QED BY <2>2, <2>3, <2>4 DEF Banner
<1>4. \A t \in {"settings", "message"} : Plain(None, NoRefs) \in RowOf(t)
  BY <1>1, <1>2, RowWithoutRefs
<1>5. ASSUME NEW flag \in BOOLEAN, NEW t \in {"settings", "message"}
      PROVE  [Plain(None, NoRefs) EXCEPT !.flag = flag] \in RowOf(t)
  <2>1. PICK row : row = Plain(None, NoRefs)
    OBVIOUS
  <2> QED BY <1>1, <1>4, <2>1, FlaggedRow
<1>6. ASSUME NEW user \in IdsOf("user"), NEW active \in BOOLEAN
      PROVE  Subscription(user, active) \in RowOf("subscription")
  <2>1. Plain(None, Ref("user", user)) \in RowOf("subscription")
    BY <1>1, <1>2, RowWithRef
  <2>2. Ref("user", user) = [user |-> user]
    BY DEF Ref
  <2>3. PICK row : row = Plain(None, [user |-> user])
    OBVIOUS
  <2>4. row \in RowOf("subscription")
    BY <2>1, <2>2, <2>3
  <2>5. [row EXCEPT !.flag = active] \in RowOf("subscription")
    BY <1>1, <2>4, FlaggedRow
  <2> QED BY <2>3, <2>5 DEF Subscription
<1> QED BY <1>3, <1>5, <1>6 DEF Settings, ContactMessage

LEMMA SettingsRequestIs ==
  ASSUME BaseInv, NEW h \in Handlers, Free(h), NEW page \in SettingsPages,
         CreateSettings(h, page) \/ UpdateSettings(h, page) \/ RemoveSettings(h, page)
  PROVE  BaseInv' /\ CatalogStep(h)
<1>1. page \in IdsOf("settings") /\ "settings" \in TableNames /\ RowsTyped
  BY DEF SettingsPages, TableNames, RefsOf, BaseInv
<1>2. Settings(TRUE) \in RowOf("settings") /\ Settings(FALSE) \in RowOf("settings")
  BY <1>1, PageRows
<1>3. CASE CreateSettings(h, page)
  <2>1. PICK step : step = Insert(page, Settings(FALSE))
    OBVIOUS
  <2>2. step \in Steps /\ step.do = "insert" /\ ~Writes(step)
    BY <1>1, <1>2, <2>1, StepsAre DEF Insert, Writes
  <2>3. Queue(<<step>>) /\ <<step>> # <<>> /\ Decided(<<step>>)
    BY <2>2, OneStep DEF IsSave
  <2> QED BY <1>3, <2>1, <2>3, BeganOld DEF CreateSettings
<1>4. CASE UpdateSettings(h, page)
  <2>1. PICK step : step = Change(page, Settings(TRUE))
    OBVIOUS
  <2>2. step \in Steps /\ step.do = "change" /\ ~Writes(step)
    BY <1>1, <1>2, <2>1, StepsAre DEF Change, Writes
  <2>3. Queue(<<step>>) /\ <<step>> # <<>> /\ Decided(<<step>>)
    BY <2>2, OneStep DEF IsSave
  <2> QED BY <1>4, <2>1, <2>3, BeganOld DEF UpdateSettings, Updated
<1>5. CASE RemoveSettings(h, page)
  BY <1>1, <1>5, Removal DEF RemoveSettings
<1> QED BY <1>3, <1>4, <1>5

LEMMA SubscribeIs ==
  ASSUME BaseInv, NEW h \in Handlers, Free(h), NEW user \in RowsIn("user"), Subscribe(h, user)
  PROVE  BaseInv' /\ CatalogStep(h)
<1>1. PICK mine : mine = SubscriptionsOf(user)
  OBVIOUS
<1>2. PICK id : id = IF mine = {} THEN NewId("subscription") ELSE CHOOSE x \in mine : TRUE
  OBVIOUS
<1>3. PICK row : row = Subscription(user, TRUE)
  OBVIOUS
<1>4. /\ mine = {} => HasRoom("subscription")
      /\ Accept(h, <<Save(id, row)>>)
      /\ used' = IF mine = {} THEN WithUsed("subscription") ELSE used
      /\ moved' = moved /\ approvals' = approvals
  BY <1>1, <1>2, <1>3 DEF Subscribe
<1>5. /\ "subscription" \in TableNames /\ "subscription" \in Unguarded /\ RowsTyped /\ Counted
      /\ user \in IdsOf("user") /\ mine \subseteq IdsOf("subscription")
  BY <1>1 DEF TableNames, RefsOf, Unguarded, BaseInv, RowsIn, SubscriptionsOf
<1>6. row \in RowOf("subscription")
  BY <1>3, <1>5, PageRows
<1>7. id \in IdsOf("subscription") /\ Counted' /\ \A t \in TableNames : used[t] <= used'[t]
  <2>1. CASE mine = {}
    BY <1>2, <1>4, <1>5, <2>1, NewIds
  <2>2. CASE mine # {}
    BY <1>2, <1>4, <1>5, <2>2 DEF Counted
  <2> QED BY <2>1, <2>2
<1>8. Queue(<<Save(id, row)>>) /\ <<Save(id, row)>> # <<>> /\ Decided(<<Save(id, row)>>)
  BY <1>5, <1>6, <1>7, UnguardedSave
<1>9. moved \subseteq moved' /\ moved' \subseteq Ids /\ approvals \subseteq approvals'
  BY <1>4 DEF BaseInv
<1> QED BY <1>4, <1>7, <1>8, <1>9, Began

LEMMA PageRequestIs ==
  ASSUME BaseInv, NEW h \in Handlers, Free(h), PageRequest(h)
  PROVE  BaseInv' /\ CatalogStep(h)
<1>1. /\ \A t \in {"banner", "message", "user", "subscription"} :
           t \in TableNames \ {"stock", "shipping"} /\ RowsIn(t) \subseteq IdsOf(t)
      /\ "banner" \in Unguarded /\ "message" \in Unguarded /\ "subscription" \in Unguarded
      /\ RowsTyped
  BY DEF TableNames, RefsOf, Unguarded, BaseInv, RowsIn
<1>2. ASSUME NEW t \in {"banner", "message", "user"}, NEW id \in RowsIn(t), AcceptOld(h, <<Drop(id)>>)
      PROVE  BaseInv' /\ CatalogStep(h)
  BY <1>1, <1>2, Removed
<1>3. ASSUME NEW place \in Places, CreateBanner(h, place)
      PROVE  BaseInv' /\ CatalogStep(h)
  BY <1>1, <1>3, PageRows, NewRow DEF CreateBanner
<1>4. ASSUME NEW place \in Places, NEW id \in RowsIn("banner"), UpdateBanner(h, id, place)
      PROVE  BaseInv' /\ CatalogStep(h)
  BY <1>1, <1>4, PageRows, OldRow DEF UpdateBanner
<1>5. ASSUME NEW id \in RowsIn("banner"), RemoveBanner(h, id)
      PROVE  BaseInv' /\ CatalogStep(h)
  BY <1>2, <1>5 DEF RemoveBanner
<1>6. ASSUME NEW page \in SettingsPages,
             CreateSettings(h, page) \/ UpdateSettings(h, page) \/ RemoveSettings(h, page)
      PROVE  BaseInv' /\ CatalogStep(h)
  BY <1>6, SettingsRequestIs
<1>7. ASSUME CreateMessage(h)
      PROVE  BaseInv' /\ CatalogStep(h)
  BY <1>1, <1>7, PageRows, NewRow DEF CreateMessage
<1>8. ASSUME NEW id \in RowsIn("message"), RemoveMessage(h, id)
      PROVE  BaseInv' /\ CatalogStep(h)
  BY <1>2, <1>8 DEF RemoveMessage
<1>9. ASSUME NEW id \in RowsIn("message"), NEW isRead \in BOOLEAN, UpdateMessage(h, id, isRead)
      PROVE  BaseInv' /\ CatalogStep(h)
  BY <1>1, <1>9, PageRows, OldRow DEF UpdateMessage
<1>10. ASSUME NEW user \in RowsIn("user"), Subscribe(h, user)
       PROVE  BaseInv' /\ CatalogStep(h)
  BY <1>10, SubscribeIs
<1>11. ASSUME NEW user \in RowsIn("user"), Unsubscribe(h, user)
       PROVE  BaseInv' /\ CatalogStep(h)
  <2>1. PICK id \in SubscriptionsOf(user) : AcceptOld(h, <<Save(id, Subscription(user, FALSE))>>)
    BY <1>11 DEF Unsubscribe
  <2>2. id \in IdsOf("subscription") /\ user \in IdsOf("user")
    BY <1>1 DEF SubscriptionsOf
  <2>3. Subscription(user, FALSE) \in RowOf("subscription")
    BY <1>1, <2>2, PageRows
  <2> QED BY <1>1, <2>1, <2>2, <2>3, OldRow
<1>12. ASSUME NEW user \in RowsIn("user"), RemoveUser(h, user)
       PROVE  BaseInv' /\ CatalogStep(h)
  BY <1>2, <1>12 DEF RemoveUser
<1> QED BY <1>3, <1>4, <1>5, <1>6, <1>7, <1>8, <1>9, <1>10, <1>11, <1>12 DEF PageRequest

LEMMA EveryStep ==
  ASSUME BaseInv, OneParent, [CatalogNext]_tableVars
  PROVE  BaseInv' /\ (UNCHANGED tableVars \/ \E h \in Handlers : CatalogStep(h))
<1>1. CASE UNCHANGED tableVars
  <2>1. BaseInv'
    <3>1. RowsTyped' /\ Counted' /\ Queues'
      BY <1>1 DEF tableVars, BaseInv, RowsTyped, Counted, Queues
    <3>2. \A x \in Ids : At(x)' = At(x)
      BY <1>1 DEF tableVars, At
    <3>3. Schema'
      BY <3>2, SameSchema DEF BaseInv
    <3> QED BY <1>1, <3>1, <3>3 DEF tableVars, BaseInv
  <2> QED BY <1>1, <2>1
<1>2. ASSUME NEW h \in Handlers, Free(h),
             \/ CategoryRequest(h) \/ ProductRequest(h) \/ ReferenceRequest(h)
             \/ LocationRequest(h) \/ PageRequest(h)
      PROVE  BaseInv' /\ CatalogStep(h)
  BY <1>2, CategoryRequestIs, ProductRequestIs, ReferenceRequestIs, LocationRequestIs, PageRequestIs
<1>3. ASSUME NEW h \in Handlers, Continue(h)
      PROVE  BaseInv' /\ CatalogStep(h)
  BY <1>3, SelectIs, UpdateIs, InsertIs, SettingsIs, ChangeIs, DropIs, ClearIs, StockIs, AssignIs,
     CutOffIs DEF Continue
<1> QED BY <1>1, <1>2, <1>3 DEF CatalogNext

-----------------------------------------------------------------------------
(* What comes next, for the request that took a step and for the others.   *)
LEMMA AfterPass ==
  ASSUME BaseInv, NEW h \in Handlers, NEW written, Passes(h, written)
  PROVE  /\ \A g \in Handlers \ {h} :
              /\ calls'[g] = calls[g] /\ Step(g)' = Step(g)
              /\ Saving(g)' <=> Saving(g)
              /\ \A do : In(g, do)' <=> In(g, do)
         /\ calls'[h] = Tail(calls[h])
         /\ calls'[h] # <<>> =>
              \/ Step(h)'.do = "assign"
              \/ IsSave(Step(h), "product") /\ Step(h)' = UpsertStock(Step(h).id)
              \/ /\ Step(h).do = "clear" /\ IsSave(Step(h)', "link")
                 /\ Step(h)'.row.refs.product = Step(h).id /\ Step(h).but \in {None, Step(h)'.id}
<1>1. PICK q : q = calls[h]
  OBVIOUS
<1>2. /\ Queues /\ q # <<>> /\ Queue(q) /\ Step(h) = q[1]
      /\ calls' = [calls EXCEPT ![h] = Tail(q)] /\ Queue(Tail(q))
  BY <1>1, HeadOf, PassesOn DEF BaseInv, Passes
<1>3. /\ calls'[h] = Tail(q)
      /\ \A g \in Handlers \ {h} : /\ calls'[g] = calls[g] /\ Step(g)' = Step(g)
                                   /\ Saving(g)' <=> Saving(g)
                                   /\ \A do : In(g, do)' <=> In(g, do)
  BY <1>2, CallsAfter, OthersWait
<1>4. ASSUME calls'[h] # <<>>
      PROVE  Step(h)' = q[2] /\ Follows(q, 2)
  BY <1>2, <1>3, <1>4, QueueTail DEF Step
<1> QED BY <1>1, <1>2, <1>3, <1>4 DEF Follows

LEMMA AfterBegin ==
  ASSUME BaseInv, NEW h \in Handlers, Begins(h)
  PROVE  /\ \A g \in Handlers \ {h} :
              /\ calls'[g] = calls[g] /\ Step(g)' = Step(g)
              /\ Saving(g)' <=> Saving(g)
              /\ \A do : In(g, do)' <=> In(g, do)
         /\ Decided(calls'[h]) /\ Step(h)' = calls'[h][1] /\ Queue(calls'[h])
         /\ 1 \in DOMAIN calls'[h] /\ calls'[h] # <<>> /\ calls[h] = <<>> /\ Grown
         /\ requests' \in 0..MaxRequests
<1>1. PICK q : /\ calls[h] = <<>> /\ Queue(q) /\ q # <<>> /\ Decided(q)
               /\ calls' = [calls EXCEPT ![h] = q]
               /\ requests' \in 0..MaxRequests /\ Grown
  BY DEF Begins
<1>2. /\ calls'[h] = q
      /\ \A g \in Handlers \ {h} : /\ calls'[g] = calls[g] /\ Step(g)' = Step(g)
                                   /\ Saving(g)' <=> Saving(g)
                                   /\ \A do : In(g, do)' <=> In(g, do)
  BY <1>1, CallsAfter, OthersWait DEF BaseInv
<1>3. Step(h)' = q[1] /\ 1 \in DOMAIN q
  BY <1>1, <1>2, QueueHead DEF Step
<1> QED BY <1>1, <1>2, <1>3

LEMMA AfterFind ==
  ASSUME BaseInv, NEW h \in Handlers, Finds(h)
  PROVE  /\ \A g \in Handlers \ {h} :
              /\ calls'[g] = calls[g] /\ Step(g)' = Step(g)
              /\ Saving(g)' <=> Saving(g)
              /\ \A do : In(g, do)' <=> In(g, do)
         /\ calls'[h] # <<>> /\ calls[h] # <<>> /\ Grown
         /\ UNCHANGED <<requests, moved, approvals>>
         /\ Step(h)' \in Steps /\ Step(h)'.do = "save"
         /\ SaveDecided(Step(h)'.id, Step(h)'.row)
         /\ \/ /\ Step(h).do = "stock" /\ IsSave(Step(h)', "stock")
               /\ Step(h)'.row.refs.product = Step(h).id
            \/ Step(h).do = "assign" /\ IsSave(Step(h)', "link") /\ ~Step(h)'.row.flag
         /\ Queue(calls'[h]) /\ 1 \in DOMAIN calls'[h] /\ calls'[h][1] = Step(h)'
         /\ \A i \in DOMAIN calls'[h] :
              i # 1 => i \in DOMAIN calls[h] /\ calls'[h][i] = calls[h][i] /\ calls'[h][i].do = "assign"
<1>1. PICK step \in Steps :
        /\ calls[h] # <<>> /\ step.do = "save" /\ SaveDecided(step.id, step.row)
        /\ \/ Step(h).do = "stock" /\ IsSave(step, "stock") /\ step.row.refs.product = Step(h).id
           \/ Step(h).do = "assign" /\ IsSave(step, "link") /\ ~step.row.flag
        /\ calls' = [calls EXCEPT ![h] = <<step>> \o Tail(calls[h])]
        /\ Grown
        /\ UNCHANGED <<requests, moved, approvals>>
  BY DEF Finds
<1>2. PICK q : q = <<step>> \o Tail(calls[h])
  OBVIOUS
<1>3. Step(h) = calls[h][1] /\ Queue(calls[h]) /\ Queues /\ Writes(step)
  BY <1>1, HeadOf, StepTypes DEF BaseInv
<1>4. /\ Queue(q) /\ q # <<>> /\ Head(q) = step /\ 1 \in DOMAIN q /\ q[1] = step
      /\ \A i \in DOMAIN q : i # 1 => i \in DOMAIN calls[h] /\ q[i] = calls[h][i] /\ q[i].do = "assign"
  BY <1>1, <1>2, <1>3, QueueAgain
<1>5. /\ calls'[h] = q
      /\ \A g \in Handlers \ {h} : /\ calls'[g] = calls[g] /\ Step(g)' = Step(g)
                                   /\ Saving(g)' <=> Saving(g)
                                   /\ \A do : In(g, do)' <=> In(g, do)
  BY <1>1, <1>2, <1>3, <1>4, CallsAfter, OthersWait
<1>6. Step(h)' = step
  BY <1>4, <1>5 DEF Step
<1> QED BY <1>1, <1>4, <1>5, <1>6

LEMMA AfterSelect ==
  ASSUME BaseInv, NEW h \in Handlers, Selects(h)
  PROVE  /\ \A g \in Handlers \ {h} :
              /\ calls'[g] = calls[g] /\ Step(g)' = Step(g)
              /\ Saving(g)' <=> Saving(g)
              /\ \A do : In(g, do)' <=> In(g, do)
         /\ Saving(h) /\ Saving(h)' /\ calls'[h] # <<>>
         /\ Step(h)' \in Steps /\ Step(h)'.id = Step(h).id /\ Step(h)'.row = Step(h).row
         /\ Step(h)'.do = "update" => Has(Step(h).id)
         /\ Len(calls'[h]) = Len(calls[h]) /\ DOMAIN calls'[h] = DOMAIN calls[h]
         /\ calls'[h][1] = Step(h)' /\ calls[h][1] = Step(h) /\ calls[h] \in Seq(Steps)
         /\ \A i \in DOMAIN calls[h] : i # 1 => calls'[h][i] = calls[h][i]
         /\ UNCHANGED <<rows, used, requests, raced, cut, moved, approvals, merged>>
<1>1. PICK step \in Steps :
        /\ Saving(h) /\ Writes(step) /\ step.id = Step(h).id /\ step.row = Step(h).row
        /\ step.do = "update" => Has(step.id)
        /\ calls' = [calls EXCEPT ![h] = <<step>> \o Tail(calls[h])]
        /\ UNCHANGED <<rows, used, requests, raced, cut, moved, approvals, merged>>
  BY DEF Selects
<1>2. PICK q : q = calls[h]
  OBVIOUS
<1>3. Queues /\ q # <<>> /\ Queue(q) /\ Step(h) = q[1] /\ Writes(q[1]) /\ q \in Seq(Steps)
  BY <1>1, <1>2, HeadOf DEF BaseInv, Saving, Queue
<1>4. PICK p : p = <<step>> \o Tail(q)
  OBVIOUS
<1>5. /\ Queue(p) /\ p # <<>> /\ Head(p) = step /\ Len(p) = Len(q) /\ DOMAIN p = DOMAIN q
      /\ p[1] = step /\ \A i \in DOMAIN q : i # 1 => p[i] = q[i]
  BY <1>1, <1>3, <1>4, QueueSame
<1>6. /\ calls'[h] = p
      /\ \A g \in Handlers \ {h} : /\ calls'[g] = calls[g] /\ Step(g)' = Step(g)
                                   /\ Saving(g)' <=> Saving(g)
                                   /\ \A do : In(g, do)' <=> In(g, do)
  BY <1>1, <1>2, <1>3, <1>4, <1>5, CallsAfter, OthersWait
<1>7. Step(h)' = step
  BY <1>5, <1>6 DEF Step
<1>8. Saving(h)'
  BY <1>1, <1>5, <1>6, <1>7 DEF Saving
<1> QED BY <1>1, <1>2, <1>3, <1>5, <1>6, <1>7, <1>8

LEMMA AfterStop ==
  ASSUME BaseInv, NEW h \in Handlers, Stops(h)
  PROVE  /\ \A g \in Handlers \ {h} :
              /\ calls'[g] = calls[g] /\ Step(g)' = Step(g)
              /\ Saving(g)' <=> Saving(g)
              /\ \A do : In(g, do)' <=> In(g, do)
         /\ calls'[h] = <<>> /\ calls[h] # <<>>
BY CallsAfter, OthersWait, NoQueue DEF Stops, BaseInv

(* Rows and links that did not change.                                     *)
LEMMA RowsSame ==
  ASSUME rows' = rows
  PROVE  /\ \A x : At(x)' = At(x) /\ (Has(x)' <=> Has(x))
         /\ \A t : RowsIn(t)' = RowsIn(t)
         /\ \A product : LinksOf(product)' = LinksOf(product) /\ (Stocked(product)' <=> Stocked(product))
         /\ \A t, key : WithKey(t, key)' = WithKey(t, key)
         /\ \A method : Chosen(method)' = Chosen(method)
<1>1. \A x : At(x)' = At(x) /\ (Has(x)' <=> Has(x))
  BY DEF At, Has
<1>2. \A t : RowsIn(t)' = RowsIn(t)
  BY <1>1 DEF RowsIn
<1>3. \A product : LinksOf(product)' = LinksOf(product) /\ (Stocked(product)' <=> Stocked(product))
  BY <1>1, <1>2 DEF LinksOf, Stocked
<1>4. \A t, key : WithKey(t, key)' = WithKey(t, key)
  BY <1>1, <1>2 DEF WithKey
<1>5. \A method : Chosen(method)' = Chosen(method)
  BY <1>1, <1>2 DEF Chosen
<1> QED BY <1>1, <1>2, <1>3, <1>4, <1>5

(* Rows once one was saved.                                                *)
LEMMA RowsSaved ==
  ASSUME BaseInv, BaseInv', NEW h \in Handlers, SaveGoes(h)
  PROVE  \E t \in TableNames \ {"settings"} : \E id \in IdsOf(t) : \E row \in RowOf(t) :
           /\ Step(h) \in Steps /\ id = Step(h).id /\ id[1] = t
           /\ calls[h] # <<>> /\ Saving(h) /\ Writes(Step(h)) /\ Step(h).row \in RowOf(t)
           /\ row = Step(h).row \/ Has(id)
           /\ t = "product" => row = Step(h).row \/ <<id, row.key>> \in merged'
           /\ row.key = Step(h).row.key \/ (Has(id) /\ row.key = At(id).key)
           /\ row.flag = Step(h).row.flag \/ (Has(id) /\ row.flag = At(id).flag)
           /\ \A ref \in RefsOf[t] : \/ row.refs[ref] = Step(h).row.refs[ref]
                                     \/ Has(id) /\ row.refs[ref] = At(id).refs[ref]
           /\ Passes(h, InHand(Step(h)))
           /\ At(id)' = row /\ Has(id)' /\ id \in RowsIn(t)'
           /\ \A x \in Ids \ {id} : At(x)' = At(x) /\ (Has(x)' <=> Has(x))
           /\ \A u \in TableNames, x \in Ids \ {id} : x \in RowsIn(u)' <=> x \in RowsIn(u)
           /\ raced \subseteq raced'
           /\ \A x \in InHand(Step(h)), g \in Handlers \ {h} : x \in HeldBy(g) => x \in raced'
<1>1. PICK row : \E id \in Ids :
        /\ Saving(h) /\ id = Step(h).id /\ row \in RowOf(id[1])
        /\ row = Step(h).row \/ (Has(id) /\ Between(row, Step(h).row, At(id)))
        /\ id[1] = "product" => row = Step(h).row \/ <<id, row.key>> \in merged'
        /\ At(id)' = row /\ \A x \in Ids \ {id} : At(x)' = At(x)
        /\ Passes(h, InHand(Step(h)))
  BY DEF SaveGoes
<1>2. PICK id \in Ids :
        /\ Saving(h) /\ id = Step(h).id /\ row \in RowOf(id[1])
        /\ row = Step(h).row \/ (Has(id) /\ Between(row, Step(h).row, At(id)))
        /\ id[1] = "product" => row = Step(h).row \/ <<id, row.key>> \in merged'
        /\ At(id)' = row /\ \A x \in Ids \ {id} : At(x)' = At(x)
        /\ Passes(h, InHand(Step(h)))
  BY <1>1
<1>3. PICK t, entity : t = id[1] /\ entity = Step(h).row
  OBVIOUS
<1>4. /\ t \in TableNames \ {"settings"} /\ id \in IdsOf(t) /\ entity \in RowOf(t)
      /\ Step(h) \in Steps /\ Writes(Step(h)) /\ calls[h] # <<>>
  BY <1>2, <1>3, SavingTypes
<1>5. Has(id)' /\ id \in RowsIn(t)' /\ row # None
  BY <1>2, <1>3, <1>4, NoneIsNoRow, IdsHaveTables DEF Has, RowsIn
<1>6. \A x \in Ids \ {id} : Has(x)' <=> Has(x)
  BY <1>2 DEF Has
<1>7. \A u \in TableNames, x \in Ids \ {id} : x \in RowsIn(u)' <=> x \in RowsIn(u)
  BY <1>6 DEF RowsIn
<1>8. raced \subseteq raced' /\ \A x \in InHand(Step(h)), g \in Handlers \ {h} : x \in HeldBy(g) => x \in raced'
  BY <1>2, PassesOn
<1>9. DOMAIN entity.refs = RefsOf[t]
  BY <1>4, RowParts
<1>10. /\ row.key = entity.key \/ (Has(id) /\ row.key = At(id).key)
       /\ row.flag = entity.flag \/ (Has(id) /\ row.flag = At(id).flag)
       /\ \A ref \in RefsOf[t] : row.refs[ref] = entity.refs[ref] \/ (Has(id) /\ row.refs[ref] = At(id).refs[ref])
  BY <1>2, <1>3, <1>9 DEF Between
<1> QED BY <1>2, <1>3, <1>4, <1>5, <1>6, <1>7, <1>8, <1>10

(* Rows once some went, or lost something.                                 *)
LEMMA RowsLessened ==
  ASSUME BaseInv, BaseInv', NEW h \in Handlers, LessGoes(h)
  PROVE  /\ calls[h] # <<>> /\ Step(h).do \in {"insert", "change", "drop", "clear"}
         /\ ~Writes(Step(h))
         /\ raced \subseteq raced'
         /\ \A x \in Ids \ IdsOf("settings") : Lessened(x) /\ (Has(x)' => Has(x))
         /\ \A t \in TableNames \ {"settings"}, x \in Ids :
              x \in RowsIn(t)' => x \in RowsIn(t) /\ Lessened(x)
         /\ \A x \in Ids : Has(x) /\ At(x)' = None =>
              \A g \in Handlers \ {h} : x \in HeldBy(g) => x \in raced'
         /\ UNCHANGED <<used, requests, cut, moved, approvals>>
<1>1. PICK written :
        /\ Passes(h, written)
        /\ \A x \in Ids : At(x) # None /\ At(x)' = None => x \in written
  BY DEF LessGoes
<1>2. raced \subseteq raced' /\ \A x \in written, g \in Handlers \ {h} : x \in HeldBy(g) => x \in raced'
  BY <1>1, PassesOn
<1>3. \A x \in Ids \ IdsOf("settings") : Lessened(x) /\ (Has(x)' => Has(x))
  BY DEF LessGoes, Lessened, Has
<1>4. ASSUME NEW t \in TableNames \ {"settings"}, NEW x \in Ids, x \in RowsIn(t)'
      PROVE  x \in RowsIn(t) /\ Lessened(x)
  <2>1. x \in IdsOf(t) /\ Has(x)'
    BY <1>4 DEF RowsIn
  <2>2. x \notin IdsOf("settings")
    BY <2>1, IdParts DEF TableNames, RefsOf
  <2> QED BY <1>3, <2>1, <2>2 DEF RowsIn
<1>5. \A x \in Ids : Has(x) /\ At(x)' = None =>
        \A g \in Handlers \ {h} : x \in HeldBy(g) => x \in raced'
  BY <1>1, <1>2 DEF Has
<1>6. UNCHANGED <<used, requests, cut, moved, approvals>>
  BY <1>1 DEF Passes
<1>7. calls[h] # <<>> /\ Step(h).do \in {"insert", "change", "drop", "clear"} /\ ~Writes(Step(h))
  BY DEF LessGoes
<1> QED BY <1>2, <1>3, <1>4, <1>5, <1>6, <1>7

(* After any step: the others, what only grows, and what h saves next.     *)
LEMMA AfterStep ==
  ASSUME BaseInv, NEW h \in Handlers, CatalogStep(h)
  PROVE  /\ \A g \in Handlers \ {h} :
              /\ calls'[g] = calls[g] /\ Step(g)' = Step(g)
              /\ Saving(g)' <=> Saving(g)
              /\ \A do : In(g, do)' <=> In(g, do)
         /\ raced \subseteq raced' /\ cut \subseteq cut' /\ moved \subseteq moved'
         /\ approvals \subseteq approvals' /\ merged \subseteq merged'
         /\ \A t \in TableNames : used[t] <= used'[t]
         /\ \/ SaveGoes(h) \/ LessGoes(h)
            \/ (Begins(h) \/ Finds(h) \/ Selects(h) \/ Misses(h) \/ Stops(h)) /\ rows' = rows
<1>1. \A t \in TableNames : used[t] <= used[t]
  BY DEF BaseInv, Counted
<1>2. CASE Begins(h)
  BY <1>2, AfterBegin DEF Grown
<1>3. CASE Finds(h)
  BY <1>3, AfterFind DEF Grown
<1>4. CASE SaveGoes(h)
  <2>1. Passes(h, InHand(Step(h)))
    BY <1>4 DEF SaveGoes
  <2> QED BY <1>1, <1>4, <2>1, AfterPass, PassesOn DEF Passes
<1>5. CASE LessGoes(h)
  <2>1. PICK written : Passes(h, written)
    BY <1>5 DEF LessGoes
  <2> QED BY <1>1, <1>5, <2>1, AfterPass, PassesOn DEF Passes
<1>6. CASE Stops(h)
  BY <1>1, <1>6, AfterStop DEF Stops
<1>7. CASE Selects(h)
  BY <1>1, <1>7, AfterSelect
<1>8. CASE Misses(h)
  <2>1. Passes(h, InHand(Step(h))) /\ rows' = rows
    BY <1>8 DEF Misses
  <2> QED BY <1>1, <1>8, <2>1, AfterPass, PassesOn DEF Passes
<1> QED BY <1>2, <1>3, <1>4, <1>5, <1>6, <1>7, <1>8 DEF CatalogStep

LEMMA SavesNext ==
  ASSUME BaseInv, BaseInv', NEW h \in Handlers, CatalogStep(h), Saving(h)'
  PROVE  /\ Step(h)' \in Steps /\ calls'[h] # <<>> /\ Writes(Step(h)')
         /\ \/ /\ Begins(h) /\ FirstDecided(calls'[h]) /\ calls'[h][1] = Step(h)'
               /\ SaveDecided(Step(h)'.id, Step(h)'.row)
            \/ /\ Finds(h) /\ Step(h).do = "stock" /\ IsSave(Step(h)', "stock")
               /\ Step(h)'.row.refs.product = Step(h).id
               /\ SaveDecided(Step(h)'.id, Step(h)'.row)
            \/ /\ Finds(h) /\ Step(h).do = "assign" /\ IsSave(Step(h)', "link")
               /\ ~Step(h)'.row.flag /\ SaveDecided(Step(h)'.id, Step(h)'.row)
            \/ /\ Selects(h) /\ Saving(h)
               /\ Step(h)'.id = Step(h).id /\ Step(h)'.row = Step(h).row
            \/ /\ LessGoes(h) /\ Step(h).do = "clear" /\ IsSave(Step(h)', "link")
               /\ Step(h)'.row.refs.product = Step(h).id /\ Step(h).but \in {None, Step(h)'.id}
<1>0. calls'[h] # <<>> /\ Writes(Step(h)') /\ Step(h)' \in Steps
  <2>1. Queues' /\ calls'[h] # <<>> /\ Writes(Step(h)')
    BY DEF Saving, BaseInv
  <2>2. Queue(calls'[h])
    BY <2>1 DEF Queues
  <2> QED BY <2>1, <2>2, QueueHead DEF Step
<1>1. CASE Selects(h)
  BY <1>0, <1>1, AfterSelect
<1>2. CASE Begins(h)
  <2>1. Decided(calls'[h]) /\ Step(h)' = calls'[h][1] /\ 1 \in DOMAIN calls'[h]
    BY <1>2, AfterBegin
  <2> QED BY <1>0, <1>2, <2>1 DEF Decided
<1>3. CASE Finds(h)
  BY <1>0, <1>3, AfterFind
<1>4. ASSUME NEW written, Passes(h, written)
      PROVE  /\ Step(h).do = "clear" /\ IsSave(Step(h)', "link")
             /\ Step(h)'.row.refs.product = Step(h).id /\ Step(h).but \in {None, Step(h)'.id}
  BY <1>0, <1>4, AfterPass DEF UpsertStock, Writes
<1>5. ~SaveGoes(h) /\ ~Misses(h)
  BY <1>4 DEF SaveGoes, Misses, In, Saving, Writes
<1>6. CASE LessGoes(h)
  <2>1. PICK written : Passes(h, written)
    BY <1>6 DEF LessGoes
  <2> QED BY <1>0, <1>4, <1>6, <2>1
<1>7. CASE Stops(h)
  BY <1>0, <1>7, AfterStop
<1> QED BY <1>1, <1>2, <1>3, <1>5, <1>6, <1>7 DEF CatalogStep

-----------------------------------------------------------------------------
(* What is approved is what was read.                                      *)
LEMMA ApprovedKept ==
  ASSUME BaseInv, BaseInv', ApprovedInv, NEW h \in Handlers, CatalogStep(h)
  PROVE  ApprovedInv'
<1>0. /\ "product" \in TableNames \ {"settings"}
      /\ approvals \subseteq approvals' /\ merged \subseteq merged'
  BY AfterStep DEF TableNames, RefsOf
<1>1. ASSUME NEW id \in RowsIn("product")', At(id)'.flag
      PROVE  <<id, At(id)'.key>> \in approvals' \cup merged'
  <2>1. id \in IdsOf("product") /\ id \in Ids /\ id[1] = "product"
    BY <1>0, IdParts DEF RowsIn
  <2>2. CASE rows' = rows
    BY <1>0, <1>1, <2>2, RowsSame DEF ApprovedInv, ApprovedAsRead
  <2>3. CASE LessGoes(h)
    <3>1. id \in RowsIn("product") /\ Lessened(id)
      BY <1>0, <1>1, <2>1, <2>3, RowsLessened
    <3>2. At(id).flag /\ At(id)'.key = At(id).key
      BY <1>1, <3>1 DEF Lessened, RowsIn, Has
    <3> QED BY <1>0, <3>1, <3>2 DEF ApprovedInv, ApprovedAsRead
  <2>4. CASE SaveGoes(h)
    <3>1. PICK t \in TableNames \ {"settings"} : \E sid \in IdsOf(t) : \E row \in RowOf(t) :
            /\ sid = Step(h).id /\ sid[1] = t /\ Saving(h)
            /\ t = "product" => row = Step(h).row \/ <<sid, row.key>> \in merged'
            /\ At(sid)' = row
            /\ \A x \in Ids \ {sid} : At(x)' = At(x)
            /\ \A u \in TableNames, x \in Ids \ {sid} : x \in RowsIn(u)' <=> x \in RowsIn(u)
      BY <2>4, RowsSaved
    <3>2. CASE id = Step(h).id
      <4>1. Saving(h) /\ (At(id)' = Step(h).row \/ <<id, At(id)'.key>> \in merged')
        BY <2>1, <3>1, <3>2
      <4> QED BY <1>0, <1>1, <2>1, <3>2, <4>1 DEF ApprovedInv, ApprovedNext
    <3>3. CASE id # Step(h).id
      BY <1>0, <1>1, <2>1, <3>1, <3>3 DEF ApprovedInv, ApprovedAsRead
    <3> QED BY <3>2, <3>3
  <2> QED BY <2>2, <2>3, <2>4, AfterStep
<1>2. ASSUME NEW g \in Handlers, Saving(g)', Step(g)'.id[1] = "product", Step(g)'.row.flag
      PROVE  <<Step(g)'.id, Step(g)'.row.key>> \in approvals'
  <2>1. CASE g # h
    BY <1>0, <1>2, <2>1, AfterStep DEF ApprovedInv, ApprovedNext
  <2>2. CASE g = h
    BY <1>0, <1>2, <2>2, SavesNext DEF SaveDecided, IsSave, ApprovedInv, ApprovedNext
  <2> QED BY <2>1, <2>2
<1> QED BY <1>1, <1>2 DEF ApprovedInv, ApprovedAsRead, ApprovedNext

-----------------------------------------------------------------------------
(* A row that is there was there, with all that it names, or was just      *)
(* saved.                                                                  *)
LEMMA WasThere ==
  ASSUME BaseInv, BaseInv', NEW h \in Handlers, CatalogStep(h),
         NEW t \in TableNames \ {"settings"}, NEW x \in IdsOf(t), Has(x)'
  PROVE  /\ x \in Ids /\ x[1] = t /\ x \in RowsIn(t)'
         /\ \/ /\ Has(x) /\ x \in RowsIn(t) /\ At(x)'.key = At(x).key
               /\ At(x)'.flag => At(x).flag
               /\ \A ref \in RefsOf[t] :
                    \/ At(x)'.refs[ref] = At(x).refs[ref]
                    \/ At(x)'.refs[ref] = None /\ <<t, ref>> \in Nulling
            \/ /\ SaveGoes(h) /\ Saving(h) /\ Step(h).id = x
               /\ At(x)'.key = Step(h).row.key \/ (Has(x) /\ At(x)'.key = At(x).key)
               /\ At(x)'.flag = Step(h).row.flag \/ (Has(x) /\ At(x)'.flag = At(x).flag)
               /\ \A ref \in RefsOf[t] : \/ At(x)'.refs[ref] = Step(h).row.refs[ref]
                                         \/ Has(x) /\ At(x)'.refs[ref] = At(x).refs[ref]
<1>1. x \in Ids /\ x[1] = t /\ x \in RowsIn(t)' /\ (x \in RowsIn(t) <=> Has(x))
  BY IdParts DEF RowsIn
<1>2. CASE rows' = rows
  BY <1>1, <1>2, RowsSame
<1>3. CASE LessGoes(h)
  <2>1. x \in RowsIn(t) /\ Lessened(x)
    BY <1>1, <1>3, RowsLessened
  <2>2. At(x)' # None
    BY DEF Has
  <2> QED BY <1>1, <2>1, <2>2 DEF Lessened
<1>4. CASE SaveGoes(h)
  <2>1. PICK u \in TableNames \ {"settings"} : \E id \in IdsOf(u) : \E row \in RowOf(u) :
          /\ id = Step(h).id /\ id[1] = u /\ Saving(h) /\ At(id)' = row
          /\ row.key = Step(h).row.key \/ (Has(id) /\ row.key = At(id).key)
          /\ row.flag = Step(h).row.flag \/ (Has(id) /\ row.flag = At(id).flag)
          /\ \A ref \in RefsOf[u] : \/ row.refs[ref] = Step(h).row.refs[ref]
                                    \/ Has(id) /\ row.refs[ref] = At(id).refs[ref]
          /\ \A y \in Ids \ {id} : At(y)' = At(y) /\ (Has(y)' <=> Has(y))
    BY <1>4, RowsSaved
  <2>4. PICK id : id = Step(h).id
    OBVIOUS
  <2>2. CASE x = id
    BY <1>1, <1>4, <2>1, <2>2, <2>4
  <2>3. CASE x # id
    BY <1>1, <2>1, <2>3, <2>4
  <2> QED BY <2>2, <2>3
<1> QED BY <1>1, <1>2, <1>3, <1>4, AfterStep

(* What two requests have in hand when one of them saves it.               *)
LEMMA Races ==
  ASSUME BaseInv, BaseInv', NEW h \in Handlers, SaveGoes(h), NEW g \in Handlers \ {h}, calls[g] # <<>>
  PROVE  \A x \in InHand(Step(h)) \cap InHand(Step(g)) : x \in raced'
<1>1. InHand(Step(g)) \subseteq HeldBy(g)
  BY Holds DEF BaseInv
<1> QED BY <1>1, RowsSaved

-----------------------------------------------------------------------------
(* A shipping method that is about to go.                                  *)
LEMMA UnusedKept ==
  ASSUME BaseInv, BaseInv', UnusedNext, NEW h \in Handlers, CatalogStep(h)
  PROVE  UnusedNext'
<1>0. /\ "product" \in TableNames \ {"settings"} /\ "order" \in TableNames \ {"settings"}
      /\ "shipping" \in RefsOf["product"] /\ "shipping" \in RefsOf["order"]
      /\ raced \subseteq raced'
  BY AfterStep DEF TableNames, RefsOf
<1>1. ASSUME NEW m \in Ids, Chosen(m) = {}, Chosen(m)' # {}
      PROVE  SaveGoes(h) /\ m \in InHand(Step(h))
  <2>1. PICK x \in RowsIn("order")' \cup RowsIn("product")' : At(x)'.refs.shipping = m
    BY <1>1 DEF Chosen
  <2>2. PICK u \in {"order", "product"} : x \in RowsIn(u)'
    BY <2>1
  <2>3. /\ u \in TableNames \ {"settings"} /\ "shipping" \in RefsOf[u]
        /\ x \in IdsOf(u) /\ x \in Ids /\ x[1] = u /\ m # None
    BY <1>0, <2>2, IdParts, IdsHaveTables DEF RowsIn
  <2>4. x \in RowsIn(u) => At(x).refs.shipping # m
    BY <1>1, <2>2 DEF Chosen
  <2>5. Has(x) => x \in RowsIn(u)
    BY <2>3 DEF RowsIn
  <2>6. Has(x)' /\ At(x)'.refs["shipping"] = m
    BY <2>1, <2>2 DEF RowsIn
  <2>7. /\ SaveGoes(h) /\ Saving(h) /\ Step(h).id = x
        /\ \/ Step(h).row.refs["shipping"] = m
           \/ Has(x) /\ At(x).refs["shipping"] = m
    <3>1. \/ /\ Has(x)
             /\ \A ref \in RefsOf[u] :
                  \/ At(x)'.refs[ref] = At(x).refs[ref]
                  \/ At(x)'.refs[ref] = None /\ <<u, ref>> \in Nulling
          \/ /\ SaveGoes(h) /\ Saving(h) /\ Step(h).id = x
             /\ \A ref \in RefsOf[u] : \/ At(x)'.refs[ref] = Step(h).row.refs[ref]
                                       \/ Has(x) /\ At(x)'.refs[ref] = At(x).refs[ref]
      BY <2>3, <2>6, WasThere
    <3>2. ~(Has(x) /\ At(x).refs["shipping"] = m)
      BY <2>4, <2>5
    <3> QED BY <2>3, <2>6, <3>1, <3>2
  <2>8. Step(h).row.refs["shipping"] = m
    BY <2>4, <2>5, <2>7
  <2>9. Step(h) \in Steps /\ Writes(Step(h)) /\ "shipping" \in RefsOf[Step(h).id[1]]
    BY <2>3, <2>7, SavingTypes
  <2> QED BY <2>3, <2>7, <2>8, <2>9, SaveHolds
<1>2. ASSUME NEW g \in Handlers, NEW m \in IdsOf("shipping"), In(g, "drop")', Step(g)'.id = m
      PROVE  m \in raced' \/ Chosen(m)' = {}
  <2>0. m \in Ids /\ m[1] = "shipping"
    BY IdParts DEF TableNames, RefsOf
  <2>1. CASE g # h
    <3>2. In(g, "drop") /\ Step(g)' = Step(g) /\ calls[g] # <<>> /\ Step(g).do = "drop"
      BY <1>2, <2>1, AfterStep DEF In
    <3>3. Step(g) \in Steps /\ m \in HeldBy(g)
      BY <1>2, <3>2, HeadOf, SaveHolds, Holds DEF BaseInv
    <3>4. m \in raced \/ Chosen(m) = {}
      BY <1>2, <3>2 DEF UnusedNext
    <3>5. SaveGoes(h) /\ m \in InHand(Step(h)) => m \in raced'
      BY <2>1, <3>3, RowsSaved
    <3> QED BY <1>0, <1>1, <2>0, <3>4, <3>5
  <2>2. CASE g = h
    <3>1. calls'[h] # <<>> /\ Step(h)'.do = "drop"
      BY <1>2, <2>2 DEF In
    <3>2. \A written : ~Passes(h, written)
      BY <3>1, AfterPass DEF UpsertStock, IsSave, Writes
    <3>3. ~SaveGoes(h) /\ ~LessGoes(h) /\ ~Misses(h)
      BY <3>2 DEF SaveGoes, LessGoes, Misses
    <3>4. ~Finds(h) /\ ~Stops(h) /\ ~Selects(h)
      BY <3>1, AfterFind, AfterStop, AfterSelect DEF Saving, Writes
    <3>5. Begins(h)
      BY <3>3, <3>4 DEF CatalogStep
    <3>6. FirstDecided(calls'[h]) /\ Step(h)' = calls'[h][1] /\ rows' = rows
      BY <3>5, AfterBegin DEF Decided, Grown
    <3>7. Chosen(m) = {}
      BY <1>2, <2>0, <2>2, <3>1, <3>6 DEF FirstDecided
    <3> QED BY <3>6, <3>7, RowsSame
  <2> QED BY <2>1, <2>2
<1> QED BY <1>2 DEF UnusedNext

(* A shipping method that is chosen stays, and a parent with categories.   *)
LEMMA InUseKept ==
  ASSUME BaseInv, BaseInv', UnusedNext, NEW h \in Handlers, CatalogStep(h)
  PROVE  /\ \A id \in IdsOf("shipping") \ raced' : Has(id) /\ At(id)' = None => Chosen(id) = {}
         /\ \A id \in IdsOf("parent") : Has(id) /\ At(id)' = None => ChildCategories(id) = {}
<1>1. ASSUME NEW id \in Ids, id[1] \in {"shipping", "parent"}, Has(id), At(id)' = None
      PROVE  /\ In(h, "drop") /\ Step(h).id = id
             /\ id[1] = "parent" => \A y \in RowsIn("category") : At(y).refs.parent # id
  <2>1. At(id) # None
    BY <1>1 DEF Has
  <2>2. ~SaveGoes(h)
    <3>1. SUFFICES ASSUME SaveGoes(h) PROVE FALSE
      OBVIOUS
    <3>2. PICK saved : Has(saved)' /\ \A x \in Ids \ {saved} : At(x)' = At(x)
      BY <3>1, RowsSaved
    <3> QED BY <1>1, <2>1, <3>2 DEF Has
  <2>3. rows' # rows
    BY <1>1, <2>1, RowsSame
  <2>4. LessGoes(h)
    BY <2>2, <2>3, AfterStep
  <2> QED BY <1>1, <2>1, <2>4 DEF LessGoes, In
<1>2. ASSUME NEW id \in IdsOf("shipping") \ raced', Has(id), At(id)' = None
      PROVE  Chosen(id) = {}
  <2>1. id \in Ids /\ id[1] = "shipping"
    BY IdParts DEF TableNames, RefsOf
  <2> QED BY <1>1, <1>2, <2>1, AfterStep DEF UnusedNext
<1>3. ASSUME NEW id \in IdsOf("parent"), Has(id), At(id)' = None
      PROVE  ChildCategories(id) = {}
  <2>1. id \in Ids /\ id[1] = "parent"
    BY IdParts DEF TableNames, RefsOf
  <2> QED BY <1>1, <1>3, <2>1 DEF ChildCategories
<1> QED BY <1>2, <1>3

-----------------------------------------------------------------------------
(* Names that no index guards.                                             *)
LEMMA NamesKept ==
  ASSUME BaseInv, BaseInv', NamesInv, NEW h \in Handlers, CatalogStep(h)
  PROVE  NamesInv'
<1>0. raced \subseteq raced' /\ \A t \in {"attribute", "product"} : t \in TableNames \ {"settings"}
  BY AfterStep DEF TableNames, RefsOf
<1>1. ASSUME NEW t \in {"attribute", "product"}, NEW name \in Names, NEW x \in IdsOf(t), NEW y \in IdsOf(t),
             Saving(h), Step(h).id = x, Step(h).row.key = name, x # y, Has(y)', At(y)'.key = name
      PROVE  {<<t, name>>, x, y} \cap raced' # {}
  <2>1. Has(y) /\ At(y).key = name
    BY <1>0, <1>1, WasThere
  <2> QED BY <1>0, <1>1, <2>1 DEF NamesInv, NameNext
<1>2. ASSUME NEW t \in {"attribute", "product"}, NEW name \in Names,
             NEW x \in RowsIn(t)', NEW y \in RowsIn(t)',
             At(x)'.key = name, At(y)'.key = name, x # y
      PROVE  {<<t, name>>, x, y} \cap raced' # {}
  <2>1. x \in IdsOf(t) /\ y \in IdsOf(t) /\ Has(x)' /\ Has(y)'
    BY DEF RowsIn
  <2>2. \/ Has(x) /\ x \in RowsIn(t) /\ At(x).key = name
        \/ Saving(h) /\ Step(h).id = x /\ Step(h).row.key = name
    BY <1>0, <1>2, <2>1, WasThere DEF RowsIn
  <2>3. \/ Has(y) /\ y \in RowsIn(t) /\ At(y).key = name
        \/ Saving(h) /\ Step(h).id = y /\ Step(h).row.key = name
    BY <1>0, <1>2, <2>1, WasThere DEF RowsIn
  <2>4. CASE x \in RowsIn(t) /\ y \in RowsIn(t) /\ At(x).key = name /\ At(y).key = name
    BY <1>0, <1>2, <2>4 DEF NamesInv, NamesOnce
  <2> QED BY <1>1, <1>2, <2>1, <2>2, <2>3, <2>4
<1>3. ASSUME NEW g \in Handlers, NEW t \in {"attribute", "product"}, NEW name \in Names,
             NEW x \in IdsOf(t), NEW y \in IdsOf(t),
             Saving(g)', Step(g)'.id = x, Step(g)'.row.key = name,
             Has(y)', At(y)'.key = name, x # y
      PROVE  {<<t, name>>, x, y} \cap raced' # {}
  <2>1. t \in TableNames \ {"settings"} /\ x[1] = t /\ y[1] = t
    BY <1>0, <1>3, IdParts
  <2>2. CASE g = h
    <3>1. \/ Begins(h) /\ SaveDecided(Step(h)'.id, Step(h)'.row)
          \/ Selects(h) /\ Saving(h) /\ Step(h).id = x /\ Step(h).row.key = name
      BY <1>3, <2>1, <2>2, SavesNext DEF IsSave
    <3>2. rows' = rows /\ raced' = raced
      BY <3>1, AfterBegin, AfterSelect DEF Grown
    <3>3. Has(y) /\ At(y).key = name /\ y \in RowsIn(t)
      BY <1>3, <3>2, RowsSame DEF RowsIn
    <3>4. CASE SaveDecided(Step(h)'.id, Step(h)'.row)
      <4>1. WithKey(t, name) = {} \/ (Has(x) /\ At(x).key = name)
        BY <1>3, <2>1, <2>2, <3>4 DEF SaveDecided
      <4>2. x \in RowsIn(t) /\ At(x).key = name
        BY <3>3, <4>1 DEF WithKey, RowsIn
      <4> QED BY <1>3, <3>2, <3>3, <4>2 DEF NamesInv, NamesOnce
    <3>5. CASE Saving(h) /\ Step(h).id = x /\ Step(h).row.key = name
      BY <1>3, <3>2, <3>3, <3>5 DEF NamesInv, NameNext
    <3> QED BY <3>1, <3>4, <3>5
  <2>3. CASE g # h
    <3>1. Saving(g) /\ Step(g)' = Step(g) /\ calls[g] # <<>> /\ Writes(Step(g))
      BY <1>3, <2>3, AfterStep DEF Saving
    <3>2. CASE Has(y) /\ At(y).key = name
      BY <1>0, <1>3, <3>1, <3>2 DEF NamesInv, NameNext
    <3>3. CASE SaveGoes(h) /\ Saving(h) /\ Step(h).id = y /\ Step(h).row.key = name
      <4>1. calls[h] # <<>> /\ Step(h) \in Steps /\ Step(g) \in Steps /\ Writes(Step(h))
        BY <3>1, <3>3, HeadOf DEF Saving, BaseInv
      <4>2. name # None
        BY TablesAssumption
      <4>3. <<t, name>> \in InHand(Step(h)) /\ <<t, name>> \in InHand(Step(g))
        BY <1>3, <2>1, <3>1, <3>3, <4>1, <4>2, SaveHolds
      <4> QED BY <2>3, <3>1, <3>3, <4>3, Races
    <3> QED BY <1>3, <2>1, <3>2, <3>3, WasThere
  <2> QED BY <2>2, <2>3
<1> QED BY <1>2, <1>3 DEF NamesInv, NamesOnce, NameNext

-----------------------------------------------------------------------------
(* The primary link of a product.                                          *)
LEMMA PrimaryKept ==
  ASSUME BaseInv, BaseInv', PrimaryInv, OneParent, NEW h \in Handlers, CatalogStep(h)
  PROVE  PrimaryInv'
<1>0. /\ raced \subseteq raced' /\ "link" \in TableNames \ {"settings"}
      /\ "product" \in RefsOf["link"] /\ <<"link", "product">> \notin Nulling
  BY AfterStep DEF TableNames, RefsOf, Nulling
<1>1. ASSUME NEW x \in IdsOf("link"), Has(x)', At(x)'.flag, NEW product, At(x)'.refs.product = product
      PROVE  \/ Has(x) /\ x \in RowsIn("link") /\ At(x).flag /\ At(x).refs.product = product
             \/ /\ SaveGoes(h) /\ Saving(h) /\ Step(h).id = x
                /\ Step(h).row.flag /\ Step(h).row.refs.product = product
  <2>1. At(x)'.refs["product"] = product /\ (Has(x) => x \in RowsIn("link"))
    BY <1>1 DEF RowsIn
  <2>2. CASE /\ Has(x)
             /\ At(x)'.flag => At(x).flag
             /\ \A ref \in RefsOf["link"] :
                  \/ At(x)'.refs[ref] = At(x).refs[ref]
                  \/ At(x)'.refs[ref] = None /\ <<"link", ref>> \in Nulling
    BY <1>0, <1>1, <2>1, <2>2
  <2>3. CASE /\ SaveGoes(h) /\ Saving(h) /\ Step(h).id = x
             /\ At(x)'.flag = Step(h).row.flag \/ (Has(x) /\ At(x)'.flag = At(x).flag)
             /\ \A ref \in RefsOf["link"] : \/ At(x)'.refs[ref] = Step(h).row.refs[ref]
                                            \/ Has(x) /\ At(x)'.refs[ref] = At(x).refs[ref]
    <3>1. \/ Step(h).row.refs["product"] = product
          \/ Has(x) /\ At(x).refs["product"] = product
      BY <1>0, <2>1, <2>3
    <3>2. ASSUME Has(x)
          PROVE  Step(h).row.refs["product"] = At(x).refs["product"]
      <4>1. Step(h).row \in Borne(x) /\ At(x) \in Borne(x)
        BY <2>3, <3>2, Bears DEF BaseInv, Borne
      <4> QED BY <4>1 DEF OneParent, Fixed, FixedRef
    <3> QED BY <1>1, <2>1, <2>3, <3>1, <3>2
  <2>4. \/ /\ Has(x)
           /\ At(x)'.flag => At(x).flag
           /\ \A ref \in RefsOf["link"] :
                \/ At(x)'.refs[ref] = At(x).refs[ref]
                \/ At(x)'.refs[ref] = None /\ <<"link", ref>> \in Nulling
        \/ /\ SaveGoes(h) /\ Saving(h) /\ Step(h).id = x
           /\ At(x)'.flag = Step(h).row.flag \/ (Has(x) /\ At(x)'.flag = At(x).flag)
           /\ \A ref \in RefsOf["link"] : \/ At(x)'.refs[ref] = Step(h).row.refs[ref]
                                          \/ Has(x) /\ At(x)'.refs[ref] = At(x).refs[ref]
    <3>1. x \in IdsOf("link") /\ Has(x)' /\ "link" \in TableNames \ {"settings"}
      BY <1>0, <1>1
    <3> QED BY <3>1, WasThere
  <2> QED BY <2>2, <2>3, <2>4
<1>2. ASSUME NEW x \in IdsOf("link"), NEW y \in IdsOf("link"), NEW product \in IdsOf("product"),
             Saving(h), Step(h).id = x, Step(h).row.flag, Step(h).row.refs.product = product,
             x # y, Has(y)', At(y)'.flag, At(y)'.refs.product = product
      PROVE  product \in raced'
  <2>1. Has(y) /\ At(y).flag /\ At(y).refs.product = product
    BY <1>1, <1>2
  <2> QED BY <1>0, <1>2, <2>1 DEF PrimaryInv, PrimaryNext
<1>3. ASSUME NEW x \in RowsIn("link")', NEW y \in RowsIn("link")', NEW product \in IdsOf("product"),
             x # y, At(x)'.flag, At(y)'.flag,
             At(x)'.refs.product = product, At(y)'.refs.product = product
      PROVE  product \in raced'
  <2>1. x \in IdsOf("link") /\ y \in IdsOf("link") /\ Has(x)' /\ Has(y)'
    BY DEF RowsIn
  <2>2. \/ x \in RowsIn("link") /\ At(x).flag /\ At(x).refs.product = product
        \/ /\ Saving(h) /\ Step(h).id = x
           /\ Step(h).row.flag /\ Step(h).row.refs.product = product
    BY <1>1, <1>3, <2>1
  <2>3. \/ y \in RowsIn("link") /\ At(y).flag /\ At(y).refs.product = product
        \/ /\ Saving(h) /\ Step(h).id = y
           /\ Step(h).row.flag /\ Step(h).row.refs.product = product
    BY <1>1, <1>3, <2>1
  <2>4. CASE /\ x \in RowsIn("link") /\ At(x).flag /\ At(x).refs.product = product
             /\ y \in RowsIn("link") /\ At(y).flag /\ At(y).refs.product = product
    BY <1>0, <1>3, <2>4 DEF PrimaryInv, PrimaryOnce
  <2> QED BY <1>2, <1>3, <2>1, <2>2, <2>3, <2>4
<1>4. ASSUME NEW g \in Handlers, NEW x \in IdsOf("link"), NEW y \in IdsOf("link"),
             NEW product \in IdsOf("product"),
             Saving(g)', Step(g)'.id = x, Step(g)'.row.flag, Step(g)'.row.refs.product = product,
             Has(y)', At(y)'.flag, At(y)'.refs.product = product, x # y
      PROVE  product \in raced'
  <2>1. x[1] = "link" /\ y[1] = "link" /\ y # None /\ product # None /\ y \in Ids
    BY <1>0, IdParts DEF TableNames, RefsOf
  <2>2. CASE g = h
    <3>1. CASE Begins(h) /\ FirstDecided(calls'[h]) /\ calls'[h][1] = Step(h)'
      <4>1. rows' = rows /\ raced' = raced
        BY <3>1, AfterBegin DEF Grown
      <4>2. Writes(Step(h)')
        BY <1>4, <2>2 DEF Saving
      <4>3. Has(x) /\ At(x).flag /\ At(x).refs.product = product
        BY <1>4, <2>1, <2>2, <3>1, <4>2 DEF FirstDecided, IsSave
      <4>4. Has(y) /\ At(y).flag /\ At(y).refs.product = product
        BY <1>4, <4>1, RowsSame
      <4> QED BY <1>4, <4>1, <4>3, <4>4 DEF PrimaryInv, PrimaryOnce, RowsIn
    <3>2. CASE /\ LessGoes(h) /\ Step(h).do = "clear"
               /\ Step(h)'.row.refs.product = Step(h).id /\ Step(h).but \in {None, Step(h)'.id}
      <4>1. y \in RowsIn("link") /\ At(y).refs.product = product
        BY <1>1, <1>4, <3>2 DEF Saving, Writes
      <4>2. Step(h).id = product /\ y # Step(h).but
        BY <1>4, <2>1, <2>2, <3>2
      <4> QED BY <1>4, <3>2, <4>1, <4>2 DEF LessGoes
    <3>3. CASE Selects(h) /\ Saving(h) /\ Step(h)'.id = Step(h).id /\ Step(h)'.row = Step(h).row
      <4>1. rows' = rows /\ raced' = raced
        BY <3>3, AfterSelect
      <4>2. Has(y) /\ At(y).flag /\ At(y).refs.product = product
        BY <1>4, <4>1, RowsSame
      <4> QED BY <1>4, <2>2, <3>3, <4>1, <4>2 DEF PrimaryInv, PrimaryNext
    <3> QED BY <1>4, <2>1, <2>2, <3>1, <3>2, <3>3, SavesNext DEF IsSave
  <2>3. CASE g # h
    <3>1. Saving(g) /\ Step(g)' = Step(g) /\ calls[g] # <<>> /\ Writes(Step(g))
      BY <1>4, <2>3, AfterStep DEF Saving
    <3>2. CASE Has(y) /\ At(y).flag /\ At(y).refs.product = product
      BY <1>0, <1>4, <3>1, <3>2 DEF PrimaryInv, PrimaryNext
    <3>3. CASE /\ SaveGoes(h) /\ Saving(h) /\ Step(h).id = y
               /\ Step(h).row.flag /\ Step(h).row.refs.product = product
      <4>1. calls[h] # <<>> /\ Step(h) \in Steps /\ Step(g) \in Steps /\ Writes(Step(h))
        BY <3>1, <3>3, HeadOf DEF Saving, BaseInv
      <4>2. /\ Step(h).row.refs["product"] = product /\ Step(g).row.refs["product"] = product
            /\ Step(g).id[1] = "link" /\ Step(h).id[1] = "link"
        BY <1>4, <2>1, <3>1, <3>3
      <4>3. product \in InHand(Step(h))
        BY <1>0, <2>1, <3>3, <4>1, <4>2, SaveHolds
      <4>4. product \in InHand(Step(g))
        BY <1>0, <2>1, <3>1, <4>1, <4>2, SaveHolds
      <4> QED BY <2>3, <3>1, <3>3, <4>3, <4>4, Races
    <3> QED BY <1>1, <1>4, <3>2, <3>3
  <2> QED BY <2>2, <2>3
<1> QED BY <1>3, <1>4 DEF PrimaryInv, PrimaryOnce, PrimaryNext

-----------------------------------------------------------------------------
(* The stock row of a product.                                             *)
LEMMA LongQueue ==
  ASSUME NEW q, Queue(q), Len(q) > 1
  PROVE  Tail(q) # <<>>
<1>1. q \in Seq(Steps)
  BY DEF Queue
<1>2. PICK n : n = Len(q) /\ n \in Nat /\ n > 1
  BY <1>1
<1>3. DOMAIN Tail(q) = 1..n - 1
  BY <1>1, <1>2
<1>4. 1 \in DOMAIN Tail(q)
  BY <1>2, <1>3
<1>5. DOMAIN <<>> = {}
  OBVIOUS
<1> QED BY <1>4, <1>5, Zenon

LEMMA StockStays ==
  ASSUME BaseInv, BaseInv', OneParent, NEW h \in Handlers, CatalogStep(h),
         NEW product \in IdsOf("product"), Has(product)', Stocked(product)
  PROVE  Stocked(product)'
<1>0. /\ "stock" \in TableNames \ {"settings"} /\ "product" \in TableNames
      /\ "product" \in RefsOf["stock"] /\ <<"stock", "product">> \notin Nulling
      /\ product \in Ids /\ product # None
  BY IdParts DEF TableNames, RefsOf, Nulling
<1>1. PICK id \in RowsIn("stock") : At(id).refs.product = product
  BY DEF Stocked
<1>2. id \in IdsOf("stock") /\ id \in Ids /\ id[1] = "stock" /\ Has(id) /\ At(id) # None
  BY <1>0, RowsInTable DEF BaseInv, Has
<1>3. At(id)' # None
  <2>1. SUFFICES ASSUME At(id)' = None PROVE FALSE
    OBVIOUS
  <2>2. ~SaveGoes(h)
    <3>1. SUFFICES ASSUME SaveGoes(h) PROVE FALSE
      OBVIOUS
    <3>2. PICK saved : Has(saved)' /\ \A x \in Ids \ {saved} : At(x)' = At(x)
      BY <3>1, RowsSaved
    <3> QED BY <1>2, <2>1, <3>2 DEF Has
  <2>3. rows' # rows
    BY <1>2, <2>1, RowsSame
  <2>4. LessGoes(h)
    BY <2>2, <2>3, AfterStep
  <2>5. At(product)' = None
    BY <1>0, <1>1, <1>2, <2>1, <2>4 DEF LessGoes
  <2> QED BY <2>5 DEF Has
<1>4. Has(id)' /\ id \in RowsIn("stock")'
  BY <1>2, <1>3, IdsHaveTables DEF Has, RowsIn
<1>5. CASE /\ Saving(h) /\ Step(h).id = id
           /\ \A ref \in RefsOf["stock"] : \/ At(id)'.refs[ref] = Step(h).row.refs[ref]
                                           \/ Has(id) /\ At(id)'.refs[ref] = At(id).refs[ref]
  <2>1. Step(h).row \in Borne(id) /\ At(id) \in Borne(id)
    BY <1>2, <1>5, Bears DEF BaseInv, Borne
  <2>2. Step(h).row.refs["product"] = At(id).refs["product"]
    BY <1>2, <2>1 DEF OneParent, Fixed, FixedRef
  <2>3. At(id)'.refs["product"] = At(id).refs["product"]
    BY <1>0, <1>5, <2>2
  <2> QED BY <1>1, <1>4, <2>3 DEF Stocked
<1>6. CASE \A ref \in RefsOf["stock"] :
             \/ At(id)'.refs[ref] = At(id).refs[ref]
             \/ At(id)'.refs[ref] = None /\ <<"stock", ref>> \in Nulling
  <2>1. At(id)'.refs["product"] = At(id).refs["product"]
    BY <1>0, <1>6
  <2> QED BY <1>1, <1>4, <2>1 DEF Stocked
<1> QED BY <1>0, <1>2, <1>4, <1>5, <1>6, WasThere

LEMMA StockKept ==
  ASSUME BaseInv, BaseInv', StockInv, OneParent, NEW h \in Handlers, CatalogStep(h)
  PROVE  StockInv'
<1>0. /\ raced \subseteq raced' /\ cut \subseteq cut' /\ "product" \in TableNames \ {"settings"}
      /\ "stock" \in TableNames /\ "product" \in RefsOf["stock"]
  BY AfterStep DEF TableNames, RefsOf
<1>1. ASSUME NEW product \in IdsOf("product"), WritesStock(h, product), Has(product)
      PROVE  product \in cut' \/ product \in raced' \/ Stocked(product)' \/ WritesStock(h, product)'
  <2>1. /\ calls[h] # <<>> /\ product \in RowsIn("product")
        /\ \/ Step(h).do = "stock" /\ Step(h).id = product
           \/ IsSave(Step(h), "stock") /\ Step(h).row.refs.product = product /\ Saving(h)
    BY <1>1 DEF WritesStock, UpsertStock, IsSave, RowsIn, Saving
  <2>2. CASE Stops(h)
    BY <1>1, <2>1, <2>2, RowsSame DEF Stops
  <2>3. CASE Finds(h)
    <3>0. Step(h).do # "assign"
      BY <2>1 DEF IsSave, Writes
    <3>1. /\ calls'[h] # <<>> /\ Step(h).do = "stock" /\ IsSave(Step(h)', "stock")
          /\ Step(h)'.row.refs.product = Step(h).id
      BY <2>3, <3>0, AfterFind
    <3>2. Step(h).id = product
      BY <2>1, <3>1 DEF IsSave, Writes
    <3> QED BY <3>1, <3>2 DEF WritesStock
  <2>4. CASE SaveGoes(h)
    <3>1. IsSave(Step(h), "stock") /\ Step(h).row.refs.product = product /\ Saving(h)
      BY <2>1, <2>4 DEF SaveGoes, Saving, Writes
    <3>2. PICK id : id = Step(h).id
      OBVIOUS
    <3>3. id \in IdsOf("stock") /\ id \in Ids /\ id[1] = "stock"
      BY <3>1, <3>2, SavingTypes DEF IsSave
    <3>4. /\ id \in RowsIn("stock")'
          /\ \/ At(id)'.refs["product"] = Step(h).row.refs["product"]
             \/ Has(id) /\ At(id)'.refs["product"] = At(id).refs["product"]
      <4>0. \E u \in TableNames \ {"settings"} : \E saved \in IdsOf(u) : \E row \in RowOf(u) :
              saved = Step(h).id /\ Has(saved)'
        BY <2>4, RowsSaved
      <4>1. PICK saved : saved = Step(h).id /\ Has(saved)'
        BY <4>0
      <4>2. Has(id)'
        BY <3>2, <4>1 DEF Has, At
      <4>3. "stock" \in TableNames \ {"settings"} /\ <<"stock", "product">> \notin Nulling
        BY DEF TableNames, RefsOf, Nulling
      <4>4. /\ id \in RowsIn("stock")'
            /\ \/ Has(id) /\ \A ref \in RefsOf["stock"] :
                               \/ At(id)'.refs[ref] = At(id).refs[ref]
                               \/ At(id)'.refs[ref] = None /\ <<"stock", ref>> \in Nulling
               \/ \A ref \in RefsOf["stock"] : \/ At(id)'.refs[ref] = Step(h).row.refs[ref]
                                               \/ Has(id) /\ At(id)'.refs[ref] = At(id).refs[ref]
        BY <3>3, <4>2, <4>3, WasThere
      <4> QED BY <1>0, <4>3, <4>4
    <3>5. Has(id) => At(id).refs["product"] = Step(h).row.refs["product"]
      <4>1. SUFFICES ASSUME Has(id) PROVE At(id).refs["product"] = Step(h).row.refs["product"]
        OBVIOUS
      <4>2. Step(h).row \in Borne(id) /\ At(id) \in Borne(id)
        BY <3>1, <3>2, <4>1, Bears DEF BaseInv, Borne
      <4> QED BY <3>3, <4>2 DEF OneParent, Fixed, FixedRef
    <3>6. id \in RowsIn("stock")' /\ At(id)'.refs["product"] = product
      BY <1>0, <3>1, <3>4, <3>5
    <3> QED BY <3>6 DEF Stocked
  <2>5. ~LessGoes(h) /\ ~Begins(h)
    BY <2>1 DEF LessGoes, Begins, IsSave
  <2>6. CASE Selects(h)
    <3>1. /\ Saving(h) /\ Saving(h)' /\ calls'[h] # <<>>
          /\ Step(h)'.id = Step(h).id /\ Step(h)'.row = Step(h).row
      BY <2>6, AfterSelect
    <3>2. IsSave(Step(h)', "stock") /\ Step(h)'.row.refs.product = product
      BY <2>1, <3>1 DEF IsSave, Saving, Writes
    <3> QED BY <3>1, <3>2 DEF WritesStock
  <2>7. CASE Misses(h)
    <3>1. In(h, "update") /\ ~Has(Step(h).id) /\ Step(h).do = "update"
      BY <2>7 DEF Misses, In
    <3>2. Step(h).id \in IdsOf("stock") /\ Step(h).row.refs.product = product
      BY <2>1, <3>1, SavingTypes DEF IsSave
    <3> QED BY <1>0, <3>1, <3>2 DEF StockInv, StockFound
  <2> QED BY <2>2, <2>3, <2>4, <2>5, <2>6, <2>7 DEF CatalogStep
<1>2. ASSUME NEW product \in IdsOf("product"), SaveGoes(h), Step(h).id = product,
             Len(calls[h]) > 1, calls[h][2] = UpsertStock(product)
      PROVE  WritesStock(h, product)'
  <2>1. PICK q : q = calls[h]
    OBVIOUS
  <2>2. q # <<>> /\ Queue(q) /\ q \in Seq(Steps) /\ calls'[h] = Tail(q)
    <3>1. Passes(h, InHand(Step(h))) /\ calls[h] # <<>> /\ Queues
      BY <1>2 DEF SaveGoes, Passes, BaseInv
    <3>2. calls'[h] = Tail(calls[h])
      BY <3>1, AfterPass
    <3>3. Queue(calls[h]) /\ calls[h] \in Seq(Steps)
      BY <3>1, HeadOf DEF Queue
    <3> QED BY <2>1, <3>1, <3>2, <3>3
  <2>3. Tail(q) # <<>> /\ Head(Tail(q)) = q[2]
    <3>1. Len(q) > 1
      BY <1>2, <2>1
    <3> QED BY <2>2, <3>1, LongQueue, QueueTail
  <2>4. calls'[h] # <<>> /\ Step(h)' = UpsertStock(product)
    BY <1>2, <2>1, <2>2, <2>3 DEF Step
  <2> QED BY <2>4 DEF WritesStock
<1>3. ASSUME NEW product \in RowsIn("product")', product \notin cut', product \notin raced'
      PROVE  Stocked(product)' \/ \E g \in Handlers : WritesStock(g, product)'
  <2>1. product \in IdsOf("product") /\ Has(product)' /\ product \notin cut /\ product \notin raced
    BY <1>0, <1>3 DEF RowsIn
  <2>2. CASE Has(product)
    <3>1. product \in RowsIn("product")
      BY <2>1, <2>2 DEF RowsIn
    <3>2. CASE Stocked(product)
      BY <2>1, <3>2, StockStays
    <3>3. ASSUME NEW g \in Handlers, WritesStock(g, product)
          PROVE  product \in cut' \/ product \in raced' \/ Stocked(product)' \/ WritesStock(g, product)'
      <4>1. CASE g = h
        BY <1>1, <2>1, <2>2, <3>3, <4>1
      <4>2. CASE g # h
        BY <3>3, <4>2, AfterStep DEF WritesStock
      <4> QED BY <4>1, <4>2
    <3> QED BY <1>3, <2>1, <3>1, <3>2, <3>3 DEF StockInv, StockOnce
  <2>3. CASE ~Has(product)
    <3>1. SaveGoes(h) /\ Saving(h) /\ Step(h).id = product
      BY <1>0, <2>1, <2>3, WasThere
    <3>2. Len(calls[h]) > 1 /\ calls[h][2] = UpsertStock(product)
      BY <2>1, <2>3, <3>1 DEF StockInv, StockNext
    <3> QED BY <1>2, <2>1, <3>1, <3>2
  <2> QED BY <2>2, <2>3
<1>4. ASSUME NEW g \in Handlers, NEW product \in IdsOf("product"),
             Saving(g)', Step(g)'.id = product
      PROVE  \/ product \in raced' \/ Has(product)'
             \/ Len(calls'[g]) > 1 /\ calls'[g][2] = UpsertStock(product)
  <2>0. product \in Ids /\ product[1] = "product"
    BY <1>0, IdParts
  <2>1. CASE g = h
    <3>1. CASE Begins(h) /\ FirstDecided(calls'[h]) /\ calls'[h][1] = Step(h)'
      <4>1. Writes(Step(h)') /\ rows' = rows
        BY <1>4, <2>1, <3>1, AfterBegin DEF Saving, Grown
      <4>2. Has(product) \/ (Len(calls'[h]) > 1 /\ calls'[h][2] = UpsertStock(product))
        BY <1>4, <2>0, <2>1, <3>1, <4>1 DEF FirstDecided, IsSave
      <4> QED BY <2>1, <4>1, <4>2, RowsSame
    <3>2. CASE Selects(h) /\ Saving(h) /\ Step(h)'.id = Step(h).id
      <4>1. /\ Len(calls'[h]) = Len(calls[h]) /\ calls[h] \in Seq(Steps)
            /\ \A i \in DOMAIN calls[h] : i # 1 => calls'[h][i] = calls[h][i]
            /\ rows' = rows /\ raced' = raced
        BY <3>2, AfterSelect
      <4>2. \/ product \in raced \/ Has(product)
            \/ Len(calls[h]) > 1 /\ calls[h][2] = UpsertStock(product)
        BY <1>4, <2>1, <3>2 DEF StockInv, StockNext
      <4>3. Len(calls[h]) > 1 => 2 \in DOMAIN calls[h]
        <5>1. DOMAIN calls[h] = 1..Len(calls[h]) /\ Len(calls[h]) \in Nat
          BY <4>1
        <5> QED BY <5>1
      <4> QED BY <2>1, <4>1, <4>2, <4>3, RowsSame
    <3> QED BY <1>4, <2>0, <2>1, <3>1, <3>2, SavesNext DEF IsSave
  <2>2. CASE g # h
    <3>1. /\ Saving(g) /\ Step(g)' = Step(g) /\ calls[g] # <<>>
          /\ calls'[g] = calls[g] /\ Step(g).id = product
      BY <1>4, <2>2, AfterStep DEF Saving
    <3>2. \/ product \in raced \/ Has(product)
          \/ Len(calls[g]) > 1 /\ calls[g][2] = UpsertStock(product)
      BY <3>1 DEF StockInv, StockNext
    <3>3. ASSUME Has(product), ~Has(product)'
          PROVE  product \in raced'
      <4>1. product \in HeldBy(g)
        BY <3>1, HeadOf, SaveHolds, Holds DEF BaseInv
      <4>2. ~SaveGoes(h) /\ rows' # rows
        <5>1. SaveGoes(h) => FALSE
          <6>1. SUFFICES ASSUME SaveGoes(h) PROVE FALSE
            OBVIOUS
          <6>2. PICK saved : Has(saved)' /\ \A x \in Ids \ {saved} : Has(x)' <=> Has(x)
            BY <6>1, RowsSaved
          <6> QED BY <2>0, <3>3, <6>2
        <5> QED BY <3>3, <5>1, RowsSame
      <4>3. LessGoes(h)
        BY <4>2, AfterStep
      <4>4. At(product)' = None
        BY <2>0, <3>3, IdsHaveTables DEF Has
      <4> QED BY <2>0, <2>2, <3>3, <4>1, <4>3, <4>4, RowsLessened
    <3> QED BY <1>0, <3>1, <3>2, <3>3
  <2> QED BY <2>1, <2>2
<1>5. ASSUME NEW g \in Handlers, NEW id \in IdsOf("stock"), In(g, "update")', Step(g)'.id = id
      PROVE  Has(id)' \/ Step(g)'.row.refs.product \in raced'
  <2>0. /\ id \in Ids /\ id[1] = "stock" /\ id # None /\ id \notin IdsOf("settings")
        /\ calls'[g] # <<>> /\ Step(g)'.do = "update" /\ Saving(g)'
    BY <1>0, <1>5, IdParts, SettingsIds DEF In, Saving, Writes
  <2>1. CASE g = h
    <3>1. ~Begins(h)
      <4>1. SUFFICES ASSUME Begins(h) PROVE FALSE
        OBVIOUS
      <4>2. FirstDecided(calls'[h]) /\ calls'[h][1] = Step(h)'
        BY <4>1, AfterBegin DEF Decided
      <4> QED BY <1>5, <2>0, <2>1, <4>2 DEF FirstDecided, IsSave, Saving
    <3>2. Selects(h)
      BY <1>5, <2>0, <2>1, <3>1, SavesNext, AfterFind DEF IsSave
    <3>3. Has(id) /\ rows' = rows
      BY <1>5, <2>0, <2>1, <3>2, AfterSelect
    <3> QED BY <3>3, RowsSame
  <2>2. CASE g # h
    <3>1. /\ In(g, "update") /\ Saving(g) /\ Step(g)' = Step(g) /\ Step(g).id = id
      BY <1>5, <2>0, <2>2, AfterStep
    <3>2. PICK product : product = Step(g).row.refs["product"]
      OBVIOUS
    <3>3. Has(id) \/ product \in raced
      BY <3>1, <3>2 DEF StockInv, StockFound
    <3>4. ASSUME Has(id), ~Has(id)'
          PROVE  product \in raced'
      <4>1. At(id) # None /\ At(id)' = None
        BY <2>0, <3>4 DEF Has
      <4>2. ~SaveGoes(h)
        <5>1. SUFFICES ASSUME SaveGoes(h) PROVE FALSE
          OBVIOUS
        <5>2. PICK saved : Has(saved)' /\ \A x \in Ids \ {saved} : Has(x)' <=> Has(x)
          BY <5>1, RowsSaved
        <5> QED BY <2>0, <3>4, <5>2
      <4>3. rows' # rows
        BY <3>4, RowsSame
      <4>4. LessGoes(h)
        BY <4>2, <4>3, AfterStep
      <4>5. At(id).refs["product"] = product
        <5>1. Step(g).row \in Borne(id) /\ At(id) \in Borne(id)
          BY <3>1, <3>4, Bears DEF BaseInv, Borne
        <5> QED BY <3>2, <5>1 DEF OneParent, Fixed, FixedRef
      <4>6. Step(g).row \in RowOf("stock") /\ Step(g) \in Steps /\ Writes(Step(g)) /\ calls[g] # <<>>
        BY <2>0, <3>1, SavingTypes
      <4>7. product \in IdsOf("product") /\ product # None
        <5>1. <<"stock", "product">> \in NotNull
          BY DEF NotNull
        <5> QED BY <1>0, <3>2, <4>6, <5>1, RefParts
      <4>8. product \in Ids /\ At(product)' = None
        BY <1>0, <1>5, <4>1, <4>4, <4>5, <4>7, IdParts DEF LessGoes
      <4>9. Has(product)
        <5>1. RefsExist("stock", At(id))
          BY <2>0, <3>4 DEF BaseInv, Schema
        <5>2. <<"stock", "product">> \notin Unenforced
          BY DEF Unenforced
        <5> QED BY <1>0, <4>5, <4>7, <5>1, <5>2 DEF RefsExist
      <4>10. product \in HeldBy(g)
        <5>1. product \in InHand(Step(g))
          BY <1>0, <2>0, <3>1, <3>2, <4>6, <4>7, SaveHolds
        <5> QED BY <4>6, <5>1, Holds DEF BaseInv
      <4> QED BY <2>2, <4>4, <4>8, <4>9, <4>10, RowsLessened
    <3> QED BY <1>0, <3>1, <3>2, <3>3, <3>4
  <2> QED BY <2>1, <2>2
<1>6. StockOnce'
  BY <1>3 DEF StockOnce
<1>7. StockNext'
  BY <1>4 DEF StockNext
<1>8. StockFound'
  BY <1>5 DEF StockFound
<1> QED BY <1>6, <1>7, <1>8 DEF StockInv

-----------------------------------------------------------------------------
(* What is, or is to be, written to a row: column by column it was borne   *)
(* for that row already, except what a foreign key forgets.                *)
Mixed(t, id, r) ==
  /\ Borne(id) # {}
  /\ \A ref \in RefsOf[t] :
       \/ \E s \in Borne(id) : r.refs[ref] = s.refs[ref]
       \/ r.refs[ref] = None /\ <<t, ref>> \in Nulling

Awaits(h, r) == \E i \in DOMAIN calls[h] : Writes(calls[h][i]) /\ calls[h][i].row = r

LEMMA SavedRow ==
  ASSUME NEW q, Queue(q), NEW i \in DOMAIN q, Writes(q[i])
  PROVE  /\ q[i].row \in RowOf(q[i].id[1])
         /\ i # 1 => i = 2 /\ q[1].do = "clear"
<1>1. q \in Seq(Steps) /\ (i > 1 => Follows(q, i))
  BY DEF Queue
<1>2. q[i] \in Steps
  BY <1>1
<1>3. i \in Nat /\ (i = 1 \/ i > 1)
  BY <1>1
<1> QED BY <1>1, <1>2, <1>3, StepTypes DEF Follows, UpsertStock, Writes

(* A request saves one row at a time.                                      *)
LEMMA OneSave ==
  ASSUME NEW q, Queue(q), NEW i \in DOMAIN q, NEW j \in DOMAIN q, Writes(q[i]), Writes(q[j])
  PROVE  i = j
BY SavedRow DEF Writes

LEMMA BorneAfter ==
  ASSUME BaseInv, BaseInv', NEW h \in Handlers, CatalogStep(h),
         NEW t \in TableNames \ {"settings"}, NEW id \in IdsOf(t), NEW r, r \in Borne(id)'
  PROVE  /\ r \in RowOf(t)
         /\ Mixed(t, id, r) \/ (SaveDecided(id, r) /\ rows' = rows /\ Awaits(h, r)')
<1>0. id \in Ids /\ id[1] = t /\ id[2] \in 1..Slots[t]
  BY IdParts
<1>1. CASE Has(id)' /\ r = At(id)'
  <2>1. r \in RowOf(t)
    <3>1. At(id)' = rows'[t][id[2]]
      BY <1>0 DEF At
    <3>2. rows'[t][id[2]] \in RowOf(t) \cup {None}
      BY <1>0 DEF BaseInv, RowsTyped
    <3>3. At(id)' # None
      BY <1>1 DEF Has
    <3> QED BY <1>1, <3>1, <3>2, <3>3
  <2>2. CASE /\ Has(id)
             /\ \A ref \in RefsOf[t] :
                  \/ At(id)'.refs[ref] = At(id).refs[ref]
                  \/ At(id)'.refs[ref] = None /\ <<t, ref>> \in Nulling
    <3>1. At(id) \in Borne(id)
      BY <2>2 DEF Borne
    <3> QED BY <1>1, <2>1, <2>2, <3>1 DEF Mixed
  <2>3. CASE /\ Saving(h) /\ Step(h).id = id
             /\ \A ref \in RefsOf[t] : \/ At(id)'.refs[ref] = Step(h).row.refs[ref]
                                       \/ Has(id) /\ At(id)'.refs[ref] = At(id).refs[ref]
    <3>1. Step(h).row \in Borne(id) /\ (Has(id) => At(id) \in Borne(id))
      BY <2>3, Bears DEF BaseInv, Borne
    <3> QED BY <1>1, <2>1, <2>3, <3>1 DEF Mixed
  <2> QED BY <1>1, <2>2, <2>3, WasThere
<1>2. CASE r \in Queued(id)'
  <2>1. PICK g \in Handlers : \E i \in DOMAIN calls'[g] :
          Writes(calls'[g][i]) /\ calls'[g][i].id = id /\ calls'[g][i].row = r
    BY <1>2 DEF Queued
  <2>2. PICK i \in DOMAIN calls'[g] :
          Writes(calls'[g][i]) /\ calls'[g][i].id = id /\ calls'[g][i].row = r
    BY <2>1
  <2>3. Queue(calls'[g])
    BY DEF BaseInv, Queues
  <2>4. r \in RowOf(t)
    BY <1>0, <2>2, <2>3, SavedRow
  <2>5. ASSUME NEW j \in DOMAIN calls[g], Writes(calls[g][j]),
               calls[g][j].id = id, calls[g][j].row = r
        PROVE  Mixed(t, id, r)
    <3>1. r \in Queued(id)
      BY <2>5 DEF Queued
    <3> QED BY <3>1 DEF Borne, Mixed
  <2>6. CASE g # h
    <3>1. calls'[g] = calls[g]
      BY <2>6, AfterStep
    <3> QED BY <2>2, <2>4, <2>5, <3>1
  <2>7. CASE g = h
    <3>1. CASE Begins(h)
      <4>1. Decided(calls'[h]) /\ rows' = rows
        BY <3>1, AfterBegin DEF Grown
      <4>2. SaveDecided(id, r) /\ Awaits(h, r)'
        BY <2>2, <2>7, <4>1 DEF Decided, Awaits
      <4> QED BY <2>4, <4>1, <4>2
    <3>2. CASE Finds(h)
      <4>1. /\ SaveDecided(Step(h)'.id, Step(h)'.row) /\ calls'[h][1] = Step(h)' /\ rows' = rows
            /\ \A k \in DOMAIN calls'[h] : k # 1 => calls'[h][k].do = "assign"
        BY <3>2, AfterFind DEF Grown
      <4>2. i = 1 /\ Step(h)'.id = id /\ Step(h)'.row = r /\ Awaits(h, r)'
        BY <2>2, <2>7, <4>1 DEF Writes, Awaits
      <4> QED BY <2>4, <4>1, <4>2
    <3>3. CASE Selects(h)
      <4>1. /\ Saving(h) /\ Step(h)'.id = Step(h).id /\ Step(h)'.row = Step(h).row
            /\ DOMAIN calls'[h] = DOMAIN calls[h]
            /\ calls'[h][1] = Step(h)' /\ calls[h][1] = Step(h)
            /\ \A k \in DOMAIN calls[h] : k # 1 => calls'[h][k] = calls[h][k]
        BY <3>3, AfterSelect
      <4>2. i \in DOMAIN calls[h] /\ Writes(calls[h][i]) /\ calls[h][i].id = id /\ calls[h][i].row = r
        BY <2>2, <2>7, <4>1 DEF Saving
      <4> QED BY <2>4, <2>5, <2>7, <4>2
    <3>4. ASSUME NEW written, Passes(h, written)
          PROVE  Mixed(t, id, r)
      <4>1. calls'[h] = Tail(calls[h]) /\ calls[h] # <<>> /\ Queues
        BY <3>4, AfterPass DEF Passes, BaseInv
      <4>2. Queue(calls[h])
        BY <4>1, HeadOf
      <4>3. i + 1 \in DOMAIN calls[h] /\ calls'[h][i] = calls[h][i + 1]
        BY <2>2, <2>7, <4>1, <4>2, QueueTail
      <4> QED BY <2>2, <2>5, <2>7, <4>3
    <3>5. CASE SaveGoes(h) \/ LessGoes(h) \/ Misses(h)
      BY <2>4, <3>4, <3>5 DEF SaveGoes, LessGoes, Misses
    <3>6. CASE Stops(h)
      BY <2>2, <2>7, <3>6, AfterStop, NoQueue
    <3> QED BY <3>1, <3>2, <3>3, <3>5, <3>6 DEF CatalogStep
  <2> QED BY <2>6, <2>7
<1> QED BY <1>1, <1>2 DEF Borne

(* What two requests were decided to save is the same row.                 *)
LEMMA AwaitsOne ==
  ASSUME BaseInv', NEW h \in Handlers, NEW r, NEW s, Awaits(h, r)', Awaits(h, s)'
  PROVE  r = s
<1>1. Queue(calls'[h])
  BY DEF BaseInv, Queues
<1>2. PICK i \in DOMAIN calls'[h] : Writes(calls'[h][i]) /\ calls'[h][i].row = r
  BY DEF Awaits
<1>3. PICK j \in DOMAIN calls'[h] : Writes(calls'[h][j]) /\ calls'[h][j].row = s
  BY DEF Awaits
<1> QED BY <1>1, <1>2, <1>3, OneSave

(* The columns of FixedRef and the levels of links: no key forgets them.   *)
LEMMA FixedRefs ==
  /\ \A t \in Fixed : /\ t \in TableNames \ {"settings"} /\ FixedRef[t] \in RefsOf[t]
                      /\ <<t, FixedRef[t]>> \notin Nulling
  /\ \A t \in {"link", "city"} :
       /\ t \in TableNames \ {"settings"} /\ t \in Fixed \cup {"city"}
       /\ Low[t] \in RefsOf[t] /\ High[t] \in RefsOf[t]
       /\ Low[t] \in Fixed /\ FixedRef[Low[t]] = High[t] /\ Low[t] \in TableNames \ {"settings"}
       /\ t = "link" => <<t, High[t]>> \notin Nulling
BY DEF Fixed, FixedRef, Low, High, TableNames, RefsOf, Nulling

(* A new row has nothing borne for it yet.                                 *)
LEMMA NewIsUnused ==
  ASSUME BaseInv, OnlyUsed, NEW t \in Fixed \cup {"city"}, NEW id \in IdsOf(t),
         id[2] = used[t] + 1
  PROVE  Borne(id) = {}
<1>1. t \in TableNames
  BY FixedRefs
<1>2. used[t] \in Nat
  BY <1>1 DEF BaseInv, Counted
<1>3. ~(id[2] <= used[t])
  BY <1>2
<1> QED BY <1>3 DEF OnlyUsed

(* What is to be written to a row keeps its parent, or is new.             *)
LEMMA FixedAfter ==
  ASSUME BaseInv, BaseInv', LevelsInv, NEW h \in Handlers, CatalogStep(h),
         NEW t \in Fixed, NEW id \in IdsOf(t), NEW r, r \in Borne(id)'
  PROVE  \/ \E s \in Borne(id) : r.refs[FixedRef[t]] = s.refs[FixedRef[t]]
         \/ Borne(id) = {} /\ Awaits(h, r)' /\ NewOne(id)
<1>1. /\ t \in TableNames \ {"settings"} /\ id[1] = t /\ FixedRef[t] \in RefsOf[t]
      /\ <<t, FixedRef[t]>> \notin Nulling
  BY FixedRefs, IdParts
<1>2. CASE Mixed(t, id, r)
  BY <1>1, <1>2 DEF Mixed
<1>3. CASE SaveDecided(id, r) /\ Awaits(h, r)'
  <2>1. CASE Has(id) /\ At(id).refs[FixedRef[t]] = r.refs[FixedRef[t]]
    BY <2>1 DEF Borne
  <2>2. CASE NewOne(id)
    <3>1. Borne(id) = {}
      BY <1>1, <2>2, NewIsUnused DEF NewOne, LevelsInv
    <3> QED BY <1>3, <2>2, <3>1
  <2> QED BY <1>1, <1>3, <2>1, <2>2 DEF SaveDecided
<1> QED BY <1>1, <1>2, <1>3, BorneAfter

LEMMA ParentsKept ==
  ASSUME BaseInv, BaseInv', LevelsInv, NEW h \in Handlers, CatalogStep(h)
  PROVE  OneParent' /\ OnlyUsed'
<1>1. ASSUME NEW t \in Fixed, NEW id \in IdsOf(t), NEW r, r \in Borne(id)', NEW s, s \in Borne(id)'
      PROVE  r.refs[FixedRef[t]] = s.refs[FixedRef[t]]
  <2>1. CASE Borne(id) = {}
    <3>1. Awaits(h, r)' /\ Awaits(h, s)'
      BY <1>1, <2>1, FixedAfter
    <3> QED BY <3>1, AwaitsOne
  <2>2. CASE Borne(id) # {}
    <3>1. PICK v \in Borne(id) : r.refs[FixedRef[t]] = v.refs[FixedRef[t]]
      BY <1>1, <2>2, FixedAfter
    <3>2. PICK w \in Borne(id) : s.refs[FixedRef[t]] = w.refs[FixedRef[t]]
      BY <1>1, <2>2, FixedAfter
    <3> QED BY <3>1, <3>2 DEF LevelsInv, OneParent
  <2> QED BY <2>1, <2>2
<1>2. ASSUME NEW t \in Fixed \cup {"city"}, NEW id \in IdsOf(t), NEW r, r \in Borne(id)'
      PROVE  id[2] <= used'[t]
  <2>1. t \in TableNames \ {"settings"} /\ id[1] = t
    BY FixedRefs, IdParts
  <2>2. id[2] \in Nat /\ used[t] \in Nat /\ used'[t] \in Nat /\ used[t] <= used'[t]
    BY <2>1, IdParts, AfterStep, TablesAssumption DEF BaseInv, Counted
  <2>3. Borne(id) # {} \/ NewOne(id)
    <3>1. Mixed(t, id, r) \/ SaveDecided(id, r)
      BY <1>2, <2>1, BorneAfter
    <3> QED BY <2>1, <3>1 DEF Mixed, SaveDecided, Borne
  <2>4. CASE Borne(id) # {}
    <3>1. id[2] <= used[t]
      BY <2>4 DEF LevelsInv, OnlyUsed
    <3> QED BY <2>2, <3>1
  <2> QED BY <2>1, <2>3, <2>4 DEF NewOne
<1>3. OneParent'
  BY <1>1 DEF OneParent
<1>4. OnlyUsed'
  BY <1>2 DEF OnlyUsed
<1> QED BY <1>3, <1>4

(* What is borne for the low level keeps its parent.                       *)
LEMMA AgreesOn ==
  ASSUME BaseInv, BaseInv', LevelsInv, NEW h \in Handlers, CatalogStep(h),
         NEW t \in {"link", "city"}, NEW low \in IdsOf(Low[t]), low[2] <= used[Low[t]],
         NEW high, Agrees(t, low, high)
  PROVE  Agrees(t, low, high)'
<1>1. Low[t] \in Fixed /\ FixedRef[Low[t]] = High[t] /\ Low[t] \in TableNames
  BY FixedRefs
<1>2. ~NewOne(low)
  <2>1. low[1] = Low[t] /\ used[Low[t]] \in Nat
    BY <1>1, IdParts DEF BaseInv, Counted
  <2> QED BY <2>1 DEF NewOne
<1>3. \A v : v \in Borne(low)' => \E s \in Borne(low) : v.refs[High[t]] = s.refs[High[t]]
  BY <1>1, <1>2, FixedAfter
<1> QED BY <1>3 DEF Agrees

(* The low level a request has seen is one that is used.                   *)
LEMMA LowIsUsed ==
  ASSUME BaseInv, LevelsInv, NEW t \in {"link", "city"}, NEW id \in IdsOf(t),
         NEW low \in IdsOf(Low[t]), Has(low) \/ (Has(id) /\ At(id).refs[Low[t]] = low)
  PROVE  low[2] <= used[Low[t]]
<1>1. CASE Has(low)
  <2>1. At(low) \in Borne(low)
    BY <1>1 DEF Borne
  <2> QED BY <2>1, FixedRefs DEF LevelsInv, OnlyUsed
<1>2. CASE Has(id) /\ At(id).refs[Low[t]] = low
  <2>1. At(id) \in Borne(id)
    BY <1>2 DEF Borne
  <2> QED BY <1>2, <2>1 DEF LevelsInv, LevelsKnown
<1> QED BY <1>1, <1>2

(* A sub-category, or a state, that is there has the one parent.           *)
LEMMA ParentOf ==
  ASSUME LevelsInv, NEW t \in {"link", "city"}, NEW low \in IdsOf(Low[t]), Has(low)
  PROVE  Agrees(t, low, At(low).refs[High[t]])
<1>1. At(low) \in Borne(low)
  BY DEF Borne
<1>2. Low[t] \in Fixed /\ FixedRef[Low[t]] = High[t]
  BY FixedRefs
<1> QED BY <1>1, <1>2 DEF LevelsInv, OneParent, Agrees

LEMMA LevelsOf ==
  ASSUME BaseInv, LevelsInv, NEW t \in {"link", "city"}, NEW id \in IdsOf(t), id \notin moved,
         NEW low \in IdsOf(Low[t]), NEW v \in Borne(id), NEW w \in Borne(id), v.refs[Low[t]] = low
  PROVE  low[2] <= used[Low[t]] /\ Agrees(t, low, w.refs[High[t]])
BY DEF LevelsInv, LevelsKnown

LEMMA LevelsKept ==
  ASSUME BaseInv, BaseInv', LevelsInv, NEW h \in Handlers, CatalogStep(h)
  PROVE  LevelsInv'
<1>0. moved \subseteq moved' /\ OneParent' /\ OnlyUsed'
  BY AfterStep, ParentsKept
<1>1. ASSUME NEW id \in IdsOf("link"), id \notin moved', NEW r, r \in Borne(id)', NEW s, s \in Borne(id)'
      PROVE  r.refs.category = s.refs.category
  <2>0. /\ "link" \in TableNames \ {"settings"} /\ "link" \in Fixed /\ "category" \in RefsOf["link"]
        /\ <<"link", "category">> \notin Nulling /\ High["link"] = "category" /\ id[1] = "link"
    BY IdParts DEF Fixed, FixedRef, TableNames, RefsOf, Nulling, High
  <2>1. ASSUME NEW v, v \in Borne(id)'
        PROVE  \/ \E w \in Borne(id) : v.refs["category"] = w.refs["category"]
               \/ Borne(id) = {} /\ Awaits(h, v)'
    <3>1. CASE Mixed("link", id, v)
      BY <2>0, <3>1 DEF Mixed
    <3>2. CASE SaveDecided(id, v) /\ Awaits(h, v)'
      <4>1. LevelsSeen("link", id, v)
        BY <2>0, <3>2 DEF SaveDecided
      <4>2. CASE Has(id) /\ At(id).refs["category"] = v.refs["category"]
        BY <4>2 DEF Borne
      <4>3. CASE id[2] = used["link"] + 1
        BY <2>0, <3>2, <4>3, NewIsUnused DEF LevelsInv
      <4> QED BY <1>1, <2>0, <4>1, <4>2, <4>3 DEF LevelsSeen
    <3> QED BY <2>0, <2>1, <3>1, <3>2, BorneAfter
  <2>2. CASE Borne(id) = {}
    BY <1>1, <2>1, <2>2, AwaitsOne
  <2>3. CASE Borne(id) # {}
    <3>1. PICK v \in Borne(id) : r.refs["category"] = v.refs["category"]
      BY <1>1, <2>1, <2>3
    <3>2. PICK w \in Borne(id) : s.refs["category"] = w.refs["category"]
      BY <1>1, <2>1, <2>3
    <3>3. v.refs["category"] = w.refs["category"]
      BY <1>0, <1>1 DEF LevelsInv, HighOnce
    <3> QED BY <3>1, <3>2, <3>3
  <2> QED BY <2>2, <2>3
<1>2. ASSUME NEW t \in {"link", "city"}, NEW id \in IdsOf(t), NEW low \in IdsOf(Low[t]),
             NEW r, r \in Borne(id)', NEW s, s \in Borne(id)', r.refs[Low[t]] = low
      PROVE  low[2] <= used'[Low[t]] /\ (id \in moved' \/ Agrees(t, low, s.refs[High[t]])')
  <2>0. /\ t \in TableNames \ {"settings"} /\ t \in Fixed \cup {"city"} /\ id[1] = t
        /\ Low[t] \in RefsOf[t] /\ High[t] \in RefsOf[t] /\ Low[t] \in TableNames
        /\ t = "link" => <<t, High[t]>> \notin Nulling
        /\ low # None
    BY FixedRefs, IdParts
  <2>1. PICK high : high = s.refs[High[t]]
    OBVIOUS
  <2>2. SUFFICES low[2] <= used[Low[t]] /\ (id \in moved' \/ Agrees(t, low, high))
    <3>1. /\ used[Low[t]] \in Nat /\ used'[Low[t]] \in Nat
          /\ used[Low[t]] <= used'[Low[t]] /\ low[2] \in Nat
      <4>1. used[Low[t]] \in Nat /\ used'[Low[t]] \in Nat
        BY <2>0 DEF BaseInv, Counted
      <4>2. used[Low[t]] <= used'[Low[t]]
        BY <2>0, AfterStep
      <4>3. low[2] \in 1..Slots[Low[t]]
        BY <2>0, IdParts
      <4> QED BY <4>1, <4>2, <4>3
    <3>2. low[2] <= used[Low[t]] /\ Agrees(t, low, high) => Agrees(t, low, high)'
      BY AgreesOn
    <3> QED BY <2>1, <3>1, <3>2
  <2>3. CASE Mixed(t, id, r)
    <3>1. PICK v \in Borne(id) : v.refs[Low[t]] = low
      <4>1. r.refs[Low[t]] # None
        BY <1>2, <2>0
      <4> QED BY <1>2, <2>0, <2>3, <4>1 DEF Mixed
    <3>2. low[2] <= used[Low[t]]
      BY <3>1 DEF LevelsInv, LevelsKnown
    <3>3. ASSUME NEW w \in Borne(id), w.refs[High[t]] = high
          PROVE  id \in moved' \/ Agrees(t, low, high)
      BY <1>0, <3>1, <3>3, LevelsOf
    <3>4. CASE Mixed(t, id, s)
      <4>1. (\E w \in Borne(id) : w.refs[High[t]] = high) \/ (t = "city" /\ high = None)
        BY <2>0, <2>1, <3>4 DEF Mixed
      <4> QED BY <3>2, <3>3, <4>1 DEF Agrees
    <3>5. CASE SaveDecided(id, s)
      <4>1. LevelsSeen(t, id, s)
        BY <2>0, <3>5 DEF SaveDecided
      <4>2. id[2] # used[t] + 1
        BY <2>0, <3>1, NewIsUnused DEF LevelsInv
      <4>3. id \in moved' \/ (Has(id) /\ At(id).refs[High[t]] = high)
        BY <2>1, <4>1, <4>2 DEF LevelsSeen
      <4>4. Has(id) => At(id) \in Borne(id)
        BY DEF Borne
      <4> QED BY <3>2, <3>3, <4>3, <4>4
    <3> QED BY <1>2, <2>0, <3>4, <3>5, BorneAfter
  <2>4. CASE SaveDecided(id, r) /\ Awaits(h, r)'
    <3>1. PICK seen : seen = r.refs[High[t]]
      OBVIOUS
    <3>2. /\ Has(low) \/ (Has(id) /\ At(id).refs[Low[t]] = low)
          /\ \/ id \in moved'
             \/ /\ Has(id) /\ At(id).refs[High[t]] = seen
                /\ \/ At(id).refs[Low[t]] = low
                   \/ t = "link" /\ Has(low) /\ At(low).refs[High[t]] = seen
             \/ /\ id[2] = used[t] + 1
                /\ (t = "city" /\ seen = None) \/ At(low).refs[High[t]] = seen
      <4>1. LevelsSeen(t, id, r)
        BY <2>0, <2>4 DEF SaveDecided
      <4> QED BY <1>2, <2>0, <3>1, <4>1 DEF LevelsSeen
    <3>3. low[2] <= used[Low[t]]
      BY <3>2, LowIsUsed
    <3>4. id[2] = used[t] + 1 => Borne(id) = {} /\ ~Has(id)
      BY <2>0, NewIsUnused DEF LevelsInv, Borne
    <3>5. CASE Mixed(t, id, s) /\ id \notin moved'
      <4>1. /\ Has(id) /\ At(id).refs[High[t]] = seen
            /\ \/ At(id).refs[Low[t]] = low
               \/ t = "link" /\ Has(low) /\ At(low).refs[High[t]] = seen
        BY <3>2, <3>4, <3>5 DEF Mixed
      <4>2. At(id) \in Borne(id) /\ id \notin moved
        BY <1>0, <3>5, <4>1 DEF Borne
      <4>3. (\E w \in Borne(id) : w.refs[High[t]] = high) \/ (t = "city" /\ high = None)
        BY <2>0, <2>1, <3>5 DEF Mixed
      <4>4. ASSUME NEW w \in Borne(id), w.refs[High[t]] = high
            PROVE  Agrees(t, low, high)
        <5>1. CASE At(id).refs[Low[t]] = low
          BY <4>2, <4>4, <5>1, LevelsOf
        <5>2. CASE t = "link" /\ Has(low) /\ At(low).refs[High[t]] = seen
          <6>1. High[t] = "category"
            BY <5>2 DEF High
          <6>2. w.refs["category"] = At(id).refs["category"]
            BY <4>2, <5>2 DEF LevelsInv, HighOnce
          <6>3. Agrees(t, low, At(low).refs[High[t]])
            BY <5>2, ParentOf
          <6> QED BY <4>1, <4>4, <5>2, <6>1, <6>2, <6>3
        <5> QED BY <4>1, <5>1, <5>2
      <4> QED BY <3>3, <4>3, <4>4 DEF Agrees
    <3>6. CASE Awaits(h, s)' /\ id \notin moved'
      <4>1. high = seen
        BY <2>1, <2>4, <3>1, <3>6, AwaitsOne
      <4>2. CASE Has(id) /\ At(id).refs[High[t]] = seen /\ At(id).refs[Low[t]] = low
        <5>1. At(id) \in Borne(id) /\ id \notin moved
          BY <1>0, <3>6, <4>2 DEF Borne
        <5> QED BY <4>1, <4>2, <5>1, LevelsOf
      <4>3. CASE Has(low) /\ At(low).refs[High[t]] = seen
        BY <3>3, <4>1, <4>3, ParentOf
      <4>4. CASE t = "city" /\ seen = None
        BY <3>3, <4>1, <4>4 DEF Agrees
      <4> QED BY <3>2, <3>4, <3>6, <4>2, <4>3, <4>4
    <3> QED BY <1>2, <2>0, <3>3, <3>5, <3>6, BorneAfter
  <2> QED BY <1>2, <2>0, <2>3, <2>4, BorneAfter
<1>3. HighOnce'
  BY <1>1 DEF HighOnce
<1>4. LevelsKnown'
  BY <1>2 DEF LevelsKnown
<1> QED BY <1>0, <1>3, <1>4 DEF LevelsInv

-----------------------------------------------------------------------------
(* The rows at the start.                                                  *)
LEMMA FirstOnes ==
  ASSUME NEW t \in TableNames, NEW id \in FirstIn(t)
  PROVE  id \in IdsOf(t) /\ FirstAt(id) \in RowOf(t) /\ id[2] <= Len(FirstRows[t])
<1>1. /\ FirstRows[t] \in Seq(RowOf(t)) /\ Len(FirstRows[t]) <= Slots[t]
      /\ Len(FirstRows[t]) \in Nat /\ Slots[t] \in Nat
  BY TablesAssumption
<1>2. PICK n \in 1..Len(FirstRows[t]) : id = <<t, n>>
  BY DEF FirstIn
<1>3. n \in 1..Slots[t]
  BY <1>1, <1>2
<1>4. FirstRows[t][n] \in RowOf(t)
  BY <1>1, <1>2
<1> QED BY <1>1, <1>2, <1>3, <1>4 DEF IdsOf, FirstAt

LEMMA AtStart ==
  ASSUME TablesInit, NEW t \in TableNames
  PROVE  /\ \A id \in IdsOf(t) : At(id) = IF id \in FirstIn(t) THEN FirstAt(id) ELSE None
         /\ \A id \in IdsOf(t) : Has(id) <=> id \in FirstIn(t)
         /\ RowsIn(t) = FirstIn(t)
         /\ used[t] = Len(FirstRows[t])
<1>1. ASSUME NEW id \in IdsOf(t)
      PROVE  At(id) = IF id \in FirstIn(t) THEN FirstAt(id) ELSE None
  <2>1. PICK n \in 1..Slots[t] : id = <<t, n>>
    BY DEF IdsOf
  <2>2. rows[t][n] = IF n <= Len(FirstRows[t]) THEN FirstRows[t][n] ELSE None
    BY DEF TablesInit
  <2>3. Len(FirstRows[t]) \in Nat /\ Slots[t] \in Nat
    BY TablesAssumption
  <2>4. n <= Len(FirstRows[t]) <=> id \in FirstIn(t)
    BY <2>1, <2>3 DEF FirstIn
  <2> QED BY <2>1, <2>2, <2>4 DEF At, FirstAt
<1>2. ASSUME NEW id \in IdsOf(t)
      PROVE  Has(id) <=> id \in FirstIn(t)
  BY <1>1, FirstOnes, NoneIsNoRow, IdParts DEF Has
<1>3. RowsIn(t) = FirstIn(t)
  BY <1>2, FirstOnes DEF RowsIn
<1>4. used[t] = Len(FirstRows[t])
  BY DEF TablesInit
<1> QED BY <1>1, <1>2, <1>3, <1>4

LEMMA BaseAtStart ==
  ASSUME TablesInit
  PROVE  BaseInv
<1>1. RowsTyped
  <2>1. ASSUME NEW t \in TableNames, NEW n \in 1..Slots[t]
        PROVE  rows[t][n] \in RowOf(t) \cup {None}
    <3>1. rows[t][n] = IF n <= Len(FirstRows[t]) THEN FirstRows[t][n] ELSE None
      BY DEF TablesInit
    <3>2. FirstRows[t] \in Seq(RowOf(t)) /\ Slots[t] \in Nat
      BY TablesAssumption
    <3>3. n <= Len(FirstRows[t]) => FirstRows[t][n] \in RowOf(t)
      BY <3>2
    <3> QED BY <3>1, <3>3
  <2>2. DOMAIN rows = TableNames /\ \A t \in TableNames : rows[t] = [n \in 1..Slots[t] |-> rows[t][n]]
    BY DEF TablesInit
  <2> QED BY <2>1, <2>2 DEF RowsTyped
<1>2. Counted
  <2>1. used = [t \in TableNames |-> Len(FirstRows[t])]
    BY DEF TablesInit
  <2>2. \A t \in TableNames : Len(FirstRows[t]) \in Nat /\ Len(FirstRows[t]) <= Slots[t]
    BY TablesAssumption
  <2> QED BY <2>1, <2>2 DEF Counted
<1>3. Queues
  BY NoQueue DEF TablesInit, Queues
<1>4. ASSUME NEW id \in Ids, Has(id)
      PROVE  RefsExist(id[1], At(id)) /\ ~Clash(id, At(id))
  <2>1. PICK t \in TableNames : t = id[1] /\ id \in IdsOf(t)
    BY IdsHaveTables
  <2>2. id \in FirstIn(t) /\ At(id) = FirstAt(id)
    BY <1>4, <2>1, AtStart
  <2>3. ASSUME NEW ref \in RefsOf[t], <<t, ref>> \notin Unenforced, At(id).refs[ref] # None
        PROVE  Has(At(id).refs[ref])
    <3>1. FirstAt(id).refs[ref] \in FirstIn(ref) /\ ref \in TableNames
      BY <2>2, <2>3, RefTables, SchemaAtStart
    <3> QED BY <2>2, <3>1, FirstOnes, AtStart
  <2>4. ASSUME NEW other \in RowsIn(t) \ {id}, NEW columns \in UniqueOn[t], Alike(At(id), At(other), columns)
        PROVE  FALSE
    <3>1. other \in FirstIn(t) \ {id} /\ At(other) = FirstAt(other)
      BY AtStart, FirstOnes
    <3>2. PICK column \in columns :
            \/ ColumnOf(FirstAt(id), column) = None
            \/ ColumnOf(FirstAt(id), column) # ColumnOf(FirstAt(other), column)
      BY <2>2, <3>1, SchemaAtStart
    <3> QED BY <2>2, <2>4, <3>1, <3>2 DEF Alike
  <2>5. ~Clash(id, At(id))
    BY <1>1, <2>1, <2>4, ClashIs
  <2> QED BY <2>1, <2>3, <2>5, RefsExistIs
<1>5. Schema
  BY <1>4 DEF Schema
<1>6. requests \in 0..MaxRequests /\ moved \subseteq Ids /\ cut \subseteq Ids
  BY TablesAssumption DEF TablesInit
<1> QED BY <1>1, <1>2, <1>3, <1>5, <1>6 DEF BaseInv

LEMMA BorneAtStart ==
  ASSUME TablesInit, NEW t \in TableNames, NEW id \in IdsOf(t)
  PROVE  \A r \in Borne(id) : id \in FirstIn(t) /\ r = FirstAt(id) /\ id[2] <= used[t]
<1>1. Queued(id) = {}
  BY DEF Queued, TablesInit
<1> QED BY <1>1, AtStart, FirstOnes DEF Borne

LEMMA LayersAtStart ==
  ASSUME TablesInit
  PROVE  ApprovedInv /\ UnusedNext /\ NamesInv /\ PrimaryInv /\ StockInv /\ LevelsInv
<1>1. \A h \in Handlers : ~Saving(h) /\ \A do : ~In(h, do)
  BY DEF TablesInit, In, Saving
<1>0. {"product", "attribute", "link", "stock"} \subseteq TableNames
  BY DEF TableNames, RefsOf
<1>2. ApprovedInv
  <2>1. approvals = {<<id, At(id).key>> : id \in RowsIn("product")}
    BY DEF TablesInit
  <2> QED BY <1>1, <2>1 DEF ApprovedInv, ApprovedAsRead, ApprovedNext
<1>3. UnusedNext
  BY <1>1 DEF UnusedNext
<1>4. NamesInv
  <2>1. ASSUME NEW t \in {"attribute", "product"}, NEW x \in RowsIn(t), NEW y \in RowsIn(t), x # y
        PROVE  At(x).key # At(y).key
    <3>1. t \in TableNames
      BY <1>0
    <3>2. /\ x \in FirstIn(t) /\ y \in FirstIn(t) /\ At(x) = FirstAt(x) /\ At(y) = FirstAt(y)
      BY <3>1, AtStart, FirstOnes
    <3> QED BY <2>1, <3>2, CatalogAtStart
  <2> QED BY <1>1, <2>1 DEF NamesInv, NamesOnce, NameNext
<1>5. PrimaryInv
  <2>1. ASSUME NEW x \in RowsIn("link"), NEW y \in RowsIn("link"), x # y, At(x).flag, At(y).flag
        PROVE  At(x).refs.product # At(y).refs.product
    <3>1. x \in FirstIn("link") /\ y \in FirstIn("link") /\ At(x) = FirstAt(x) /\ At(y) = FirstAt(y)
      BY <1>0, AtStart, FirstOnes
    <3> QED BY <2>1, <3>1, CatalogAtStart
  <2> QED BY <1>1, <2>1 DEF PrimaryInv, PrimaryOnce, PrimaryNext
<1>6. StockInv
  <2>1. ASSUME NEW product \in RowsIn("product")
        PROVE  Stocked(product)
    <3>1. product \in FirstIn("product")
      BY <1>0, AtStart
    <3>2. PICK id \in FirstIn("stock") : FirstAt(id).refs.product = product
      BY <3>1, CatalogAtStart
    <3>3. id \in RowsIn("stock") /\ At(id) = FirstAt(id)
      BY <1>0, AtStart, FirstOnes
    <3> QED BY <3>2, <3>3 DEF Stocked
  <2> QED BY <1>1, <2>1 DEF StockInv, StockOnce, StockNext, StockFound
<1>7. OneParent /\ OnlyUsed /\ HighOnce
  <2>1. Fixed \cup {"city"} \subseteq TableNames /\ "link" \in TableNames
    BY DEF Fixed, FixedRef, TableNames, RefsOf
  <2> QED BY <2>1, BorneAtStart DEF OneParent, OnlyUsed, HighOnce
<1>8. LevelsKnown
  <2>1. ASSUME NEW t \in {"link", "city"}, NEW id \in IdsOf(t), NEW low \in IdsOf(Low[t]),
               NEW r \in Borne(id), NEW s \in Borne(id), r.refs[Low[t]] = low
        PROVE  low[2] <= used[Low[t]] /\ Agrees(t, low, s.refs[High[t]])
    <3>0. /\ t \in TableNames /\ Low[t] \in TableNames /\ Low[t] \in RefsOf[t]
          /\ <<t, Low[t]>> \notin Unenforced
      BY DEF Low, TableNames, RefsOf, Unenforced
    <3>1. id \in FirstIn(t) /\ r = FirstAt(id) /\ s = FirstAt(id) /\ low # None
      BY <3>0, BorneAtStart, IdParts
    <3>2. low \in FirstIn(Low[t])
      BY <2>1, <3>0, <3>1, SchemaAtStart
    <3>3. low[2] <= used[Low[t]]
      <4>1. PICK u \in TableNames : u = Low[t]
        BY <3>0
      <4>2. low[2] <= Len(FirstRows[u])
        BY <3>2, <4>1, FirstOnes
      <4>3. used[u] = Len(FirstRows[u])
        BY AtStart
      <4> QED BY <4>1, <4>2, <4>3
    <3>4. \A v \in Borne(low) : v = FirstAt(low)
      BY <3>0, BorneAtStart
    <3>5. CASE t = "link"
      <4>1. FirstAt(id).refs.sub = low /\ Low[t] = "sub" /\ High[t] = "category"
        BY <2>1, <3>1, <3>5 DEF Low, High
      <4>2. FirstAt(id).refs.category = FirstAt(low).refs.category
        BY <3>1, <3>5, <4>1, CatalogAtStart
      <4> QED BY <3>1, <3>3, <3>4, <4>1, <4>2 DEF Agrees
    <3>6. CASE t = "city"
      <4>1. FirstAt(id).refs.state = low /\ Low[t] = "state" /\ High[t] = "country"
        BY <2>1, <3>1, <3>6 DEF Low, High
      <4>2. FirstAt(id).refs.country # None => FirstAt(id).refs.country = FirstAt(low).refs.country
        BY <3>1, <3>6, <4>1, CatalogAtStart
      <4> QED BY <3>1, <3>3, <3>4, <3>6, <4>1, <4>2 DEF Agrees
    <3> QED BY <3>5, <3>6
  <2> QED BY <2>1 DEF LevelsKnown
<1> QED BY <1>2, <1>3, <1>4, <1>5, <1>6, <1>7, <1>8 DEF LevelsInv

-----------------------------------------------------------------------------
(* When nothing happens.                                                   *)
LEMMA LayersSame ==
  ASSUME CatalogInv, UNCHANGED tableVars
  PROVE  /\ ApprovedInv' /\ UnusedNext' /\ NamesInv'
         /\ PrimaryInv' /\ StockInv' /\ LevelsInv'
<1>1. /\ rows' = rows /\ calls' = calls /\ used' = used /\ raced' = raced /\ cut' = cut
      /\ moved' = moved /\ approvals' = approvals /\ merged' = merged
  BY DEF tableVars
<1>2. \A h : /\ Step(h)' = Step(h) /\ (Saving(h)' <=> Saving(h))
            /\ \A do : In(h, do)' <=> In(h, do)
  BY <1>1 DEF Step, In, Saving
<1>3. \A id : Borne(id)' = Borne(id)
  BY <1>1, RowsSame DEF Borne, Queued
<1>4. ApprovedInv'
  BY <1>1, <1>2, RowsSame DEF CatalogInv, ApprovedInv, ApprovedAsRead, ApprovedNext
<1>5. UnusedNext'
  BY <1>1, <1>2, RowsSame DEF CatalogInv, UnusedNext
<1>6. NamesInv'
  BY <1>1, <1>2, RowsSame DEF CatalogInv, NamesInv, NamesOnce, NameNext
<1>7. PrimaryInv'
  BY <1>1, <1>2, RowsSame DEF CatalogInv, PrimaryInv, PrimaryOnce, PrimaryNext
<1>8. StockInv'
  <2>1. \A h, product : WritesStock(h, product)' <=> WritesStock(h, product)
    BY <1>1, <1>2 DEF WritesStock
  <2> QED BY <1>1, <1>2, <2>1, RowsSame DEF CatalogInv, StockInv, StockOnce, StockNext, StockFound
<1>9. LevelsInv'
  BY <1>1, <1>3 DEF CatalogInv, LevelsInv, OneParent, OnlyUsed, LevelsKnown, HighOnce, Agrees
<1> QED BY <1>4, <1>5, <1>6, <1>7, <1>8, <1>9

LEMMA CatalogKept ==
  ASSUME CatalogInv, [CatalogNext]_tableVars
  PROVE  CatalogInv'
<1>1. BaseInv /\ BaseInv'
  BY EveryStep DEF CatalogInv, LevelsInv
<1>2. CASE UNCHANGED tableVars
  BY <1>1, <1>2, LayersSame DEF CatalogInv
<1>3. ASSUME NEW h \in Handlers, CatalogStep(h)
      PROVE  CatalogInv'
  <2>1. ApprovedInv'
    BY <1>1, <1>3, ApprovedKept DEF CatalogInv
  <2>2. UnusedNext'
    BY <1>1, <1>3, UnusedKept DEF CatalogInv
  <2>3. NamesInv'
    BY <1>1, <1>3, NamesKept DEF CatalogInv
  <2>4. PrimaryInv'
    BY <1>1, <1>3, PrimaryKept DEF CatalogInv, LevelsInv
  <2>5. StockInv'
    BY <1>1, <1>3, StockKept DEF CatalogInv, LevelsInv
  <2>6. LevelsInv'
    BY <1>1, <1>3, LevelsKept DEF CatalogInv
  <2> QED BY <1>1, <2>1, <2>2, <2>3, <2>4, <2>5, <2>6 DEF CatalogInv
<1> QED BY <1>1, <1>2, <1>3, EveryStep DEF CatalogInv, LevelsInv

(* The inductive invariant: types and the schema, the queues, and for each *)
(* property of the rows what the statements still to be run mean for it.   *)
THEOREM CatalogInvariant == CatalogSpec => []CatalogInv
<1>1. TablesInit => CatalogInv
  BY BaseAtStart, LayersAtStart DEF CatalogInv
<1>2. CatalogInv /\ [CatalogNext]_tableVars => CatalogInv'
  BY CatalogKept
<1> QED BY <1>1, <1>2, PTL DEF CatalogSpec

-----------------------------------------------------------------------------
(* Rows have their types, every enforced foreign key leads to a row, and   *)
(* every unique index holds, whatever requests overlap or stop.            *)
THEOREM CatalogTypes == CatalogSpec => []CatalogTypeOK
<1>1. CatalogInv => CatalogTypeOK
  <2> SUFFICES ASSUME CatalogInv PROVE CatalogTypeOK
    OBVIOUS
  <2>1. \A t \in TableNames : used[t] \in 0..Slots[t]
    <3>1. ASSUME NEW t \in TableNames
          PROVE  used[t] \in Nat /\ used[t] <= Slots[t] /\ Slots[t] \in Nat
      BY TablesAssumption DEF CatalogInv, BaseInv, Counted
    <3> QED BY <3>1
  <2>2. RowsTyped /\ Schema /\ requests \in 0..MaxRequests /\ moved \subseteq Ids /\ cut \subseteq Ids
    BY DEF CatalogInv, BaseInv
  <2>3. /\ DOMAIN rows = TableNames
        /\ \A t \in TableNames : rows[t] \in [1..Slots[t] -> RowOf(t) \cup {None}]
    BY <2>2 DEF RowsTyped
  <2>4. \A id \in Ids : Has(id) => RefsExist(id[1], At(id)) /\ ~Clash(id, At(id))
    BY <2>2 DEF Schema
  <2> QED BY <2>1, <2>2, <2>3, <2>4 DEF CatalogTypeOK
<1> QED BY <1>1, CatalogInvariant, PTL

(* An approved product is approved as an approving request had read or     *)
(* written it, whatever was saved in between, unless the row has columns   *)
(* of two requests.                                                        *)
THEOREM ApprovedProducts == CatalogSpec => []ApprovedAsRead
<1>1. CatalogInv => ApprovedAsRead
  BY DEF CatalogInv, ApprovedInv
<1> QED BY <1>1, CatalogInvariant, PTL

(* A product has its stock row as soon as the request that creates it is   *)
(* done, unless that request stopped or overlapped with the removal.       *)
THEOREM StockOfProducts == CatalogSpec => []ProductHasStock
<1>1. ASSUME CatalogInv
      PROVE  ProductHasStock
  <2>1. ASSUME NEW h \in Handlers, NEW product, WritesStock(h, product)
        PROVE  product \in StockAwaited(h)
    <3>1. calls[h] # <<>> /\ Step(h) = calls[h][1] /\ 1 \in DOMAIN calls[h]
      BY <1>1, <2>1, HeadOf DEF CatalogInv, BaseInv, WritesStock
    <3>2. CASE Step(h) = UpsertStock(product)
      <4>1. calls[h][1].do = "stock" /\ calls[h][1].id = product
        BY <3>1, <3>2 DEF UpsertStock
      <4> QED BY <3>1, <4>1 DEF StockAwaited
    <3>3. CASE IsSave(Step(h), "stock") /\ Step(h).row.refs.product = product
      BY <3>1, <3>3 DEF StockAwaited, IsSave, Writes
    <3> QED BY <2>1, <3>2, <3>3 DEF WritesStock
  <2>2. ASSUME NEW product \in RowsIn("product") \ (cut \cup raced)
        PROVE  \/ \E h \in Handlers : product \in StockAwaited(h)
               \/ \E id \in RowsIn("stock") : At(id).refs.product = product
    BY <1>1, <2>1 DEF CatalogInv, StockInv, StockOnce, Stocked
  <2> QED BY <2>2 DEF ProductHasStock
<1> QED BY <1>1, CatalogInvariant, PTL

LEMMA AtMostOne ==
  ASSUME NEW S, \A x, y \in S : x = y
  PROVE  Cardinality(S) <= 1
<1>1. CASE S = {}
  BY <1>1, FS_EmptySet
<1>2. CASE S # {}
  <2>1. PICK x : S = {x}
    BY <1>2
  <2>2. Cardinality({x}) = 1
    BY FS_Singleton
  <2> QED BY <2>1, <2>2
<1> QED BY <1>1, <1>2

(* No index guards the primary link of a product, the name of an attribute *)
(* and the slug of a product: each is there once, unless requests about it *)
(* overlapped.                                                             *)
THEOREM OnceByCode == CatalogSpec => []UniqueByCode
<1>1. ASSUME CatalogInv
      PROVE  UniqueByCode
  <2>1. ASSUME NEW product \in RowsIn("product") \ raced
        PROVE  Cardinality({id \in LinksOf(product) : At(id).flag}) <= 1
    <3>1. product \in IdsOf("product")
      BY DEF RowsIn
    <3>2. \A x, y \in {id \in LinksOf(product) : At(id).flag} : x = y
      BY <1>1, <3>1 DEF CatalogInv, PrimaryInv, PrimaryOnce, LinksOf
    <3> QED BY <3>2, AtMostOne
  <2>2. ASSUME NEW t \in {"attribute", "product"}, NEW name \in Names,
               <<t, name>> \notin raced, WithKey(t, name) \cap raced = {}
        PROVE  Cardinality(WithKey(t, name)) <= 1
    <3>1. \A x, y \in WithKey(t, name) : x = y
      BY <1>1, <2>2 DEF CatalogInv, NamesInv, NamesOnce, WithKey
    <3> QED BY <3>1, AtMostOne
  <2> QED BY <2>1, <2>2 DEF UniqueByCode
<1> QED BY <1>1, CatalogInvariant, PTL

(* The category of a link is the one its sub-category is in, the country   *)
(* of a city the one its state is in, except for rows that were to move.   *)
THEOREM LevelsOfRows == CatalogSpec => []LevelsAgree
<1>1. ASSUME CatalogInv, NEW t \in {"link", "city"}, NEW id \in RowsIn(t), id \notin moved,
             NEW low, At(id).refs[Low[t]] = low, low # None,
             t = "city" => At(id).refs[High[t]] # None
      PROVE  At(id).refs[High[t]] = At(low).refs[High[t]]
  <2>0. /\ t \in TableNames /\ Low[t] \in RefsOf[t] /\ <<t, Low[t]>> \notin Unenforced
        /\ BaseInv /\ RowsTyped /\ Schema
    BY <1>1 DEF CatalogInv, BaseInv, TableNames, RefsOf, Low, Unenforced
  <2>1. id \in Ids /\ id[1] = t /\ Has(id) /\ id \in IdsOf(t) /\ At(id) \in Borne(id)
    BY <2>0, RowsInTable DEF Borne
  <2>2. low \in IdsOf(Low[t]) /\ Has(low)
    BY <1>1, <2>0, <2>1, RefersIs DEF Schema, RefsExist
  <2>3. Agrees(t, low, At(id).refs[High[t]])
    BY <1>1, <2>1, <2>2 DEF CatalogInv, LevelsInv, LevelsKnown
  <2>4. At(low) \in Borne(low)
    BY <2>2 DEF Borne
  <2> QED BY <1>1, <2>3, <2>4 DEF Agrees
<1>2. ASSUME CatalogInv
      PROVE  LevelsAgree
  <2>1. ASSUME NEW id \in RowsIn("link") \ moved, At(id).refs.sub # None
        PROVE  At(id).refs.category = At(At(id).refs.sub).refs.category
    BY <1>1, <1>2, <2>1 DEF Low, High
  <2>2. ASSUME NEW id \in RowsIn("city") \ moved, At(id).refs.country # None, At(id).refs.state # None
        PROVE  At(id).refs.country = At(At(id).refs.state).refs.country
    BY <1>1, <1>2, <2>2 DEF Low, High
  <2> QED BY <2>1, <2>2 DEF LevelsAgree
<1> QED BY <1>2, CatalogInvariant, PTL

(* A step that removes a shipping method finds it unused, unless a request *)
(* that chooses it overlaps; one that removes a parent category finds it   *)
(* without categories.                                                     *)
THEOREM InUseIsKept == CatalogSpec => InUseStays
<1>1. ASSUME CatalogInv, [CatalogNext]_tableVars
      PROVE  [/\ \A id \in IdsOf("shipping") \ raced' : Has(id) /\ At(id)' = None => Chosen(id) = {}
              /\ \A id \in IdsOf("parent") : Has(id) /\ At(id)' = None => ChildCategories(id) = {}]_rows
  <2>1. CASE UNCHANGED tableVars
    BY <2>1 DEF tableVars
  <2>2. ASSUME NEW h \in Handlers, CatalogStep(h)
        PROVE  /\ \A id \in IdsOf("shipping") \ raced' : Has(id) /\ At(id)' = None => Chosen(id) = {}
               /\ \A id \in IdsOf("parent") : Has(id) /\ At(id)' = None => ChildCategories(id) = {}
    <3>1. BaseInv /\ BaseInv' /\ UnusedNext
      BY <1>1, EveryStep DEF CatalogInv, LevelsInv
    <3> QED BY <2>2, <3>1, InUseKept
  <2> QED BY <1>1, <2>1, <2>2, EveryStep DEF CatalogInv, LevelsInv
<1> QED BY <1>1, CatalogInvariant, PTL DEF CatalogSpec, InUseStays
=============================================================================
