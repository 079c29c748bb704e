------------------------------ MODULE Catalog ------------------------------
(***************************************************************************)
(* CategoriesService, ProductsService, BrandsService, AttributesService    *)
(* and ShippingService: what they read before they accept, and the         *)
(* statements they then run.                                               *)
(*                                                                         *)
(* An update of a row that was read together with its parent keeps the     *)
(* parent: save() takes the loaded relation, not the new column.           *)
(***************************************************************************)
EXTENDS Tables

(* The column arrives only where no relation was loaded.                   *)
Kept(old, wanted) == IF old # None THEN old ELSE wanted

-----------------------------------------------------------------------------
(* Categories of three levels.                                             *)
ParentCategory(slug) == Plain(slug, NoRefs)
Category(slug, parent) == Plain(slug, [parent |-> parent])
SubCategory(slug, category) == Plain(slug, [category |-> category])

CreateParentCategory(h, slug) ==
  LET id == NewId("parent")
  IN  /\ WithKey("parent", slug) = {}
      /\ AcceptNew(h, id, <<Save(id, ParentCategory(slug))>>)

UpdateParentCategory(h, id, slug) ==
  /\ Has(id)
  /\ Renamed(id, slug)
  /\ AcceptOld(h, <<Save(id, [At(id) EXCEPT !.key = slug])>>)

ChildCategories(id) == {x \in RowsIn("category") : At(x).refs.parent = id}

RemoveParentCategory(h, id) ==
  /\ Has(id)
  /\ ChildCategories(id) = {}
  /\ AcceptOld(h, <<Drop(id)>>)

CreateCategory(h, parent, slug) ==
  LET id == NewId("category")
  IN  /\ Has(parent)
      /\ WithKey("category", slug) = {}
      /\ AcceptNew(h, id, <<Save(id, Category(slug, parent))>>)

(* findById loads the parent: another parentCategoryId is looked up, and   *)
(* lost.                                                                   *)
UpdateCategory(h, id, parent, slug) ==
  /\ Has(id) /\ Has(parent)
  /\ Renamed(id, slug)
  /\ AcceptOld(h, <<Save(id, [At(id) EXCEPT !.key = slug,
                                              !.refs.parent = Kept(@, parent)])>>)

RemoveCategory(h, id) == Has(id) /\ AcceptOld(h, <<Drop(id)>>)

WithSlugIn(category, slug) == {x \in WithKey("sub", slug) : At(x).refs.category = category}

CreateSubCategory(h, category, slug) ==
  LET id == NewId("sub")
  IN  /\ Has(category)
      /\ WithSlugIn(category, slug) = {}
      /\ AcceptNew(h, id, <<Save(id, SubCategory(slug, category))>>)

UpdateSubCategory(h, id, slug) ==
  /\ Has(id)
  /\ At(id).key = slug \/ WithSlugIn(At(id).refs.category, slug) = {}
  /\ AcceptOld(h, <<Save(id, [At(id) EXCEPT !.key = slug])>>)

RemoveSubCategory(h, id) == Has(id) /\ AcceptOld(h, <<Drop(id)>>)

-----------------------------------------------------------------------------
(* Links between products and categories.  A target is a sub-category, or  *)
(* a category.                                                             *)
Targets == RowsIn("category") \cup RowsIn("sub")

(* Mutant: the category of the sub-category is not looked up.              *)
AnyCategory(target) ==
  [category |-> CHOOSE c \in RowsIn("category") : TRUE,
   sub |-> IF target[1] = "sub" THEN target ELSE None]
(* resolveCategoryLink                                                     *)
Resolved(target) ==
  IF target[1] = "sub" THEN [category |-> At(target).refs.category, sub |-> target]
  ELSE [category |-> target, sub |-> None]

LinkRefs(product, target) ==
  [product |-> product, category |-> Resolved(target).category, sub |-> Resolved(target).sub]

SameLinks(refs) == {id \in RowsIn("link") : At(id).refs = refs}

ProductCategory(refs, primary) == [Plain(None, refs) EXCEPT !.flag = primary]

AssignProductCategory(h, product, target, primary) ==
  LET id == NewId("link")
      refs == LinkRefs(product, target)
  IN  /\ Has(product)
      /\ SameLinks(refs) = {}
      /\ AcceptNew(h, id, (IF primary THEN <<ClearPrimary(product, None)>> ELSE <<>>)
                          \o <<Save(id, ProductCategory(refs, primary))>>)

(* A turn of assignCategoryIdsToProduct.                                   *)
AssignStep(h) ==
  /\ In(h, "assign")
  /\ LET refs == LinkRefs(Step(h).id, Step(h).target)
     IN  IF Has(Step(h).target) /\ SameLinks(refs) = {}
         THEN /\ HasRoom("link")
              /\ used' = WithUsed("link")
              /\ Goto(h, <<Save(NewId("link"), ProductCategory(refs, FALSE))>> \o Tail(calls[h]))
         ELSE Goto(h, <<>>) /\ UNCHANGED used
  /\ UNCHANGED <<rows, requests, raced, cut, moved, approvals, merged>>

(* findById loads category and sub-category: of another target only the    *)
(* sub-category of a link without one arrives.                             *)
UpdateProductCategory(h, id, target, given, primary) ==
  LET old == At(id)
      refs == LinkRefs(old.refs.product, target)
  IN  /\ Has(id)
      /\ given \/ primary = old.flag
      /\ SameLinks(refs) \subseteq {id}
      /\ Accept(h, (IF given /\ primary THEN <<ClearPrimary(old.refs.product, id)>> ELSE <<>>)
                   \o <<Save(id, [old EXCEPT !.flag = primary,
                                             !.refs.category = Kept(@, refs.category),
                                             !.refs.sub = Kept(@, refs.sub)])>>)
      /\ moved' = moved \cup {x \in {id} : refs.category # old.refs.category}
      /\ UNCHANGED <<used, approvals>>

RemoveProductCategory(h, id) == Has(id) /\ AcceptOld(h, <<Drop(id)>>)

-----------------------------------------------------------------------------
Product(slug, brand, method, approved, number) ==
  Numbered(slug, [brand |-> brand, shipping |-> method], approved, number)

(* assertBrandExists                                                       *)
ActiveBrands == {id \in RowsIn("brand") : At(id).flag}

(* Mutant: the links are written before the stock.                         *)
StockLast(id, row, targets) == <<Save(id, row)>> \o targets \o <<UpsertStock(id)>>
CreationOf(id, row, targets) == <<Save(id, row), UpsertStock(id)>> \o targets

(* categoryIds: none, or one.                                              *)
Assignments(id, target) == IF target = None THEN <<>> ELSE <<Assign(id, target)>>

ApprovedAs(id, row) == {x \in {<<id, row.key>>} : row.flag}

(* approvalStatus may come with the request.                               *)
CreateProduct(h, slug, brand, method, approved, target) ==
  LET id == NewId("product")
      row == Product(slug, brand, method, approved, NextNumber("product"))
  IN  /\ WithKey("product", slug) = {}
      /\ HasRoom("product")
      /\ Accept(h, CreationOf(id, row, Assignments(id, target)))
      /\ used' = WithUsed("product")
      /\ UNCHANGED moved
      /\ approvals' = approvals \cup ApprovedAs(id, row)

(* Mutant: a change does not ask for approval again.                       *)
StaysApproved(row, approved) == row.flag \/ approved
PendingUnless(row, approved) == approved

(* The ids of a product are columns: no relation is loaded.  Its stock may *)
(* be left out.                                                            *)
UpdateProduct(h, id, slug, brand, method, approved, stock, target) ==
  LET row == Product(slug, brand, method, PendingUnless(At(id), approved), At(id).number)
  IN  /\ Has(id)
      /\ Renamed(id, slug)
      /\ Accept(h, <<Save(id, row)>> \o (IF stock THEN <<UpsertStock(id)>> ELSE <<>>)
                                     \o Assignments(id, target))
      /\ approvals' = approvals \cup {x \in ApprovedAs(id, row) : approved}
      /\ UNCHANGED <<used, moved>>

ReviewProduct(h, id, approved) ==
  LET row == [At(id) EXCEPT !.flag = approved]
  IN  /\ Has(id)
      /\ Accept(h, <<Save(id, row)>>)
      /\ approvals' = approvals \cup ApprovedAs(id, row)
      /\ UNCHANGED <<used, moved>>

(* OffersService.review: with an offer its product is approved.            *)
ApproveOffer(h, offer) ==
  /\ Has(offer)
  /\ ReviewProduct(h, At(offer).refs.product, TRUE)

RemoveProduct(h, id) == Has(id) /\ AcceptOld(h, <<Drop(id)>>)

-----------------------------------------------------------------------------
Brand(slug, active, number) == Numbered(slug, NoRefs, active, number)

Attribute(name, number) == Numbered(name, NoRefs, FALSE, number)

AttributeValue(value, attribute, number) ==
  Numbered(value, [attribute |-> attribute], FALSE, number)

ShippingMethod(slug, active) == [Plain(slug, NoRefs) EXCEPT !.flag = active]

CreateBrand(h, slug, active) ==
  LET id == NewId("brand")
  IN  /\ WithKey("brand", slug) = {}
      /\ AcceptNew(h, id, <<Save(id, Brand(slug, active, NextNumber("brand")))>>)

UpdateBrand(h, id, slug, active) ==
  /\ Has(id)
  /\ Renamed(id, slug)
  /\ AcceptOld(h, <<Save(id, Brand(slug, active, At(id).number))>>)

RemoveBrand(h, id) == Has(id) /\ AcceptOld(h, <<Drop(id)>>)

NameFree(name) == WithKey("attribute", name) = {}

CreateAttribute(h, name) ==
  LET id == NewId("attribute")
  IN  /\ NameFree(name)
      /\ AcceptNew(h, id, <<Save(id, Attribute(name, NextNumber("attribute")))>>)

UpdateAttribute(h, id, name) ==
  /\ Has(id)
  /\ Renamed(id, name)
  /\ AcceptOld(h, <<Save(id, Attribute(name, At(id).number))>>)

RemoveAttribute(h, id) == Has(id) /\ AcceptOld(h, <<Drop(id)>>)

ValuesOf(attribute, value) ==
  {id \in WithKey("value", value) : At(id).refs.attribute = attribute}

CreateValue(h, attribute, value) ==
  LET id == NewId("value")
  IN  /\ Has(attribute)
      /\ ValuesOf(attribute, value) = {}
      /\ AcceptNew(h, id, <<Save(id, AttributeValue(value, attribute, NextNumber("value")))>>)

UpdateValue(h, id, attribute, value) ==
  /\ Has(id) /\ Has(attribute)
  /\ ValuesOf(attribute, value) \subseteq {id}
  /\ AcceptOld(h, <<Save(id, AttributeValue(value, attribute, At(id).number))>>)

RemoveValue(h, id) == Has(id) /\ AcceptOld(h, <<Drop(id)>>)

-----------------------------------------------------------------------------
CreateShippingMethod(h, slug, active) ==
  LET id == NewId("shipping")
  IN  /\ WithKey("shipping", slug) = {}
      /\ AcceptNew(h, id, <<Save(id, ShippingMethod(slug, active))>>)

UpdateShippingMethod(h, id, slug, active) ==
  /\ Has(id)
  /\ Renamed(id, slug)
  /\ AcceptOld(h, <<Save(id, ShippingMethod(slug, active))>>)

Chosen(method) ==
  {id \in RowsIn("order") \cup RowsIn("product") : At(id).refs.shipping = method}

(* Mutant: only the orders are counted.                                    *)
NotOrdered(method) == Chosen(method) \cap RowsIn("order") = {}
(* countOrdersByShippingMethodId, countProductsByShippingMethodId          *)
NotInUse(method) == Chosen(method) = {}

RemoveShippingMethod(h, id) ==
  /\ Has(id)
  /\ NotInUse(id)
  /\ AcceptOld(h, <<Drop(id)>>)

(* OrdersService: an order with a method that is active.                   *)
PlaceOrder(h, method) ==
  LET id == NewId("order")
  IN  /\ At(method).flag
      /\ AcceptNew(h, id, <<Save(id, Plain(None, [shipping |-> method]))>>)

-----------------------------------------------------------------------------
CategoryRequest(h) ==
  \/ \E slug \in Names :
       \/ CreateParentCategory(h, slug)
       \/ \E id \in RowsIn("parent") : UpdateParentCategory(h, id, slug)
       \/ \E parent \in RowsIn("parent") :
            \/ CreateCategory(h, parent, slug)
            \/ \E id \in RowsIn("category") : UpdateCategory(h, id, parent, slug)
       \/ \E category \in RowsIn("category") : CreateSubCategory(h, category, slug)
       \/ \E id \in RowsIn("sub") : UpdateSubCategory(h, id, slug)
  \/ \E id \in RowsIn("parent") : RemoveParentCategory(h, id)
  \/ \E id \in RowsIn("category") : RemoveCategory(h, id)
  \/ \E id \in RowsIn("sub") : RemoveSubCategory(h, id)
  \/ \E target \in Targets, primary \in BOOLEAN :
       \/ \E product \in RowsIn("product") : AssignProductCategory(h, product, target, primary)
       \/ \E id \in RowsIn("link"), given \in BOOLEAN :
            UpdateProductCategory(h, id, target, given, primary)
  \/ \E id \in RowsIn("link") : RemoveProductCategory(h, id)

ProductRequest(h) ==
  \/ \E slug \in Names, method \in RowsIn("shipping") \cup {None}, approved \in BOOLEAN,
        target \in Targets \cup {None} :
       \/ \E brand \in ActiveBrands \cup {None} :
            CreateProduct(h, slug, brand, method, approved, target)
       \/ \E id \in RowsIn("product"), stock \in BOOLEAN :
            \E brand \in ActiveBrands \cup {At(id).refs.brand, None} :
              UpdateProduct(h, id, slug, brand, method, approved, stock, target)
  \/ \E id \in RowsIn("product") :
       RemoveProduct(h, id) \/ \E approved \in BOOLEAN : ReviewProduct(h, id, approved)
  \/ \E offer \in RowsIn("offer") : ApproveOffer(h, offer)

ReferenceRequest(h) ==
  \/ \E name \in Names, active \in BOOLEAN :
       \/ CreateBrand(h, name, active)
       \/ CreateShippingMethod(h, name, active)
       \/ \E id \in RowsIn("brand") : UpdateBrand(h, id, name, active)
       \/ \E id \in RowsIn("shipping") : UpdateShippingMethod(h, id, name, active)
  \/ \E name \in Names :
       \/ CreateAttribute(h, name)
       \/ \E id \in RowsIn("attribute") :
            \/ UpdateAttribute(h, id, name)
            \/ CreateValue(h, id, name)
            \/ \E value \in RowsIn("value") : UpdateValue(h, value, id, name)
  \/ \E id \in RowsIn("brand") : RemoveBrand(h, id)
  \/ \E id \in RowsIn("attribute") : RemoveAttribute(h, id)
  \/ \E id \in RowsIn("value") : RemoveValue(h, id)
  \/ \E id \in RowsIn("shipping") : RemoveShippingMethod(h, id) \/ PlaceOrder(h, id)

-----------------------------------------------------------------------------
(* Types; and whatever overlaps, every reference but the attribute of a    *)
(* value leads to a row, and every unique index holds.                     *)
CatalogTypeOK ==
  /\ DOMAIN rows = TableNames
  /\ \A t \in TableNames : rows[t] \in [1..Slots[t] -> RowOf(t) \cup {None}]
  /\ \A t \in TableNames : used[t] \in 0..Slots[t]
  /\ requests \in 0..MaxRequests
  /\ moved \subseteq Ids /\ cut \subseteq Ids
  /\ \A id \in Ids : Has(id) => RefsExist(id[1], At(id)) /\ ~Clash(id, At(id))

(* A product has its stock row as soon as the request that creates it is   *)
(* done, also when one of its categories is refused; unless it stopped.    *)
ProductHasStock ==
  \A product \in RowsIn("product") \ (cut \cup raced) :
    \/ \E h \in Handlers : product \in StockAwaited(h)
    \/ \E id \in RowsIn("stock") : At(id).refs.product = product

(* A shipping method that an order or product has chosen is not removed,   *)
(* nor a parent that has categories; the first only if requests that use   *)
(* and remove it do not overlap.                                           *)
InUseStays ==
  [][/\ \A id \in IdsOf("shipping") \ raced' : Has(id) /\ At(id)' = None => Chosen(id) = {}
     /\ \A id \in IdsOf("parent") : Has(id) /\ At(id)' = None => ChildCategories(id) = {}]_rows

(* What no index guards is still there once: the primary link of a         *)
(* product, names of attributes and slugs of products, unless two requests *)
(* overlap: clearing the other links and writing the new one are two       *)
(* statements, and so are looking for a name and taking it.                *)
UniqueByCode ==
  /\ \A product \in RowsIn("product") \ raced :
       Cardinality({id \in LinksOf(product) : At(id).flag}) <= 1
  /\ \A t \in {"attribute", "product"}, name \in Names :
       <<t, name>> \notin raced /\ WithKey(t, name) \cap raced = {} =>
         Cardinality(WithKey(t, name)) <= 1

(* What is approved was read or written as a whole by a request that set   *)
(* approvalStatus to approved: a review, the review of an offer, or a      *)
(* creation or an update that bears the status, whoever sends it.  The one *)
(* exception is a row whose columns come from two requests: when content   *)
(* is committed between the SELECT and the UPDATE of an approval, or an    *)
(* approval between those of an update of a product that was pending       *)
(* already, the row has that content, approved, and nobody has read it so. *)
ApprovedAsRead ==
  \A id \in RowsIn("product") :
    At(id).flag => <<id, At(id).key>> \in approvals \cup merged
=============================================================================
