----------------------------- MODULE Migrations -----------------------------
(***************************************************************************)
(* What the thirty migrations do to a database, statement by statement.    *)
(*                                                                         *)
(* A database is a set of things: tables, the columns, foreign keys and    *)
(* indexes that some migration asks for, adds or drops, and the rows that  *)
(* people have entered.  MySQL commits every DDL statement by itself, so   *)
(* a start that is cut off leaves the first statements of a migration      *)
(* behind, and the next start runs the same migration from its beginning.  *)
(***************************************************************************)
EXTENDS Integers, Sequences, SequencesExt

Table(t) == <<"table", t, "">>
Column(t, c) == <<"column", t, c>>
ForeignKey(t, c) == <<"foreign key", t, c>>
Unique(t, c) == <<"unique", t, c>>
Index(t, c) == <<"index", t, c>>
Rows(t) == <<"rows", t, "">>
\* rows of a certain kind, or a column that has been filled
These(t, what) == <<"rows", t, what>>

(* A step of a migration.  A "statement" is run when "with" is there and   *)
(* "without" is not; it fails when what it needs is missing or what it     *)
(* makes is there already, and a failure is swallowed when it is soft.     *)
(* A "block" puts its steps in front of the rest; "unlink" drops the       *)
(* foreign keys one by one; "rename" renames a table.                      *)
Statement ==
  [op |-> "statement", with |-> {}, without |-> {}, needs |-> {}, makes |-> {},
   puts |-> {}, takes |-> {}, soft |-> FALSE, steps |-> <<>>]

Make(things, needs) == [Statement EXCEPT !.makes = things, !.needs = needs]
Take(things) == [Statement EXCEPT !.takes = things]
Put(things) == [Statement EXCEPT !.puts = things]
Move(from, to) == [Statement EXCEPT !.with = {from}, !.takes = {from}, !.puts = {to}]
Soft(step) == [step EXCEPT !.soft = TRUE]
With(things, step) == [step EXCEPT !.with = @ \cup things]
Without(things, step) == [step EXCEPT !.without = @ \cup things]
Block(with, without, steps) ==
  [Statement EXCEPT !.op = "block", !.with = with, !.without = without, !.steps = steps]

(* CREATE TABLE with the tables its foreign keys point to.                 *)
Create(t, links, more) ==
  Make({Table(t)} \cup {ForeignKey(t, link[1]) : link \in links} \cup more,
       {Table(link[2]) : link \in links})

\* Mutant: without a look at what is there.
CreateAnyway(t, links, more) == Create(t, links, more)
CreateIfMissing(t, links, more) == Without({Table(t)}, Create(t, links, more))

AddColumn(t, c) == Make({Column(t, c)}, {Table(t)})
AddColumnIfMissing(t, c) == Without({Column(t, c)}, AddColumn(t, c))
AddForeignKey(t, c, to) == Make({ForeignKey(t, c)}, {Table(t), Table(to)})

-----------------------------------------------------------------------------
(* The baseline.                                                           *)
AccountTables == <<
  Create("sellers", {}, {}),
  Create("roles", {<<"sellerId", "sellers">>}, {}),
  Create("users", {<<"roleId", "roles">>, <<"sellerId", "sellers">>}, {}),
  Create("refresh_tokens", {<<"userId", "users">>}, {}),
  Create("user_profiles", {<<"userId", "users">>}, {}),
  Create("user_addresses", {<<"userId", "users">>}, {}),
  Create("seller_contracts", {<<"sellerId", "sellers">>}, {})>>

ReferenceTables == <<
  Create("countries", {}, {}),
  Create("states", {<<"countryId", "countries">>}, {}),
  Create("cities", {<<"countryId", "countries">>, <<"stateId", "states">>}, {}),
  Create("brands", {}, {Column("brands", "nameEn"), Column("brands", "logoUrl"),
                        Column("brands", "seoDescription")}),
  Create("parent_categories", {},
         {Column("parent_categories", "icon"), Column("parent_categories", "image")}),
  Create("categories", {<<"parentCategoryId", "parent_categories">>},
         {Column("categories", "parentCategoryId"), Index("categories", "parentCategoryId"),
          Column("categories", "icon"), Column("categories", "image")}),
  Create("sub_categories", {<<"categoryId", "categories">>},
         {Column("sub_categories", "icon"), Column("sub_categories", "image")}),
  Create("attributes", {}, {}),
  Create("attribute_values", {<<"attributeId", "attributes">>}, {})>>

ProductTables == <<
  Create("shipping_methods", {}, {}),
  Create("products", {<<"brandId", "brands">>, <<"shippingMethodId", "shipping_methods">>},
         {Column("products", "shippingMethodId"), Index("products", "shippingMethodId"),
          Unique("products", "slug"), Unique("products", "sku")}),
  Create("product_stocks", {<<"productId", "products">>}, {}),
  Create("product_variants", {<<"product_id", "products">>}, {}),
  Create("product_categories", {<<"productId", "products">>, <<"categoryId", "categories">>,
                                <<"subCategoryId", "sub_categories">>}, {})>>

SalesTables == <<
  Create("seller_offers", {<<"sellerId", "sellers">>, <<"productId", "products">>},
         {Index("seller_offers", "sellerId"), Unique("seller_offers", "sku")}),
  Create("orders", {<<"userId", "users">>, <<"shippingMethodId", "shipping_methods">>}, {}),
  Create("order_items", {<<"orderId", "orders">>, <<"productId", "products">>,
                         <<"offerId", "seller_offers">>}, {}),
  Create("payments", {<<"orderId", "orders">>},
         {Column("payments", "authority"), Unique("payments", "orderId")})>>

SettingsTables == <<
  Create("header_settings", {}, {}),
  Create("footer_settings", {},
         {Column("footer_settings", c) :
            c \in {"logoUrl", "logoText", "menuLinks", "enamadUrls", "aboutUs"}}),
  Create("banners", {<<"categoryId", "categories">>}, {}),
  Make({Unique("banners", "home section")}, {Table("banners")}),
  Make({Unique("banners", "category section")}, {Table("banners")}),
  Create("about_us", {}, {}),
  Create("contact_settings", {}, {}),
  Create("contact_messages", {}, {})>>

(* Sellers is the first table it creates, and the one it asks for.         *)
InitMariaDbSchema ==
  <<Block({}, {Table("sellers")},
          AccountTables \o ReferenceTables \o ProductTables \o SalesTables \o SettingsTables)>>

EnforceUniqueSkuSlug == <<
  With({}, [Put({}) EXCEPT !.needs = {Table("products")}]),
  Without({Index("seller_offers", "sellerId")},
          Make({Index("seller_offers", "sellerId")}, {Table("seller_offers")})),
  Without({Unique("seller_offers", "sku")},
          Make({Unique("seller_offers", "sku")}, {Table("seller_offers")})),
  Take({Unique("seller_offers", "sellerId, sku")})>>

AddParentCategories == <<
  Without({Table("parent_categories")}, Make({Table("parent_categories")}, {})),
  Put({These("parent_categories", "digital")}),
  AddColumnIfMissing("categories", "parentCategoryId"),
  Put({These("categories", "parentCategoryId")}),
  Without({Index("categories", "parentCategoryId")},
          Make({Index("categories", "parentCategoryId")}, {Table("categories")})),
  Without({ForeignKey("categories", "parentCategoryId")},
          AddForeignKey("categories", "parentCategoryId", "parent_categories"))>>

CreateMediaAssets == <<
  CreateIfMissing("media_assets",
    {<<"sellerId", "sellers">>, <<"uploadedByUserId", "users">>, <<"productId", "products">>},
    {Column("media_assets", "group"), Index("media_assets", "group"),
     Column("media_assets", "alt")})>>

AddMediaAssetGroup == <<
  AddColumnIfMissing("media_assets", "group"),
  Without({Index("media_assets", "group")},
          Make({Index("media_assets", "group")}, {Table("media_assets")}))>>

AddMediaAssetAlt == <<AddColumnIfMissing("media_assets", "alt")>>

ExtendBrandsCatalogFields == <<
  AddColumnIfMissing("brands", "nameEn"),
  AddColumnIfMissing("brands", "logoUrl"),
  AddColumnIfMissing("brands", "seoDescription"),
  Block({Column("brands", "description")}, {},
        <<With({These("brands", "description")}, Put({These("brands", "seoDescription")})),
          Take({Column("brands", "description"), These("brands", "description")})>>)>>

AddCategoryIconImageUrls ==
  FlattenSeq([i \in 1..3 |->
    LET t == <<"parent_categories", "categories", "sub_categories">>[i]
    IN  <<AddColumnIfMissing(t, "icon"), AddColumnIfMissing(t, "image")>>])

CreateShoppingCarts == <<
  CreateIfMissing("shopping_carts", {<<"userId", "users">>}, {}),
  CreateIfMissing("shopping_cart_items",
                  {<<"cartId", "shopping_carts">>, <<"offerId", "seller_offers">>}, {})>>

ExtendFooterLogoAndMenuLinks == <<
  AddColumnIfMissing("footer_settings", "logoUrl"),
  AddColumnIfMissing("footer_settings", "logoText"),
  AddColumnIfMissing("footer_settings", "menuLinks")>>

AddFooterEnamadUrls == <<AddColumnIfMissing("footer_settings", "enamadUrls")>>
AddFooterAboutUs == <<AddColumnIfMissing("footer_settings", "aboutUs")>>

-----------------------------------------------------------------------------
(* From UUIDs to ULIDs: the rows of these tables are not converted.        *)
TablesToTruncate == <<
  "order_items", "payments", "orders", "seller_offers", "product_categories",
  "product_stocks", "product_variants", "products", "media_assets", "banners",
  "contact_messages", "sub_categories", "categories", "parent_categories", "brands",
  "attributes", "seller_contracts", "refresh_tokens", "user_addresses",
  "user_profiles", "users", "roles", "sellers", "shipping_methods", "cities",
  "states", "countries", "legacy_id_map">>

(* The rows with everything that is told of them.                          *)
RowsOfTable(t) ==
  {Rows(t)} \cup {These(t, what) : what \in {"digital", "parentCategoryId", "description",
                                             "seoDescription", "legacy-import", "moved"}}

ForeignKeysToRecreate == <<
  <<"roles", "sellerId", "sellers">>, <<"users", "roleId", "roles">>,
  <<"users", "sellerId", "sellers">>, <<"refresh_tokens", "userId", "users">>,
  <<"user_profiles", "userId", "users">>, <<"user_addresses", "userId", "users">>,
  <<"seller_contracts", "sellerId", "sellers">>, <<"states", "countryId", "countries">>,
  <<"cities", "countryId", "countries">>, <<"cities", "stateId", "states">>,
  <<"categories", "parentCategoryId", "parent_categories">>,
  <<"sub_categories", "categoryId", "categories">>, <<"products", "brandId", "brands">>,
  <<"product_stocks", "productId", "products">>,
  <<"product_variants", "product_id", "products">>,
  <<"product_categories", "productId", "products">>,
  <<"product_categories", "categoryId", "categories">>,
  <<"product_categories", "subCategoryId", "sub_categories">>,
  <<"seller_offers", "sellerId", "sellers">>, <<"seller_offers", "productId", "products">>,
  <<"orders", "userId", "users">>, <<"orders", "shippingMethodId", "shipping_methods">>,
  <<"order_items", "orderId", "orders">>, <<"order_items", "productId", "products">>,
  <<"order_items", "offerId", "seller_offers">>, <<"payments", "orderId", "orders">>,
  <<"banners", "categoryId", "categories">>>>

\* Mutant: dropped and not made again.
ConvertWithoutForeignKeys ==
  <<[Statement EXCEPT !.op = "unlink"]>>
  \o [i \in DOMAIN TablesToTruncate |->
       With({Table(TablesToTruncate[i])}, Take(RowsOfTable(TablesToTruncate[i])))]
ConvertUuidColumnsToUlid ==
  <<[Statement EXCEPT !.op = "unlink"]>>
  \o [i \in DOMAIN TablesToTruncate |->
       With({Table(TablesToTruncate[i])}, Take(RowsOfTable(TablesToTruncate[i])))]
  \o [i \in DOMAIN ForeignKeysToRecreate |->
       LET fk == ForeignKeysToRecreate[i] IN Soft(AddForeignKey(fk[1], fk[2], fk[3]))]

DropOfferProducts == <<Take({Table("offer_products"), Rows("offer_products")})>>

ProductShippingMethodId == <<
  AddColumnIfMissing("products", "shippingMethodId"),
  Without({Index("products", "shippingMethodId")},
          Make({Index("products", "shippingMethodId")}, {Table("products")})),
  Block({Column("products", "shippingMethod")}, {},
        <<With({Rows("products")}, Put({These("products", "shippingMethodId")})),
          Take({Column("products", "shippingMethod")})>>),
  Without({ForeignKey("products", "shippingMethodId")},
          AddForeignKey("products", "shippingMethodId", "shipping_methods"))>>

CreateAttributeValues ==
  <<CreateIfMissing("attribute_values", {<<"attributeId", "attributes">>}, {})>>

(* The categories below the parent of an earlier import become parents,    *)
(* their sub-categories categories, and the links follow.                  *)
LegacyParent == These("parent_categories", "legacy-import")
BelowLegacy(t) == These(t, "legacy-import")
Moved(t) == These(t, "moved")

RemoveLegacyImportParent == <<
  Block({LegacyParent, BelowLegacy("categories")}, {}, <<
    Put({Moved("parent_categories")}),
    With({BelowLegacy("sub_categories")}, Put({Moved("categories")})),
    Move(BelowLegacy("product_categories"), Moved("product_categories")),
    Take({BelowLegacy("categories")}),
    Take({BelowLegacy("sub_categories")}),
    Take({LegacyParent})>>),
  Block({LegacyParent}, {BelowLegacy("categories")}, <<Take({LegacyParent})>>)>>

-----------------------------------------------------------------------------
CreateCreditLogs == Create("credit_logs", {<<"userId", "users">>}, {})

CheckoutCreditAndOrderAddress == <<
  Block({Table("orders")}, {Column("orders", "addressId")},
        <<AddColumn("orders", "addressId"),
          AddForeignKey("orders", "addressId", "user_addresses")>>),
  With({Table("orders")}, AddColumnIfMissing("orders", "shippingMethodIds")),
  CreateIfMissing("user_credits", {<<"userId", "users">>},
                  {Column("user_credits", "amount"), Column("user_credits", "lockedAmount")}),
  Without({Table("credit_logs")}, CreateCreditLogs)>>

CreateNewsletterSubscriptions ==
  <<CreateIfMissing("newsletter_subscriptions", {<<"userId", "users">>}, {})>>

(* Not to be run a second time once the column is there.                   *)
CreateAdmins == <<
  CreateIfMissing("admins", {}, {}),
  AddColumn("users", "adminId"),
  AddForeignKey("users", "adminId", "admins"),
  Make({Index("users", "adminId")}, {Table("users")})>>

(* Nor this one.                                                           *)
AddRoleAudience == <<
  AddColumn("roles", "audience"),
  Put({These("roles", "audience")}),
  Put({These("roles", "audience of sellers")}),
  Put({These("roles", "audience of admins")})>>

AddLegacySourceToSellersAndAdmins ==
  FlattenSeq([i \in 1..2 |->
    LET t == <<"sellers", "admins">>[i]
    IN  <<AddColumnIfMissing(t, "legacyId"), AddColumnIfMissing(t, "legacyTable"),
          Without({Unique(t, "legacyId")}, Make({Unique(t, "legacyId")}, {Table(t)}))>>])

AllowNullableDuplicateProductSkus == <<Take({Unique("products", "sku")}), Put({})>>

\* Mutant: the ledger is not copied.
DropCreditLedger == <<
  Without({Table("credit_logs")}, CreateCreditLogs),
  Take({Table("credit_ledger"), Rows("credit_ledger"), ForeignKey("credit_ledger", "userId")})>>
(* The ledger is copied after the table for it is made: a start cut off in *)
(* between finds both tables and drops the ledger.                         *)
RefactorCreditLockedAndLog == <<
  Block({Table("user_credits"), Column("user_credits", "balance")},
        {Column("user_credits", "amount")},
        <<[Statement EXCEPT !.takes = {Column("user_credits", "balance")},
                            !.puts = {Column("user_credits", "amount")}]>>),
  With({Table("user_credits")}, AddColumnIfMissing("user_credits", "lockedAmount")),
  Block({Table("credit_ledger")}, {Table("credit_logs")}, <<
    CreateCreditLogs,
    With({Rows("credit_ledger")}, Put({Rows("credit_logs")})),
    Take({Table("credit_ledger"), Rows("credit_ledger")})>>),
  Without({Table("credit_logs")}, CreateCreditLogs),
  Take({Table("credit_ledger"), Rows("credit_ledger"), ForeignKey("credit_ledger", "userId")})>>

CreditIntegerAndRenameDeposits == <<
  With({Table("user_credits")}, Put({These("user_credits", "whole")})),
  With({Table("credit_logs")}, Put({These("credit_logs", "whole")})),
  [Statement EXCEPT !.op = "rename", !.with = {Table("payments")},
                    !.without = {Table("deposits")}],
  Block({Table("deposits"), Column("deposits", "authority")}, {Column("deposits", "trackId")},
        <<[Statement EXCEPT !.takes = {Column("deposits", "authority")},
                            !.puts = {Column("deposits", "trackId")}]>>)>>

(* One ALTER, not to be run a second time.                                 *)
ExtendSellerOffersForLegacyVariants == <<
  Make({Column("seller_offers", c) :
          c \in {"legacyId", "legacyTable", "minPrice", "maxPrice", "isVirtual", "isDownloadable",
                 "description", "weight", "length", "width", "height", "image"}}
       \cup {Unique("seller_offers", "legacyId")}, {Table("seller_offers")}),
  Take({Unique("seller_offers", "sku")})>>

AddSellerOfferLegacySourceId ==
  <<Make({Column("seller_offers", "legacySourceId"), Unique("seller_offers", "legacySourceId")},
         {Table("seller_offers")})>>

(* The users of deposits are filled in behind the guard that asks for the  *)
(* column, and the reference to the order is made again only where its     *)
(* index is not there.                                                     *)
DepositsWithdrawsTransactions == <<
  Block({Table("deposits")}, {}, <<
    Take({ForeignKey("deposits", "orderId")}),
    Take({Unique("deposits", "orderId")})>>),
  Block({Table("deposits")}, {Column("deposits", "userId")}, <<
    AddColumn("deposits", "userId"),
    Put({These("deposits", "userId")}),
    Make({Index("deposits", "userId"), ForeignKey("deposits", "userId")}, {Table("users")})>>),
  With({Table("deposits")},
       Soft(Make({Index("deposits", "orderId"), ForeignKey("deposits", "orderId")},
                 {Table("orders")}))),
  CreateIfMissing("withdraws", {<<"userId", "users">>}, {}),
  CreateIfMissing("transactions", {<<"userId", "users">>, <<"orderId", "orders">>}, {})>>

AllowLongLegacyCatalogDescriptions == <<
  [Put({These("products", "long")}) EXCEPT !.needs = {Table("products")}],
  [Put({These("seller_offers", "long")}) EXCEPT !.needs = {Table("seller_offers")}]>>

RemoveProductSlugDatabaseUniqueness == <<
  Take({Unique("products", "slug"), Index("products", "slug")}),
  Make({Index("products", "slug")}, {Table("products")})>>

Migrations == <<
  InitMariaDbSchema, EnforceUniqueSkuSlug, AddParentCategories, CreateMediaAssets,
  AddMediaAssetGroup, AddMediaAssetAlt, ExtendBrandsCatalogFields, AddCategoryIconImageUrls,
  CreateShoppingCarts, ExtendFooterLogoAndMenuLinks, AddFooterEnamadUrls, AddFooterAboutUs,
  ConvertUuidColumnsToUlid, DropOfferProducts, ProductShippingMethodId, CreateAttributeValues,
  RemoveLegacyImportParent, CheckoutCreditAndOrderAddress, CreateNewsletterSubscriptions,
  CreateAdmins, AddRoleAudience, AddLegacySourceToSellersAndAdmins,
  AllowNullableDuplicateProductSkus, RefactorCreditLockedAndLog,
  CreditIntegerAndRenameDeposits, ExtendSellerOffersForLegacyVariants,
  AddSellerOfferLegacySourceId, DepositsWithdrawsTransactions,
  AllowLongLegacyCatalogDescriptions, RemoveProductSlugDatabaseUniqueness>>

-----------------------------------------------------------------------------
Runs(step, db) == step.with \subseteq db /\ step.without \cap db = {}

(* What it asks of a table that is not there fails as well.                *)
Fails(step, db) ==
  /\ step.with \subseteq db
  /\ \/ ~(step.needs \subseteq db)
     \/ Runs(step, db) /\ step.makes \cap db # {}

Renamed(x) == IF x[2] = "payments" THEN <<x[1], "deposits", x[3]>> ELSE x

ForeignKeysIn(db) == {x \in db : x[1] = "foreign key"}

(* The database after a step that did not fail.                            *)
Done(step, db) ==
  IF ~Runs(step, db) \/ step.op = "block" THEN db
  ELSE IF step.op = "rename" THEN {Renamed(x) : x \in db}
  ELSE IF step.op = "unlink" THEN db \ ForeignKeysIn(db)
  ELSE (db \ step.takes) \cup step.makes \cup step.puts

(* The databases, one of a kind, after all statements of the first n       *)
(* migrations.                                                             *)
AfterStep(step, db) ==
  IF step.op = "block" /\ Runs(step, db)
  THEN FoldLeft(LAMBDA d, s : Done(s, d), db, step.steps)
  ELSE Done(step, db)

AfterAll(steps, dbs) ==
  FoldLeft(LAMBDA ds, step : {AfterStep(step, d) : d \in ds}, dbs, steps)

DatabasesAfter[n \in Nat] ==
  IF n = 0 THEN {{}} ELSE UNION {AfterAll(Migrations[n], {d}) : d \in DatabasesAfter[n - 1]}

AfterMigrations(n) == CHOOSE d \in DatabasesAfter[n] : TRUE
=============================================================================
