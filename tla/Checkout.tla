------------------------------ MODULE Checkout ------------------------------
(***************************************************************************)
(* ShoppingCartService, OrdersService.create and checkoutFromCart, and the *)
(* stock and price side of OffersService and ProductsService.              *)
(*                                                                         *)
(* A cart operation reads a row and saves it later; a checkout reads the   *)
(* cart, then each offer, and only then opens the transaction that takes   *)
(* the stock, inserts the order and deletes the cart rows.  A seller's     *)
(* edit loads the offer and saves it later, all columns that differ from   *)
(* the stored row included.  calls[h] is what request h has read so far.   *)
(***************************************************************************)
EXTENDS Integers, Sequences, FiniteSets, FiniteSetsExt, RowSums

CONSTANTS
  Customers, Offers, Products,
  ProductOf,        \* ProductOf[o]: the product an offer sells
  OfferStock,       \* OfferStock[o]: seller_offers.stock at the start
  ProductStock,     \* ProductStock[p]: product_stocks.stock at the start
  Prices,           \* prices a seller may ask
  Quantities,       \* quantities a customer may ask for
  EditedOffers,     \* the offers that sellers and admins edit
  EditedProducts,   \* the products that admins edit
  RestockOffers,    \* stock a seller may write into an offer
  RestockProducts,  \* stock an admin may write into a product
  Handlers,
  MaxItems,         \* bound: rows of shopping_cart_items explored
  MaxOrders         \* bound: rows of orders explored

ASSUME CheckoutAssumption ==
  /\ IsFiniteSet(Offers)
  /\ ProductOf \in [Offers -> Products]
  /\ OfferStock \in [Offers -> Nat]
  /\ ProductStock \in [Products -> Nat]
  /\ Prices \subseteq Nat \ {0}
  /\ Quantities \subseteq Nat \ {0}
  /\ RestockOffers \subseteq Nat
  /\ RestockProducts \subseteq Nat
  /\ EditedOffers \subseteq Offers
  /\ EditedProducts \subseteq Products
  /\ MaxItems \in Nat
  /\ MaxOrders \in Nat

VARIABLES
  offers,         \* offers[o] = [price, stock, instock, active]
  productStocks,  \* productStocks[p]: the row of product_stocks
  published,      \* published[p]: product published, approved and active
  cartItems,      \* every cart row ever inserted; quantity 0: deleted
  orders,         \* the rows of orders, with their items
  calls           \* the request each handler is in the middle of

checkoutVars == <<offers, productStocks, published, cartItems, orders, calls>>

(* active stands for isActive, approvalStatus = 'approved' and an active   *)
(* seller; instock for stockStatus = 'instock'.                            *)
Offer == [price : Prices, stock : Nat, instock : BOOLEAN, active : BOOLEAN]

CartItem == [customer : Customers, offer : Offers, quantity : Nat]

(* quantity[o] = 0: the offer is not in the order.  rows is history: the   *)
(* cart rows the order was made from.                                      *)
Order ==
  [customer : Customers, quantity : [Offers -> Nat], price : [Offers -> Nat],
   rows : SUBSET (1..MaxItems)]

Idle == [op |-> "idle"]

Call ==
  {Idle}
  \cup [op : {"save"}, row : 0..MaxItems, customer : Customers, offer : Offers,
        quantity : Nat]
  \cup [op : {"buy"}, customer : Customers, quantity : [Offers -> Nat],
        price : [Offers -> Nat], rows : SUBSET (1..MaxItems)]
  \cup [op : {"edit", "approve"}, offer : Offers, loaded : Offer]

-----------------------------------------------------------------------------
Accept(h, call) ==
  /\ calls[h] = Idle
  /\ calls' = [calls EXCEPT ![h] = call]

Reply(h) == calls' = [calls EXCEPT ![h] = Idle]

In(h, op) == calls[h].op = op

(* resolvePurchasable: what the cart and the checkout ask of an offer when *)
(* they read it.                                                           *)
Purchasable(o, q) ==
  /\ offers[o].active
  /\ published[ProductOf[o]]
  /\ offers[o].instock
  /\ offers[o].stock >= q

RowsOf(c) == {i \in DOMAIN cartItems : cartItems[i].customer = c /\ cartItems[i].quantity > 0}

RowsFor(c, o) == {i \in RowsOf(c) : cartItems[i].offer = o}

(* addItem: the quantity is added to that of the row found, if any.        *)
ReadToAdd(h, c, o, q) ==
  LET row == IF RowsFor(c, o) = {} THEN 0 ELSE Max(RowsFor(c, o))
      total == IF row = 0 THEN q ELSE cartItems[row].quantity + q
  IN  /\ Purchasable(o, total)
      /\ Accept(h, [op |-> "save", row |-> row, customer |-> c, offer |-> o,
                    quantity |-> total])
      /\ UNCHANGED <<offers, productStocks, published, cartItems, orders>>

(* updateItem: the quantity replaces that of the row.                      *)
ReadToUpdate(h, i, q) ==
  /\ cartItems[i].quantity > 0
  /\ Purchasable(cartItems[i].offer, q)
  /\ Accept(h, [op |-> "save", row |-> i, customer |-> cartItems[i].customer,
                offer |-> cartItems[i].offer, quantity |-> q])
  /\ UNCHANGED <<offers, productStocks, published, cartItems, orders>>

(* items.save: updates the row by its id, and inserts it (again) if it is  *)
(* not there.  UNIQUE(cartId, offerId) refuses a second row for the offer. *)
SaveItem(h) ==
  /\ In(h, "save")
  /\ LET c == calls[h]
         item == [customer |-> c.customer, offer |-> c.offer, quantity |-> c.quantity]
     IN  \/ /\ RowsFor(c.customer, c.offer) \ {c.row} # {}
            /\ UNCHANGED cartItems
         \/ /\ RowsFor(c.customer, c.offer) \ {c.row} = {}
            /\ c.row # 0
            /\ cartItems' = [cartItems EXCEPT ![c.row] = item]
         \/ /\ RowsFor(c.customer, c.offer) \ {c.row} = {}
            /\ c.row = 0
            /\ Len(cartItems) < MaxItems
            /\ cartItems' = Append(cartItems, item)
  /\ Reply(h)
  /\ UNCHANGED <<offers, productStocks, published, orders>>

WithoutRows(rows) ==
  [i \in DOMAIN cartItems |->
     IF i \in rows THEN [cartItems[i] EXCEPT !.quantity = 0] ELSE cartItems[i]]

(* removeItem and clear each end in one DELETE.                            *)
RemoveItem(i) ==
  /\ cartItems[i].quantity > 0
  /\ cartItems' = WithoutRows({i})
  /\ UNCHANGED <<offers, productStocks, published, orders, calls>>

Clear(c) ==
  /\ RowsOf(c) # {}
  /\ cartItems' = WithoutRows(RowsOf(c))
  /\ UNCHANGED <<offers, productStocks, published, orders, calls>>

-----------------------------------------------------------------------------
NoPrices == [o \in Offers |-> 0]

InRows(rows, o) ==
  IF \E i \in rows : cartItems[i].offer = o
  THEN cartItems[CHOOSE i \in rows : cartItems[i].offer = o].quantity
  ELSE 0

(* checkoutFromCart reads the cart; create takes its items from the body.  *)
ReadCart(h, c) ==
  /\ RowsOf(c) # {}
  /\ Accept(h, [op |-> "buy", customer |-> c, price |-> NoPrices, rows |-> RowsOf(c),
                quantity |-> [o \in Offers |-> InRows(RowsOf(c), o)]])
  /\ UNCHANGED <<offers, productStocks, published, cartItems, orders>>

ReadBody(h, c, o, q) ==
  /\ Accept(h, [op |-> "buy", customer |-> c, price |-> NoPrices, rows |-> {},
                quantity |-> [NoPrices EXCEPT ![o] = q]])
  /\ UNCHANGED <<offers, productStocks, published, cartItems, orders>>

Wanted(call) == {o \in Offers : call.quantity[o] > 0}
Priced(call) == {o \in Offers : call.price[o] > 0}

(* resolvePurchasable of one item, at its own time; the first that is not  *)
(* available ends the request.                                             *)
ResolveItem(h, o) ==
  /\ In(h, "buy")
  /\ o \in Wanted(calls[h]) \ Priced(calls[h])
  /\ \/ /\ Purchasable(o, calls[h].quantity[o])
        /\ calls' = [calls EXCEPT ![h].price[o] = offers[o].price]
     \/ /\ ~Purchasable(o, calls[h].quantity[o])
        /\ Reply(h)
  /\ UNCHANGED <<offers, productStocks, published, cartItems, orders>>

(* Mutant: the product's own counter is not asked.                         *)
InStockOfferOnly(quantity) ==
  \A o \in Offers :
    quantity[o] > 0 => offers[o].instock /\ offers[o].stock >= quantity[o]

OfProduct(quantity, p) ==
  MapThenSumSet(LAMBDA o : quantity[o], {o \in Offers : ProductOf[o] = p})

(* The WHERE clauses of tryDecrementStock and tryDecrement, item by item   *)
(* in one transaction; one that matches no row rolls everything back.      *)
InStock(quantity) ==
  /\ \A o \in Offers :
       quantity[o] > 0 => offers[o].instock /\ offers[o].stock >= quantity[o]
  /\ \A p \in Products : productStocks[p] >= OfProduct(quantity, p)

(* The second assignment of the UPDATE in tryDecrementStock.  MySQL        *)
(* evaluates SET from left to right, so `stock` is already the new stock.  *)
StillInstock(offer, q) == offer.instock /\ (offer.stock - q) - q > 0

(* Mutant: the offer's counter is left as it is.                           *)
OffersUntaken(quantity) == offers

Taken(offer, q) ==
  [price |-> offer.price, stock |-> offer.stock - q, instock |-> StillInstock(offer, q),
   active |-> offer.active]

OffersWithout(quantity) ==
  [o \in Offers |-> IF quantity[o] = 0 THEN offers[o] ELSE Taken(offers[o], quantity[o])]

(* Mutant: only the offer's counter is decremented.                        *)
ProductStocksKept(quantity) == productStocks
ProductStocksWithout(quantity) ==
  [p \in Products |-> productStocks[p] - OfProduct(quantity, p)]

(* The transaction of create and checkoutFromCart: decrementStockForPurchase,*)
(* insertOrder and, for a cart, the deletion of whatever is in it now.     *)
PlaceOrder(h) ==
  /\ In(h, "buy")
  /\ Wanted(calls[h]) = Priced(calls[h])
  /\ LET c == calls[h]
     IN  \/ /\ ~InStock(c.quantity)
            /\ UNCHANGED <<offers, productStocks, cartItems, orders>>
         \/ /\ InStock(c.quantity)
            /\ Len(orders) < MaxOrders
            /\ offers' = OffersWithout(c.quantity)
            /\ productStocks' = ProductStocksWithout(c.quantity)
            /\ orders' = Append(orders, [customer |-> c.customer, quantity |-> c.quantity,
                                         price |-> c.price, rows |-> c.rows])
            /\ cartItems' = IF c.rows = {} THEN cartItems
                                           ELSE WithoutRows(RowsOf(c.customer))
  /\ Reply(h)
  /\ UNCHANGED published

-----------------------------------------------------------------------------
(* OffersService.update and review begin by loading the offer.             *)
LoadOffer(h, o) ==
  /\ o \in EditedOffers
  /\ Accept(h, [op |-> "edit", offer |-> o, loaded |-> offers[o]])
  /\ UNCHANGED <<offers, productStocks, published, cartItems, orders>>

OffersWithRow(o, row) == [offers EXCEPT ![o] = row]

(* update assigns the fields of the body to what it loaded and saves it:   *)
(* every column that differs from the stored row is written.               *)
SaveOffer(h) ==
  /\ In(h, "edit")
  /\ LET old == calls[h].loaded
         kept == [stock |-> old.stock, instock |-> old.instock]
     IN  \E price \in Prices, active \in BOOLEAN,
            s \in {kept} \cup [stock : RestockOffers, instock : BOOLEAN] :
           offers' = OffersWithRow(calls[h].offer,
                       [price |-> price, stock |-> s.stock, instock |-> s.instock,
                        active |-> active])
  /\ Reply(h)
  /\ UNCHANGED <<productStocks, published, cartItems, orders>>

(* review, approving, saves the product first, published and approved; it  *)
(* stays hidden if it was loaded with isActive = false.                    *)
PublishProduct(h) ==
  /\ In(h, "edit")
  /\ \E shown \in BOOLEAN :
       published' = [published EXCEPT ![ProductOf[calls[h].offer]] = shown]
  /\ calls' = [calls EXCEPT ![h].op = "approve"]
  /\ UNCHANGED <<offers, productStocks, cartItems, orders>>

(* review: the offer as loaded, but for its approval.  One approved may    *)
(* still be inactive, or its seller be.                                    *)
SaveReview(h) ==
  /\ \E active \in BOOLEAN :
       /\ In(h, "approve") \/ (In(h, "edit") /\ ~active)
       /\ offers' = OffersWithRow(calls[h].offer, [calls[h].loaded EXCEPT !.active = active])
  /\ Reply(h)
  /\ UNCHANGED <<productStocks, published, cartItems, orders>>

(* ProductsService.review, and update with upsertForProduct (two writes,   *)
(* the same as two edits of one write each).                               *)
EditProduct(p, shown, stock) ==
  /\ p \in EditedProducts
  /\ published' = [published EXCEPT ![p] = shown]
  /\ productStocks' = [productStocks EXCEPT ![p] = stock]
  /\ UNCHANGED <<offers, cartItems, orders, calls>>

(* A request ends early: an exception, a deadlock victim, a restart.       *)
Abort(h) ==
  /\ calls[h] # Idle
  /\ Reply(h)
  /\ UNCHANGED <<offers, productStocks, published, cartItems, orders>>

-----------------------------------------------------------------------------
CheckoutInit ==
  /\ \E asked \in [Offers -> Prices] :
       offers = [o \in Offers |-> [price |-> asked[o], stock |-> OfferStock[o],
                                  instock |-> OfferStock[o] > 0, active |-> TRUE]]
  /\ productStocks = ProductStock
  /\ published = [p \in Products |-> TRUE]
  /\ cartItems = <<>>
  /\ orders = <<>>
  /\ calls = [h \in Handlers |-> Idle]

CheckoutNext ==
  \/ \E h \in Handlers :
       \/ \E c \in Customers :
            \/ \E o \in Offers, q \in Quantities : ReadToAdd(h, c, o, q) \/ ReadBody(h, c, o, q)
            \/ ReadCart(h, c)
       \/ \E i \in DOMAIN cartItems, q \in Quantities : ReadToUpdate(h, i, q)
       \/ SaveItem(h)
       \/ \E o \in Offers : ResolveItem(h, o) \/ LoadOffer(h, o)
       \/ PlaceOrder(h)
       \/ SaveOffer(h)
       \/ PublishProduct(h)
       \/ SaveReview(h)
       \/ Abort(h)
  \/ \E i \in DOMAIN cartItems : RemoveItem(i)
  \/ \E c \in Customers : Clear(c)
  \/ \E p \in Products, shown \in BOOLEAN :
       \E stock \in RestockProducts \cup {productStocks[p]} : EditProduct(p, shown, stock)

CheckoutSpec == CheckoutInit /\ [][CheckoutNext]_checkoutVars

-----------------------------------------------------------------------------
(* Types; no counter of either table goes below zero, and a cart has one   *)
(* row per offer.                                                          *)
CheckoutTypeOK ==
  /\ offers \in [Offers -> Offer]
  /\ productStocks \in [Products -> Nat]
  /\ published \in [Products -> BOOLEAN]
  /\ cartItems \in Seq(CartItem)
  /\ orders \in Seq(Order)
  /\ calls \in [Handlers -> Call]
  /\ \A c \in Customers, o \in Offers : Cardinality(RowsFor(c, o)) <= 1

Sold(o) == SumRows([i \in DOMAIN orders |-> orders[i].quantity[o]], Len(orders))

(* Every unit in an order was taken from its offer's stock, and nothing    *)
(* else was: no two checkouts sell the same unit, none takes stock and     *)
(* fails afterwards.                                                       *)
SoldIsTaken ==
  \A o \in Offers \ EditedOffers : offers[o].stock + Sold(o) = OfferStock[o]

SoldOf(p) == MapThenSumSet(Sold, {o \in Offers : ProductOf[o] = p})

(* The same for the counter of the product, which all its offers share: it *)
(* keeps the shop from overselling even while sellers edit their offers.   *)
ProductSoldIsTaken ==
  \A p \in Products : productStocks[p] + SoldOf(p) = ProductStock[p]

(* An offer sold out by orders is marked so.                               *)
SoldOutIsMarked == \A o \in Offers \ EditedOffers : offers[o].stock = 0 => ~offers[o].instock

(* An offer that orders have marked outofstock has no stock left.          *)
MarkedIsSoldOut == \A o \in Offers : ~offers[o].instock => offers[o].stock = 0

(* The items of one cart row are ordered once.                             *)
RowsBoughtOnce ==
  \A i, j \in DOMAIN orders : i # j => orders[i].rows \cap orders[j].rows = {}
=============================================================================
