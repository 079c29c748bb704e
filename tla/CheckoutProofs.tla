--------------------------- MODULE CheckoutProofs ---------------------------
(***************************************************************************)
(* Proofs about Checkout, for any customers, offers, products, prices,     *)
(* quantities and number of requests: the stock of an offer and the orders *)
(* add up (SoldIsTaken), an offer sold out is marked so (SoldOutIsMarked), *)
(* and the counter of a product and the orders of all its offers add up    *)
(* (ProductSoldIsTaken).  What a request carries between two of its steps  *)
(* must be of the right type (ContextTypes), and an edit in progress must  *)
(* be one of an offer that is edited at all (EditsInProgress).             *)
(***************************************************************************)
EXTENDS Checkout, RowSumTheorems, FiniteSetTheorems

SaveCall ==
  [op : {"save"}, row : 0..MaxItems, customer : Customers, offer : Offers, quantity : Nat]
BuyCall ==
  [op : {"buy"}, customer : Customers, quantity : [Offers -> Nat],
   price : [Offers -> Nat], rows : SUBSET (1..MaxItems)]
EditCall == [op : {"edit", "approve"}, offer : Offers, loaded : Offer]

ContextTypes ==
  /\ offers \in [Offers -> Offer]
  /\ cartItems \in Seq(CartItem)
  /\ Len(cartItems) <= MaxItems
  /\ orders \in Seq(Order)
  /\ calls \in [Handlers -> Call]

OneRowEach ==
  \A i, j \in DOMAIN cartItems :
    /\ cartItems[i].customer = cartItems[j].customer
    /\ cartItems[i].offer = cartItems[j].offer
    /\ cartItems[i].quantity > 0
    /\ cartItems[j].quantity > 0
    => i = j

EditsInProgress ==
  \A h \in Handlers : calls[h].op \in {"edit", "approve"} => calls[h].offer \in EditedOffers

CheckoutInv ==
  /\ ContextTypes
  /\ OneRowEach
  /\ EditsInProgress
  /\ SoldIsTaken
  /\ SoldOutIsMarked

(* The three kinds of request are told apart by op.                        *)
LEMMA CallKinds ==
  ASSUME NEW c \in Call
  PROVE  /\ c.op = "save" => c \in SaveCall
         /\ c.op = "buy" => c \in BuyCall
         /\ c.op \in {"edit", "approve"} => c \in EditCall
<1>1. c \in {Idle} \/ c \in SaveCall \/ c \in BuyCall \/ c \in EditCall
  BY DEF Call, SaveCall, BuyCall, EditCall
<1>2. CASE c \in {Idle}
  BY <1>2 DEF Idle
<1>3. CASE c \in SaveCall
  <2>1. c.op = "save"
    BY <1>3 DEF SaveCall
  <2> QED BY <1>3, <2>1
<1>4. CASE c \in BuyCall
  <2>1. c.op = "buy"
    BY <1>4 DEF BuyCall
  <2> QED BY <1>4, <2>1
<1>5. CASE c \in EditCall
  <2>1. c.op \in {"edit", "approve"}
    BY <1>5 DEF EditCall
  <2> QED BY <1>5, <2>1
<1> QED BY <1>1, <1>2, <1>3, <1>4, <1>5

LEMMA CallIsTyped ==
  /\ Idle \in Call
  /\ SaveCall \subseteq Call
  /\ BuyCall \subseteq Call
  /\ EditCall \subseteq Call
BY DEF Call, SaveCall, BuyCall, EditCall

LEMMA CallsTyped ==
  ASSUME calls \in [Handlers -> Call], NEW h, NEW call \in Call,
         calls' = [calls EXCEPT ![h] = call]
  PROVE  calls' \in [Handlers -> Call]
OBVIOUS

(* Nothing but a new order changes what is sold.                           *)
LEMMA SoldKept ==
  ASSUME orders' = orders
  PROVE  \A o \in Offers : Sold(o)' = Sold(o)
BY DEF Sold

(* A new order adds the quantities it was made for.                        *)
LEMMA SoldGrows ==
  ASSUME orders \in Seq(Order), NEW order \in Order, orders' = Append(orders, order),
         NEW o \in Offers
  PROVE  Sold(o)' = Sold(o) + order.quantity[o] /\ Sold(o) \in Int
<1> DEFINE n == Len(orders)
           col == [i \in DOMAIN orders |-> orders[i].quantity[o]]
           new == [i \in DOMAIN orders' |-> orders'[i].quantity[o]]
<1>1. n \in Nat /\ DOMAIN orders = 1..n /\ DOMAIN orders' = 1..(n + 1) /\ Len(orders') = n + 1
  OBVIOUS
<1>2. \A i \in 1..n : orders'[i] = orders[i] /\ orders[i] \in Order
  OBVIOUS
<1>3. orders'[n + 1] = order
  OBVIOUS
<1>4. \A x \in Order : x.quantity[o] \in Nat
  BY DEF Order
<1>5. \A i \in 1..n : col[i] \in Int /\ new[i] = col[i]
  BY <1>1, <1>2, <1>4
<1>6. new[n + 1] = order.quantity[o] /\ new[n + 1] \in Int
  BY <1>1, <1>3, <1>4
<1>7. Sold(o) = SumRows(col, n) /\ Sold(o)' = SumRows(new, n + 1)
  BY <1>1 DEF Sold
<1> HIDE DEF n, col, new
<1>8. SumRows(new, n + 1) = SumRows(col, n) + new[n + 1]
  BY <1>1, <1>5, <1>6, SumAppend, Zenon
<1>9. SumRows(col, n) \in Int
  BY <1>1, <1>5, SumType, Zenon
<1> QED BY <1>6, <1>7, <1>8, <1>9

(* An order, and its prices and quantities, are naturals per offer.        *)
LEMMA NoPricesTyped == NoPrices \in [Offers -> Nat]
BY DEF NoPrices

-----------------------------------------------------------------------------
(* Offers and orders carry both properties of the stock.                   *)
LEMMA StockKept ==
  ASSUME SoldIsTaken, SoldOutIsMarked, offers' = offers, orders' = orders
  PROVE  SoldIsTaken' /\ SoldOutIsMarked'
<1>1. \A o \in Offers : Sold(o)' = Sold(o)
  BY SoldKept
<1>2. SoldIsTaken'
  <2>1. SUFFICES ASSUME NEW o \in Offers \ EditedOffers
                 PROVE  offers'[o].stock + Sold(o)' = OfferStock[o]
    BY DEF SoldIsTaken
  <2>2. offers'[o] = offers[o] /\ Sold(o)' = Sold(o)
    BY <1>1
  <2> QED BY <2>2 DEF SoldIsTaken
<1>3. SoldOutIsMarked'
  BY DEF SoldOutIsMarked
<1> QED BY <1>2, <1>3

(* A step that only replaces what one request carries.                     *)
LEMMA CallReplaced ==
  ASSUME ContextTypes, EditsInProgress, NEW h \in Handlers, NEW call \in Call,
         calls' = [calls EXCEPT ![h] = call],
         call.op \in {"edit", "approve"} => call.offer \in EditedOffers
  PROVE  calls' \in [Handlers -> Call] /\ EditsInProgress'
<1>1. calls \in [Handlers -> Call]
  BY DEF ContextTypes
<1>2. calls' \in [Handlers -> Call]
  BY <1>1, CallsTyped
<1>3. SUFFICES ASSUME NEW k \in Handlers
               PROVE  calls'[k].op \in {"edit", "approve"}
                        => calls'[k].offer \in EditedOffers
  BY <1>2 DEF EditsInProgress
<1>4. CASE k = h
  BY <1>1, <1>4
<1>5. CASE k # h
  <2>1. calls'[k] = calls[k]
    BY <1>1, <1>5
  <2> QED BY <2>1 DEF EditsInProgress
<1> QED BY <1>4, <1>5

LEMMA OnlyCallChanges ==
  ASSUME CheckoutInv, NEW h \in Handlers, NEW call \in Call,
         calls' = [calls EXCEPT ![h] = call],
         call.op \in {"edit", "approve"} => call.offer \in EditedOffers,
         offers' = offers, cartItems' = cartItems, orders' = orders
  PROVE  CheckoutInv'
<1>1. calls' \in [Handlers -> Call] /\ EditsInProgress'
  BY CallReplaced DEF CheckoutInv
<1>2. ContextTypes'
  BY <1>1 DEF CheckoutInv, ContextTypes
<1>3. OneRowEach'
  BY Zenon DEF CheckoutInv, OneRowEach
<1>4. SoldIsTaken' /\ SoldOutIsMarked'
  BY StockKept DEF CheckoutInv
<1> QED BY <1>1, <1>2, <1>3, <1>4 DEF CheckoutInv

LEMMA IdleIsNoEdit ==
  /\ Idle \in Call
  /\ Idle.op \notin {"edit", "approve"}
BY CallIsTyped DEF Idle

(* A request that is answered or ends.                                     *)
LEMMA ReplyReplaces ==
  ASSUME NEW h \in Handlers, Reply(h)
  PROVE  calls' = [calls EXCEPT ![h] = Idle]
BY DEF Reply

-----------------------------------------------------------------------------
(* Cart rows are typed, and numbered up to MaxItems.                       *)
LEMMA CartRows ==
  ASSUME ContextTypes
  PROVE  /\ DOMAIN cartItems \subseteq 1..MaxItems
         /\ \A i \in DOMAIN cartItems : cartItems[i] \in CartItem
         /\ \A c \in Customers : RowsOf(c) \subseteq DOMAIN cartItems
         /\ \A c \in Customers, o \in Offers : RowsFor(c, o) \subseteq DOMAIN cartItems
<1>1. MaxItems \in Nat
  BY CheckoutAssumption DEF CheckoutAssumption
<1>2. /\ Len(cartItems) \in Nat
      /\ DOMAIN cartItems = 1..Len(cartItems)
      /\ Len(cartItems) <= MaxItems
      /\ \A i \in DOMAIN cartItems : cartItems[i] \in CartItem
  BY DEF ContextTypes
<1>3. DOMAIN cartItems \subseteq 1..MaxItems
  BY <1>1, <1>2
<1> QED BY <1>2, <1>3 DEF RowsOf, RowsFor

(* addItem finds the one row of the cart for the offer.                    *)
LEMMA RowFound ==
  ASSUME ContextTypes, OneRowEach, NEW c \in Customers, NEW o \in Offers,
         RowsFor(c, o) # {}
  PROVE  Max(RowsFor(c, o)) \in RowsFor(c, o)
<1>1. PICK i \in RowsFor(c, o) : TRUE
  OBVIOUS
<1>2. \A j \in RowsFor(c, o) : j = i
  BY <1>1, Zenon DEF OneRowEach, RowsFor, RowsOf
<1>3. i \in Int
  BY <1>1, CartRows
<1>4. \A j \in RowsFor(c, o) : i >= j
  BY <1>2, <1>3
<1> QED BY <1>1, <1>4 DEF Max

LEMMA ReadToAddPreserves ==
  ASSUME CheckoutInv, NEW h \in Handlers, NEW c \in Customers, NEW o \in Offers,
         NEW q \in Quantities, ReadToAdd(h, c, o, q)
  PROVE  CheckoutInv'
<1> DEFINE row == IF RowsFor(c, o) = {} THEN 0 ELSE Max(RowsFor(c, o))
           total == IF row = 0 THEN q ELSE cartItems[row].quantity + q
           call == [op |-> "save", row |-> row, customer |-> c, offer |-> o,
                    quantity |-> total]
<1>1. ContextTypes /\ OneRowEach
  BY DEF CheckoutInv
<1>2. q \in Nat /\ MaxItems \in Nat
  BY CheckoutAssumption DEF CheckoutAssumption
<1>3. row = 0 \/ row \in DOMAIN cartItems
  BY <1>1, CartRows, RowFound
<1>4. row \in 0..MaxItems
  BY <1>1, <1>2, <1>3, CartRows
<1>5. total \in Nat
  <2>1. row # 0 => cartItems[row].quantity \in Nat
    BY <1>1, <1>3, CartRows DEF CartItem
  <2> QED BY <1>2, <2>1
<1>6. calls' = [calls EXCEPT ![h] = call]
  BY DEF ReadToAdd, Accept
<1>7. offers' = offers /\ cartItems' = cartItems /\ orders' = orders
  BY DEF ReadToAdd
<1> HIDE DEF row, total
<1>8. call \in Call /\ call.op \notin {"edit", "approve"}
  BY <1>4, <1>5, CallIsTyped DEF SaveCall
<1> HIDE DEF call
<1> QED BY <1>6, <1>7, <1>8, OnlyCallChanges

LEMMA ReadToUpdatePreserves ==
  ASSUME CheckoutInv, NEW h \in Handlers, NEW i \in DOMAIN cartItems,
         NEW q \in Quantities, ReadToUpdate(h, i, q)
  PROVE  CheckoutInv'
<1> DEFINE call == [op |-> "save", row |-> i, customer |-> cartItems[i].customer,
                    offer |-> cartItems[i].offer, quantity |-> q]
<1>1. q \in Nat /\ MaxItems \in Nat
  BY CheckoutAssumption DEF CheckoutAssumption
<1>2. i \in 0..MaxItems /\ cartItems[i] \in CartItem
  BY <1>1, CartRows DEF CheckoutInv
<1>3. call \in Call /\ call.op \notin {"edit", "approve"}
  BY <1>1, <1>2, CallIsTyped DEF SaveCall, CartItem
<1>4. calls' = [calls EXCEPT ![h] = call]
  BY DEF ReadToUpdate, Accept
<1>5. offers' = offers /\ cartItems' = cartItems /\ orders' = orders
  BY DEF ReadToUpdate
<1> HIDE DEF call
<1> QED BY <1>3, <1>4, <1>5, OnlyCallChanges

LEMMA ReadCartPreserves ==
  ASSUME CheckoutInv, NEW h \in Handlers, NEW c \in Customers, ReadCart(h, c)
  PROVE  CheckoutInv'
<1> DEFINE quantity == [o \in Offers |-> InRows(RowsOf(c), o)]
           call == [op |-> "buy", customer |-> c, price |-> NoPrices, rows |-> RowsOf(c),
                    quantity |-> quantity]
<1>1. RowsOf(c) \in SUBSET (1..MaxItems)
  BY CartRows DEF CheckoutInv
<1>2. ASSUME NEW o \in Offers PROVE InRows(RowsOf(c), o) \in Nat
  <2>1. \A i \in RowsOf(c) : cartItems[i].quantity \in Nat
    BY CartRows DEF CheckoutInv, CartItem
  <2> QED BY <2>1 DEF InRows
<1>3. quantity \in [Offers -> Nat]
  BY <1>2
<1>4. calls' = [calls EXCEPT ![h] = call]
  BY DEF ReadCart, Accept
<1>5. offers' = offers /\ cartItems' = cartItems /\ orders' = orders
  BY DEF ReadCart
<1> HIDE DEF quantity
<1>6. call \in Call /\ call.op \notin {"edit", "approve"}
  BY <1>1, <1>3, CallIsTyped, NoPricesTyped DEF BuyCall
<1> HIDE DEF call
<1> QED BY <1>4, <1>5, <1>6, OnlyCallChanges

LEMMA ReadBodyPreserves ==
  ASSUME CheckoutInv, NEW h \in Handlers, NEW c \in Customers, NEW o \in Offers,
         NEW q \in Quantities, ReadBody(h, c, o, q)
  PROVE  CheckoutInv'
<1> DEFINE quantity == [NoPrices EXCEPT ![o] = q]
           call == [op |-> "buy", customer |-> c, price |-> NoPrices, rows |-> {},
                    quantity |-> quantity]
<1>1. q \in Nat
  BY CheckoutAssumption DEF CheckoutAssumption
<1>2. quantity \in [Offers -> Nat]
  BY <1>1, NoPricesTyped
<1>3. calls' = [calls EXCEPT ![h] = call]
  BY DEF ReadBody, Accept
<1>4. offers' = offers /\ cartItems' = cartItems /\ orders' = orders
  BY DEF ReadBody
<1> HIDE DEF quantity
<1>5. call \in Call /\ call.op \notin {"edit", "approve"}
  BY <1>2, CallIsTyped, NoPricesTyped DEF BuyCall
<1> HIDE DEF call
<1> QED BY <1>3, <1>4, <1>5, OnlyCallChanges

LEMMA AbortPreserves ==
  ASSUME CheckoutInv, NEW h \in Handlers, Reply(h),
         offers' = offers, cartItems' = cartItems, orders' = orders
  PROVE  CheckoutInv'
BY ReplyReplaces, IdleIsNoEdit, OnlyCallChanges

LEMMA ResolveItemPreserves ==
  ASSUME CheckoutInv, NEW h \in Handlers, NEW o \in Offers, ResolveItem(h, o)
  PROVE  CheckoutInv'
<1> DEFINE c == calls[h]
           call == [c EXCEPT !.price = [c.price EXCEPT ![o] = offers[o].price]]
<1>1. offers' = offers /\ cartItems' = cartItems /\ orders' = orders
  BY DEF ResolveItem
<1>2. c \in BuyCall
  BY CallKinds DEF CheckoutInv, ContextTypes, ResolveItem, In
<1>3. offers[o].price \in Nat
  BY CheckoutAssumption DEF CheckoutAssumption, CheckoutInv, ContextTypes, Offer
<1>4. CASE Reply(h)
  BY <1>1, <1>4, AbortPreserves
<1>5. CASE calls' = [calls EXCEPT ![h].price[o] = offers[o].price]
  <2>1. call \in BuyCall
    <3>1. [c.price EXCEPT ![o] = offers[o].price] \in [Offers -> Nat]
      BY <1>2, <1>3 DEF BuyCall
    <3> QED BY <1>2, <3>1 DEF BuyCall
  <2>2. call \in Call /\ call.op \notin {"edit", "approve"}
    BY <2>1, CallIsTyped DEF BuyCall
  <2>3. calls' = [calls EXCEPT ![h] = call]
    BY <1>5
  <2> HIDE DEF c, call
  <2> QED BY <1>1, <2>2, <2>3, OnlyCallChanges
<1> QED BY <1>4, <1>5 DEF ResolveItem

LEMMA LoadOfferPreserves ==
  ASSUME CheckoutInv, NEW h \in Handlers, NEW o \in Offers, LoadOffer(h, o)
  PROVE  CheckoutInv'
<1> DEFINE call == [op |-> "edit", offer |-> o, loaded |-> offers[o]]
<1>1. offers[o] \in Offer
  BY DEF CheckoutInv, ContextTypes
<1>2. call \in Call
  BY <1>1, CallIsTyped DEF EditCall
<1>3. call.offer \in EditedOffers /\ calls' = [calls EXCEPT ![h] = call]
  BY DEF LoadOffer, Accept
<1>4. offers' = offers /\ cartItems' = cartItems /\ orders' = orders
  BY DEF LoadOffer
<1> HIDE DEF call
<1> QED BY <1>2, <1>3, <1>4, OnlyCallChanges

-----------------------------------------------------------------------------
LEMMA RowDeleted ==
  ASSUME NEW row \in CartItem
  PROVE  /\ [row EXCEPT !.quantity = 0] \in CartItem
         /\ [row EXCEPT !.quantity = 0].quantity = 0
<1>1. PICK c \in Customers, o \in Offers, q \in Nat :
        row = [customer |-> c, offer |-> o, quantity |-> q]
  BY DEF CartItem
<1>2. [row EXCEPT !.quantity = 0] = [customer |-> c, offer |-> o, quantity |-> 0]
  BY <1>1
<1> QED BY <1>2 DEF CartItem

(* Deleting rows leaves a cart a cart.                                     *)
LEMMA RowsDeleted ==
  ASSUME ContextTypes, OneRowEach, NEW rows, cartItems' = WithoutRows(rows)
  PROVE  cartItems' \in Seq(CartItem) /\ Len(cartItems') <= MaxItems /\ OneRowEach'
<1>1. Len(cartItems) \in Nat /\ DOMAIN cartItems = 1..Len(cartItems)
  BY DEF ContextTypes
<1>2. \A i \in DOMAIN cartItems :
        /\ cartItems[i] \in CartItem
        /\ [cartItems[i] EXCEPT !.quantity = 0] \in CartItem
        /\ [cartItems[i] EXCEPT !.quantity = 0].quantity = 0
  BY CartRows, RowDeleted
<1>3. /\ DOMAIN cartItems' = 1..Len(cartItems)
      /\ \A i \in DOMAIN cartItems' :
           cartItems'[i] = cartItems[i]
           \/ cartItems'[i] = [cartItems[i] EXCEPT !.quantity = 0]
  BY <1>1 DEF WithoutRows
<1>4. cartItems' \in Seq(CartItem) /\ Len(cartItems') = Len(cartItems)
  <2>1. \A i \in DOMAIN cartItems' : cartItems'[i] \in CartItem
    BY <1>1, <1>2, <1>3
  <2>2. cartItems' = [i \in 1..Len(cartItems) |-> cartItems'[i]]
    BY <1>1 DEF WithoutRows
  <2> QED BY <1>1, <1>3, <2>1, <2>2
<1>5. \A i \in DOMAIN cartItems' : cartItems'[i].quantity > 0 => cartItems'[i] = cartItems[i]
  <2>1. SUFFICES ASSUME NEW i \in DOMAIN cartItems', cartItems'[i] # cartItems[i]
                 PROVE  ~(cartItems'[i].quantity > 0)
    OBVIOUS
  <2>2. cartItems'[i].quantity = 0
    BY <1>1, <1>2, <1>3, <2>1
  <2> QED BY <2>2
<1>6. OneRowEach'
  BY <1>1, <1>3, <1>5 DEF OneRowEach
<1> QED BY <1>4, <1>6 DEF ContextTypes

LEMMA CartDeletionPreserves ==
  ASSUME CheckoutInv, NEW rows, cartItems' = WithoutRows(rows),
         offers' = offers, orders' = orders, calls' = calls
  PROVE  CheckoutInv'
<1>1. cartItems' \in Seq(CartItem) /\ Len(cartItems') <= MaxItems /\ OneRowEach'
  BY RowsDeleted DEF CheckoutInv
<1>2. ContextTypes'
  BY <1>1 DEF CheckoutInv, ContextTypes
<1>3. EditsInProgress'
  BY DEF CheckoutInv, EditsInProgress
<1>4. SoldIsTaken' /\ SoldOutIsMarked'
  BY StockKept DEF CheckoutInv
<1> QED BY <1>1, <1>2, <1>3, <1>4 DEF CheckoutInv

(* save() of a cart row: the unique index keeps one row per offer.         *)
LEMMA SaveItemPreserves ==
  ASSUME CheckoutInv, NEW h \in Handlers, SaveItem(h)
  PROVE  CheckoutInv'
<1> DEFINE c == calls[h]
           item == [customer |-> c.customer, offer |-> c.offer, quantity |-> c.quantity]
<1>1. c \in SaveCall
  BY CallKinds DEF CheckoutInv, ContextTypes, SaveItem, In
<1>2. item \in CartItem
  BY <1>1 DEF SaveCall, CartItem
<1>3. /\ cartItems \in Seq(CartItem)
      /\ Len(cartItems) \in Nat
      /\ Len(cartItems) <= MaxItems
      /\ DOMAIN cartItems = 1..Len(cartItems)
      /\ MaxItems \in Nat
      /\ OneRowEach
  BY CheckoutAssumption DEF CheckoutAssumption, CheckoutInv, ContextTypes
<1>4. calls' = [calls EXCEPT ![h] = Idle] /\ offers' = offers /\ orders' = orders
  BY ReplyReplaces DEF SaveItem
<1>5. calls' \in [Handlers -> Call] /\ EditsInProgress'
  BY <1>4, IdleIsNoEdit, CallReplaced DEF CheckoutInv
<1>6. cartItems' \in Seq(CartItem) /\ Len(cartItems') <= MaxItems /\ OneRowEach'
  <2>1. CASE cartItems' = cartItems
    BY <1>3, <2>1, Zenon DEF OneRowEach
  <2>2. CASE /\ RowsFor(c.customer, c.offer) \ {c.row} = {}
             /\ cartItems' = [cartItems EXCEPT ![c.row] = item]
    <3> HIDE DEF c, item
    <3>1. /\ cartItems' \in Seq(CartItem)
          /\ DOMAIN cartItems' = DOMAIN cartItems
          /\ Len(cartItems') = Len(cartItems)
      <4>1. /\ DOMAIN cartItems' = DOMAIN cartItems
            /\ \A i \in DOMAIN cartItems' : cartItems'[i] \in CartItem
        BY <1>2, <1>3, <2>2
      <4>2. cartItems' = [i \in 1..Len(cartItems) |-> cartItems'[i]]
        BY <1>3, <2>2
      <4> QED BY <1>3, <4>1, <4>2
    <3>2. \A i \in DOMAIN cartItems :
            IF i = c.row THEN cartItems'[i] = item ELSE cartItems'[i] = cartItems[i]
      BY <1>3, <2>2
    <3>3. \A i \in DOMAIN cartItems :
            /\ cartItems[i].customer = c.customer
            /\ cartItems[i].offer = c.offer
            /\ cartItems[i].quantity > 0
            => i = c.row
      BY <2>2, Zenon DEF RowsFor, RowsOf
    <3>4. item.customer = c.customer /\ item.offer = c.offer
      BY DEF item
    <3>5. OneRowEach'
      BY <1>3, <3>1, <3>2, <3>3, <3>4 DEF OneRowEach
    <3> QED BY <1>3, <3>1, <3>5
  <2>3. CASE /\ RowsFor(c.customer, c.offer) \ {c.row} = {}
             /\ c.row = 0
             /\ Len(cartItems) < MaxItems
             /\ cartItems' = Append(cartItems, item)
    <3> HIDE DEF c, item
    <3>1. /\ cartItems' \in Seq(CartItem)
          /\ Len(cartItems') = Len(cartItems) + 1
          /\ DOMAIN cartItems' = 1..(Len(cartItems) + 1)
      BY <1>2, <1>3, <2>3
    <3>2. /\ \A i \in DOMAIN cartItems : cartItems'[i] = cartItems[i]
          /\ cartItems'[Len(cartItems) + 1] = item
      BY <1>2, <1>3, <2>3
    <3>3. \A i \in DOMAIN cartItems :
            ~(/\ cartItems[i].customer = c.customer
              /\ cartItems[i].offer = c.offer
              /\ cartItems[i].quantity > 0)
      <4>1. \A i \in RowsFor(c.customer, c.offer) : i = 0
        BY <2>3
      <4>2. 0 \notin DOMAIN cartItems
        BY <1>3
      <4> QED BY <4>1, <4>2, Zenon DEF RowsFor, RowsOf
    <3>4. item.customer = c.customer /\ item.offer = c.offer
      BY DEF item
    <3>5. OneRowEach'
      BY <1>3, <3>1, <3>2, <3>3, <3>4 DEF OneRowEach
    <3> QED BY <1>3, <2>3, <3>1, <3>5
  <2> QED BY <1>3, <2>1, <2>2, <2>3 DEF SaveItem
<1>7. ContextTypes'
  BY <1>4, <1>5, <1>6 DEF CheckoutInv, ContextTypes
<1>8. SoldIsTaken' /\ SoldOutIsMarked'
  BY <1>4, StockKept DEF CheckoutInv
<1> QED BY <1>5, <1>6, <1>7, <1>8 DEF CheckoutInv

-----------------------------------------------------------------------------
(* The UPDATE of tryDecrementStock: stock less the quantity, and out of    *)
(* stock whenever nothing is left.                                         *)
LEMMA OfferTaken ==
  ASSUME NEW offer \in Offer, NEW q \in Nat, q > 0, offer.stock >= q
  PROVE  /\ Taken(offer, q) \in Offer
         /\ Taken(offer, q).stock = offer.stock - q
         /\ Taken(offer, q).stock = 0 => ~Taken(offer, q).instock
<1> DEFINE marked == StillInstock(offer, q)
<1>1. offer.stock \in Nat /\ offer.price \in Prices /\ offer.active \in BOOLEAN
  BY DEF Offer
<1>2. marked \in BOOLEAN
  BY DEF StillInstock
<1>3. offer.stock - q = 0 => ~((offer.stock - q) - q > 0)
  BY <1>1
<1>4. offer.stock - q = 0 => ~marked
  BY <1>3 DEF StillInstock
<1>5. offer.stock - q \in Nat
  BY <1>1
<1>6. Taken(offer, q) = [price |-> offer.price, stock |-> offer.stock - q,
                         instock |-> marked, active |-> offer.active]
  BY DEF Taken
<1> HIDE DEF marked
<1>7. /\ Taken(offer, q) \in Offer
      /\ Taken(offer, q).stock = offer.stock - q
      /\ Taken(offer, q).instock = marked
  BY <1>1, <1>2, <1>5, <1>6 DEF Offer
<1> QED BY <1>4, <1>7

LEMMA OrderTaken ==
  ASSUME CheckoutInv, NEW order \in Order, InStock(order.quantity),
         offers' = OffersWithout(order.quantity), orders' = Append(orders, order)
  PROVE  /\ offers' \in [Offers -> Offer]
         /\ orders' \in Seq(Order)
         /\ SoldIsTaken'
         /\ SoldOutIsMarked'
<1> DEFINE q == order.quantity
<1>1. q \in [Offers -> Nat]
  BY DEF Order
<1>2. offers \in [Offers -> Offer] /\ orders \in Seq(Order)
  BY DEF CheckoutInv, ContextTypes
<1>3. ASSUME NEW o \in Offers
      PROVE  /\ offers'[o] \in Offer
             /\ offers'[o].stock = offers[o].stock - q[o]
             /\ offers'[o].stock = 0 /\ q[o] > 0 => ~offers'[o].instock
             /\ q[o] = 0 => offers'[o] = offers[o]
  <2>1. q[o] \in Nat /\ offers[o] \in Offer /\ offers[o].stock \in Nat
    BY <1>1, <1>2 DEF Offer
  <2>2. CASE q[o] = 0
    <3>1. offers'[o] = offers[o]
      BY <2>2 DEF OffersWithout
    <3> QED BY <2>1, <2>2, <3>1
  <2>3. CASE q[o] # 0
    <3>1. q[o] > 0 /\ offers[o].stock >= q[o]
      BY <2>1, <2>3 DEF InStock
    <3>2. offers'[o] = Taken(offers[o], q[o])
      BY <2>3 DEF OffersWithout
    <3> HIDE DEF q
    <3> QED BY <2>1, <2>3, <3>1, <3>2, OfferTaken
  <2> QED BY <2>2, <2>3
<1>4. offers' \in [Offers -> Offer]
  <2>1. offers' = [o \in Offers |-> offers'[o]]
    BY DEF OffersWithout
  <2> QED BY <1>3, <2>1
<1>5. orders' \in Seq(Order)
  BY <1>2
<1>6. SoldIsTaken'
  <2>1. SUFFICES ASSUME NEW o \in Offers \ EditedOffers
                 PROVE  offers'[o].stock + Sold(o)' = OfferStock[o]
    BY DEF SoldIsTaken
  <2>2. offers[o].stock + Sold(o) = OfferStock[o]
    BY DEF CheckoutInv, SoldIsTaken
  <2>3. Sold(o)' = Sold(o) + q[o] /\ Sold(o) \in Int
    BY <1>2, SoldGrows
  <2>4. offers'[o].stock = offers[o].stock - q[o]
    BY <1>3
  <2>5. offers[o].stock \in Nat /\ q[o] \in Nat
    BY <1>1, <1>2 DEF Offer
  <2> HIDE DEF q
  <2> QED BY <2>2, <2>3, <2>4, <2>5
<1>7. SoldOutIsMarked'
  <2>1. SUFFICES ASSUME NEW o \in Offers \ EditedOffers, offers'[o].stock = 0
                 PROVE  ~offers'[o].instock
    BY DEF SoldOutIsMarked
  <2>2. q[o] = 0 \/ q[o] > 0
    BY <1>1
  <2>3. CASE q[o] = 0
    <3>1. offers'[o] = offers[o]
      BY <1>3, <2>3
    <3> QED BY <2>1, <3>1, Zenon DEF CheckoutInv, SoldOutIsMarked
  <2>4. CASE q[o] > 0
    BY <1>3, <2>1, <2>4
  <2> QED BY <2>2, <2>3, <2>4
<1> QED BY <1>4, <1>5, <1>6, <1>7

LEMMA PlaceOrderPreserves ==
  ASSUME CheckoutInv, NEW h \in Handlers, PlaceOrder(h)
  PROVE  CheckoutInv'
<1> DEFINE c == calls[h]
           order == [customer |-> c.customer, quantity |-> c.quantity,
                     price |-> c.price, rows |-> c.rows]
<1>1. c \in BuyCall
  BY CallKinds DEF CheckoutInv, ContextTypes, PlaceOrder, In
<1>2. order \in Order /\ order.quantity = c.quantity
  BY <1>1 DEF BuyCall, Order
<1>3. CASE UNCHANGED <<offers, productStocks, cartItems, orders>>
  BY <1>3, AbortPreserves DEF PlaceOrder
<1>4. CASE /\ InStock(c.quantity)
           /\ offers' = OffersWithout(c.quantity)
           /\ orders' = Append(orders, order)
           /\ cartItems' = IF c.rows = {} THEN cartItems
                                          ELSE WithoutRows(RowsOf(c.customer))
  <2> HIDE DEF order
  <2>1. calls' = [calls EXCEPT ![h] = Idle]
    BY ReplyReplaces DEF PlaceOrder
  <2>2. calls' \in [Handlers -> Call] /\ EditsInProgress'
    BY <2>1, IdleIsNoEdit, CallReplaced DEF CheckoutInv
  <2>3. /\ offers' \in [Offers -> Offer]
        /\ orders' \in Seq(Order)
        /\ SoldIsTaken'
        /\ SoldOutIsMarked'
    BY <1>2, <1>4, OrderTaken
  <2>4. cartItems' \in Seq(CartItem) /\ Len(cartItems') <= MaxItems /\ OneRowEach'
    <3>1. CASE cartItems' = cartItems
      <4>1. OneRowEach'
        BY <3>1, Zenon DEF CheckoutInv, OneRowEach
      <4> QED BY <3>1, <4>1 DEF CheckoutInv, ContextTypes
    <3>2. CASE cartItems' = WithoutRows(RowsOf(c.customer))
      BY <3>2, RowsDeleted DEF CheckoutInv
    <3> QED BY <1>4, <3>1, <3>2
  <2> QED BY <2>2, <2>3, <2>4 DEF CheckoutInv, ContextTypes
<1> QED BY <1>3, <1>4 DEF PlaceOrder

-----------------------------------------------------------------------------
(* Replacing the row of an edited offer.                                   *)
LEMMA OfferReplaced ==
  ASSUME CheckoutInv, NEW o \in EditedOffers, NEW row \in Offer,
         offers' = OffersWithRow(o, row), orders' = orders
  PROVE  offers' \in [Offers -> Offer] /\ SoldIsTaken' /\ SoldOutIsMarked'
<1>1. offers \in [Offers -> Offer]
  BY DEF CheckoutInv, ContextTypes
<1>2. offers' \in [Offers -> Offer] /\ \A x \in Offers \ {o} : offers'[x] = offers[x]
  BY <1>1 DEF OffersWithRow
<1>3. \A x \in Offers : Sold(x)' = Sold(x)
  BY SoldKept
<1>4. SoldIsTaken'
  <2>1. SUFFICES ASSUME NEW x \in Offers \ EditedOffers
                 PROVE  offers'[x].stock + Sold(x)' = OfferStock[x]
    BY DEF SoldIsTaken
  <2>2. offers'[x] = offers[x] /\ Sold(x)' = Sold(x)
    BY <1>2, <1>3
  <2> QED BY <2>2 DEF CheckoutInv, SoldIsTaken
<1>5. SoldOutIsMarked'
  <2>1. SUFFICES ASSUME NEW x \in Offers \ EditedOffers, offers'[x].stock = 0
                 PROVE  ~offers'[x].instock
    BY DEF SoldOutIsMarked
  <2>2. offers'[x] = offers[x]
    BY <1>2
  <2> QED BY <2>1, <2>2, Zenon DEF CheckoutInv, SoldOutIsMarked
<1> QED BY <1>2, <1>4, <1>5

(* The request in the middle of an edit, and what it loaded.               *)
LEMMA EditInHand ==
  ASSUME CheckoutInv, NEW h \in Handlers, calls[h].op \in {"edit", "approve"}
  PROVE  calls[h] \in EditCall /\ calls[h].offer \in EditedOffers /\ calls[h].loaded \in Offer
<1>1. calls[h] \in EditCall
  BY CallKinds DEF CheckoutInv, ContextTypes
<1> QED BY <1>1 DEF CheckoutInv, EditsInProgress, EditCall

(* An edit is saved and its request answered.                              *)
LEMMA EditSaved ==
  ASSUME CheckoutInv, NEW h \in Handlers, calls[h].op \in {"edit", "approve"},
         NEW row \in Offer, offers' = OffersWithRow(calls[h].offer, row), Reply(h),
         orders' = orders, cartItems' = cartItems
  PROVE  CheckoutInv'
<1>1. calls[h].offer \in EditedOffers
  BY EditInHand
<1>2. offers' \in [Offers -> Offer] /\ SoldIsTaken' /\ SoldOutIsMarked'
  BY <1>1, OfferReplaced
<1>3. calls' \in [Handlers -> Call] /\ EditsInProgress'
  BY ReplyReplaces, IdleIsNoEdit, CallReplaced DEF CheckoutInv
<1>4. ContextTypes'
  BY <1>2, <1>3 DEF CheckoutInv, ContextTypes
<1>5. OneRowEach'
  BY Zenon DEF CheckoutInv, OneRowEach
<1> QED BY <1>2, <1>3, <1>4, <1>5 DEF CheckoutInv

LEMMA SaveOfferPreserves ==
  ASSUME CheckoutInv, NEW h \in Handlers, SaveOffer(h)
  PROVE  CheckoutInv'
<1> DEFINE old == calls[h].loaded
           kept == [stock |-> old.stock, instock |-> old.instock]
<1>1. calls[h].op \in {"edit", "approve"}
  BY DEF SaveOffer, In
<1>2. old \in Offer
  BY <1>1, EditInHand
<1>3. PICK price \in Prices, active \in BOOLEAN,
           s \in {kept} \cup [stock : RestockOffers, instock : BOOLEAN] :
        offers' = OffersWithRow(calls[h].offer,
                    [price |-> price, stock |-> s.stock, instock |-> s.instock,
                     active |-> active])
  BY Zenon DEF SaveOffer
<1> DEFINE row == [price |-> price, stock |-> s.stock, instock |-> s.instock,
                   active |-> active]
<1>4. s.stock \in Nat /\ s.instock \in BOOLEAN
  <2>1. CASE s = kept
    BY <1>2, <2>1 DEF Offer
  <2>2. CASE s \in [stock : RestockOffers, instock : BOOLEAN]
    BY <2>2, CheckoutAssumption DEF CheckoutAssumption
  <2> QED BY <2>1, <2>2
<1>5. row \in Offer
  BY <1>4 DEF Offer
<1>6. Reply(h) /\ orders' = orders /\ cartItems' = cartItems
  BY DEF SaveOffer
<1>7. offers' = OffersWithRow(calls[h].offer, row)
  BY <1>3
<1> HIDE DEF row
<1> QED BY <1>1, <1>5, <1>6, <1>7, EditSaved

LEMMA PublishProductPreserves ==
  ASSUME CheckoutInv, NEW h \in Handlers, PublishProduct(h)
  PROVE  CheckoutInv'
<1> DEFINE call == [calls[h] EXCEPT !.op = "approve"]
<1>1. calls[h].op \in {"edit", "approve"}
  BY DEF PublishProduct, In
<1>2. calls[h] \in EditCall /\ calls[h].offer \in EditedOffers
  BY <1>1, EditInHand
<1>3. call \in EditCall /\ call.offer = calls[h].offer
  BY <1>2 DEF EditCall
<1>4. calls' = [calls EXCEPT ![h] = call]
  BY DEF PublishProduct
<1>5. offers' = offers /\ orders' = orders /\ cartItems' = cartItems
  BY DEF PublishProduct
<1> HIDE DEF call
<1> QED BY <1>2, <1>3, <1>4, <1>5, CallIsTyped, OnlyCallChanges

LEMMA SaveReviewPreserves ==
  ASSUME CheckoutInv, NEW h \in Handlers, SaveReview(h)
  PROVE  CheckoutInv'
<1>1. PICK active \in BOOLEAN :
        /\ In(h, "approve") \/ (In(h, "edit") /\ ~active)
        /\ offers' = OffersWithRow(calls[h].offer, [calls[h].loaded EXCEPT !.active = active])
  BY Zenon DEF SaveReview
<1>2. calls[h].op \in {"edit", "approve"}
  BY <1>1 DEF In
<1>3. calls[h].loaded \in Offer
  BY <1>2, EditInHand
<1>4. [calls[h].loaded EXCEPT !.active = active] \in Offer
  BY <1>3 DEF Offer
<1>5. Reply(h) /\ orders' = orders /\ cartItems' = cartItems
  BY DEF SaveReview
<1> QED BY <1>1, <1>2, <1>4, <1>5, EditSaved

(* A step that touches nothing CheckoutInv speaks of.                      *)
LEMMA CheckoutStutter ==
  ASSUME CheckoutInv, offers' = offers, cartItems' = cartItems, orders' = orders,
         calls' = calls
  PROVE  CheckoutInv'
<1>1. ContextTypes'
  BY DEF CheckoutInv, ContextTypes
<1>2. OneRowEach'
  BY Zenon DEF CheckoutInv, OneRowEach
<1>3. EditsInProgress'
  BY DEF CheckoutInv, EditsInProgress
<1>4. SoldIsTaken' /\ SoldOutIsMarked'
  BY StockKept DEF CheckoutInv
<1> QED BY <1>1, <1>2, <1>3, <1>4 DEF CheckoutInv

-----------------------------------------------------------------------------
LEMMA CheckoutStarts ==
  ASSUME CheckoutInit
  PROVE  CheckoutInv
<1>1. PICK asked \in [Offers -> Prices] :
        offers = [o \in Offers |-> [price |-> asked[o], stock |-> OfferStock[o],
                                    instock |-> OfferStock[o] > 0, active |-> TRUE]]
  BY Zenon DEF CheckoutInit
<1>2. ASSUME NEW o \in Offers
      PROVE  /\ offers[o] \in Offer
             /\ offers[o].stock = OfferStock[o]
             /\ offers[o].stock = 0 => ~offers[o].instock
  <2> DEFINE instock == OfferStock[o] > 0
  <2>1. OfferStock[o] \in Nat /\ asked[o] \in Prices
    BY CheckoutAssumption DEF CheckoutAssumption
  <2>2. instock \in BOOLEAN /\ (OfferStock[o] = 0 => ~instock)
    BY <2>1
  <2>3. offers[o] = [price |-> asked[o], stock |-> OfferStock[o],
                     instock |-> instock, active |-> TRUE]
    BY <1>1
  <2> HIDE DEF instock
  <2> QED BY <2>1, <2>2, <2>3 DEF Offer
<1>3. cartItems = <<>> /\ orders = <<>> /\ calls = [h \in Handlers |-> Idle]
  BY DEF CheckoutInit
<1>4. ContextTypes
  <2>1. offers \in [Offers -> Offer]
    BY <1>1, <1>2
  <2>2. calls \in [Handlers -> Call]
    BY <1>3, CallIsTyped
  <2>3. MaxItems \in Nat
    BY CheckoutAssumption DEF CheckoutAssumption
  <2> QED BY <1>3, <2>1, <2>2, <2>3 DEF ContextTypes
<1>5. OneRowEach
  BY <1>3 DEF OneRowEach
<1>6. EditsInProgress
  BY <1>3 DEF EditsInProgress, Idle
<1>7. SoldIsTaken
  <2>1. SUFFICES ASSUME NEW o \in Offers
                 PROVE  offers[o].stock + Sold(o) = OfferStock[o]
    BY DEF SoldIsTaken
  <2>2. Sold(o) = 0
    BY <1>3, SumEmpty DEF Sold
  <2>3. OfferStock[o] \in Nat
    BY CheckoutAssumption DEF CheckoutAssumption
  <2> QED BY <1>2, <2>2, <2>3
<1>8. SoldOutIsMarked
  BY <1>2 DEF SoldOutIsMarked
<1> QED BY <1>4, <1>5, <1>6, <1>7, <1>8 DEF CheckoutInv

LEMMA CheckoutNextPreserves ==
  ASSUME CheckoutInv, CheckoutNext
  PROVE  CheckoutInv'
<1>1. ASSUME NEW h \in Handlers, NEW c \in Customers, NEW o \in Offers, NEW q \in Quantities,
             ReadToAdd(h, c, o, q) \/ ReadBody(h, c, o, q)
      PROVE  CheckoutInv'
  BY <1>1, ReadToAddPreserves, ReadBodyPreserves
<1>2. ASSUME NEW h \in Handlers, NEW c \in Customers, ReadCart(h, c)
      PROVE  CheckoutInv'
  BY <1>2, ReadCartPreserves
<1>3. ASSUME NEW h \in Handlers, NEW i \in DOMAIN cartItems, NEW q \in Quantities,
             ReadToUpdate(h, i, q)
      PROVE  CheckoutInv'
  BY <1>3, ReadToUpdatePreserves
<1>4. ASSUME NEW h \in Handlers, SaveItem(h)
      PROVE  CheckoutInv'
  BY <1>4, SaveItemPreserves
<1>5. ASSUME NEW h \in Handlers, NEW o \in Offers, ResolveItem(h, o) \/ LoadOffer(h, o)
      PROVE  CheckoutInv'
  BY <1>5, ResolveItemPreserves, LoadOfferPreserves
<1>6. ASSUME NEW h \in Handlers, PlaceOrder(h)
      PROVE  CheckoutInv'
  BY <1>6, PlaceOrderPreserves
<1>7. ASSUME NEW h \in Handlers, SaveOffer(h) \/ PublishProduct(h) \/ SaveReview(h)
      PROVE  CheckoutInv'
  BY <1>7, SaveOfferPreserves, PublishProductPreserves, SaveReviewPreserves
<1>8. ASSUME NEW h \in Handlers, Abort(h)
      PROVE  CheckoutInv'
  BY <1>8, AbortPreserves DEF Abort
<1>9. ASSUME NEW i \in DOMAIN cartItems, RemoveItem(i)
      PROVE  CheckoutInv'
  BY <1>9, CartDeletionPreserves DEF RemoveItem
<1>10. ASSUME NEW c \in Customers, Clear(c)
       PROVE  CheckoutInv'
  BY <1>10, CartDeletionPreserves DEF Clear
<1>11. ASSUME NEW p \in Products, NEW shown \in BOOLEAN,
              NEW stock \in RestockProducts \cup {productStocks[p]},
              EditProduct(p, shown, stock)
       PROVE  CheckoutInv'
  BY <1>11, CheckoutStutter DEF EditProduct
<1> QED BY <1>1, <1>2, <1>3, <1>4, <1>5, <1>6, <1>7, <1>8, <1>9, <1>10, <1>11, Zenon
        DEF CheckoutNext

-----------------------------------------------------------------------------
(* The invariant of carts, checkouts and edits, for any number of          *)
(* customers, offers, products and concurrent requests.                    *)
THEOREM CheckoutInvariant == CheckoutSpec => []CheckoutInv
<1>1. CheckoutInit => CheckoutInv
  BY CheckoutStarts
<1>2. CheckoutInv /\ [CheckoutNext]_checkoutVars => CheckoutInv'
  BY CheckoutNextPreserves, CheckoutStutter DEF checkoutVars
<1> QED BY <1>1, <1>2, PTL DEF CheckoutSpec

(* checkoutFromCart and create sell no unit of an unedited offer twice and *)
(* lose none, in whatever order carts are read and transactions commit.    *)
THEOREM NoUnitSoldTwice == CheckoutSpec => []SoldIsTaken
<1>1. CheckoutInv => SoldIsTaken
  BY DEF CheckoutInv
<1> QED BY <1>1, CheckoutInvariant, PTL

(* tryDecrementStock marks an offer outofstock no later than its last unit.*)
THEOREM SoldOutMarked == CheckoutSpec => []SoldOutIsMarked
<1>1. CheckoutInv => SoldOutIsMarked
  BY DEF CheckoutInv
<1> QED BY <1>1, CheckoutInvariant, PTL

(* addItem's read and later save never leave two rows of a cart for one    *)
(* offer: the unique index is enough, also when save() re-inserts a row.   *)
THEOREM OneCartRowPerOffer == CheckoutSpec => []OneRowEach
<1>1. CheckoutInv => OneRowEach
  BY DEF CheckoutInv
<1> QED BY <1>1, CheckoutInvariant, PTL

-----------------------------------------------------------------------------
(***************************************************************************)
(* The counter of the product, which its offers share.  OfProduct and      *)
(* SoldOf are folds over the offers of a product: their recursive function *)
(* is shown to exist, and the sums it computes to add up.                  *)
(***************************************************************************)
Pick(s) == CHOOSE x \in s : TRUE

(* g[s] is the sum of f over s, for each subset s of T.                    *)
Fold(f, T, g) ==
  g = [s \in SUBSET T |-> IF s = {} THEN 0 ELSE f[Pick(s)] + g[s \ {Pick(s)}]]

LEMMA PickedLeaves ==
  ASSUME NEW s, IsFiniteSet(s), s # {}
  PROVE  /\ Pick(s) \in s /\ IsFiniteSet(s \ {Pick(s)})
         /\ Cardinality(s) \in Nat /\ Cardinality(s) # 0
         /\ Cardinality(s \ {Pick(s)}) = Cardinality(s) - 1
<1>1. Pick(s) \in s
  BY DEF Pick
<1> QED BY <1>1, FS_RemoveElement, FS_CardinalityType, FS_EmptySet

LEMMA FoldExists ==
  ASSUME NEW T, IsFiniteSet(T), NEW f, \A x \in T : f[x] \in Int
  PROVE  \E g : Fold(f, T, g)
<1> DEFINE Small(n) == {s \in SUBSET T : Cardinality(s) <= n}
           Value(g, s) == IF s = {} THEN 0 ELSE f[Pick(s)] + g[s \ {Pick(s)}]
           Done(n) == \E g \in [Small(n) -> Int] : \A s \in Small(n) : g[s] = Value(g, s)
           S == {n \in Nat : Done(n)}
<1>1. \A s \in SUBSET T : IsFiniteSet(s) /\ Cardinality(s) \in Nat
  BY FS_Subset, FS_CardinalityType
<1>2. 0 \in S
  <2>1. \A s \in Small(0) : s = {}
    BY <1>1, FS_EmptySet
  <2>2. [s \in Small(0) |-> 0] \in [Small(0) -> Int]
    OBVIOUS
  <2>3. \A s \in Small(0) : [t \in Small(0) |-> 0][s] = Value([t \in Small(0) |-> 0], s)
    BY <2>1
  <2> QED BY <2>2, <2>3
<1>3. ASSUME NEW n \in Nat, n \in S PROVE n + 1 \in S
  <2>1. PICK g \in [Small(n) -> Int] : \A s \in Small(n) : g[s] = Value(g, s)
    BY <1>3
  <2> DEFINE h == [s \in Small(n + 1) |-> Value(g, s)]
  <2>2. ASSUME NEW s \in Small(n + 1), s # {} PROVE Pick(s) \in T /\ s \ {Pick(s)} \in Small(n)
    <3>1. /\ Pick(s) \in s /\ Cardinality(s) \in Nat
          /\ Cardinality(s \ {Pick(s)}) = Cardinality(s) - 1
      BY <1>1, <2>2, PickedLeaves
    <3> QED BY <3>1
  <2>3. \A s \in Small(n + 1) : Value(g, s) \in Int
    BY <2>2
  <2>4. h \in [Small(n + 1) -> Int]
    BY <2>3
  <2>5. \A s \in Small(n) : s \in Small(n + 1) /\ h[s] = g[s]
    BY <1>1, <2>1
  <2>6. ASSUME NEW s \in Small(n + 1) PROVE h[s] = Value(h, s)
    <3>1. CASE s = {}
      BY <3>1
    <3>2. CASE s # {}
      <4>1. h[s \ {Pick(s)}] = g[s \ {Pick(s)}]
        BY <2>2, <2>5, <3>2
      <4>2. h[s] = Value(g, s)
        OBVIOUS
      <4> HIDE DEF h
      <4> QED BY <3>2, <4>1, <4>2
    <3> QED BY <3>1, <3>2
  <2>7. \A s \in Small(n + 1) : h[s] = Value(h, s)
    BY <2>6
  <2> HIDE DEF h, Small, Value
  <2>8. Done(n + 1)
    BY <2>4, <2>7, Zenon
  <2> QED BY <2>8
<1> HIDE DEF S
<1>4. Cardinality(T) \in S
  BY <1>2, <1>3, SetInduction, FS_CardinalityType
<1>5. \A s \in SUBSET T : s \in Small(Cardinality(T))
  BY FS_Subset
<1>6. PICK g \in [Small(Cardinality(T)) -> Int] : \A s \in Small(Cardinality(T)) : g[s] = Value(g, s)
  BY <1>4 DEF S
<1>7. Small(Cardinality(T)) = SUBSET T
  BY <1>5
<1>8. g = [s \in SUBSET T |-> Value(g, s)]
  BY <1>6, <1>7
<1> QED BY <1>8 DEF Fold

(* Sums over a finite set add up.                                          *)
LEMMA FoldAdds ==
  ASSUME NEW T, IsFiniteSet(T), NEW f, NEW a, NEW b,
         \A x \in T : f[x] \in Int /\ a[x] \in Int /\ b[x] = f[x] + a[x],
         NEW g, Fold(f, T, g), NEW d, Fold(a, T, d), NEW e, Fold(b, T, e)
  PROVE  g[T] \in Int /\ d[T] \in Int /\ e[T] = g[T] + d[T]
<1> DEFINE Good(s) == g[s] \in Int /\ d[s] \in Int /\ e[s] = g[s] + d[s]
           S == {n \in Nat : \A s \in SUBSET T : Cardinality(s) = n => Good(s)}
<1>1. \A s \in SUBSET T : /\ g[s] = IF s = {} THEN 0 ELSE f[Pick(s)] + g[s \ {Pick(s)}]
                          /\ d[s] = IF s = {} THEN 0 ELSE a[Pick(s)] + d[s \ {Pick(s)}]
                          /\ e[s] = IF s = {} THEN 0 ELSE b[Pick(s)] + e[s \ {Pick(s)}]
  BY DEF Fold
<1>2. \A s \in SUBSET T : IsFiniteSet(s)
  BY FS_Subset
<1>3. 0 \in S
  <2>1. \A s \in SUBSET T : Cardinality(s) = 0 => s = {}
    BY <1>2, FS_EmptySet
  <2>2. Good({})
    BY <1>1
  <2> HIDE DEF Good
  <2> QED BY <2>1, <2>2
<1>4. ASSUME NEW n \in Nat, n \in S PROVE n + 1 \in S
  <2>1. ASSUME NEW s \in SUBSET T, Cardinality(s) = n + 1 PROVE Good(s)
    <3>0. IsFiniteSet(s) /\ Cardinality(s) # 0
      BY <1>2, <2>1
    <3>1. s # {}
      BY <3>0, FS_EmptySet
    <3>2. PICK x, t : x = Pick(s) /\ t = s \ {Pick(s)}
      OBVIOUS
    <3>3. x \in T /\ t \in SUBSET T /\ Cardinality(t) = n
      <4>1. x \in s /\ Cardinality(t) = Cardinality(s) - 1
        BY <3>0, <3>1, <3>2, PickedLeaves
      <4> QED BY <2>1, <3>2, <4>1
    <3>4. Good(t)
      BY <1>4, <3>3
    <3>5. g[s] = f[x] + g[t] /\ d[s] = a[x] + d[t] /\ e[s] = b[x] + e[t]
      BY <1>1, <3>1, <3>2
    <3> QED BY <3>3, <3>4, <3>5
  <2> HIDE DEF Good
  <2> QED BY <2>1
<1> HIDE DEF S
<1>5. Cardinality(T) \in S
  BY <1>3, <1>4, SetInduction, FS_CardinalityType
<1> QED BY <1>5 DEF S

LEMMA FoldOfNone ==
  ASSUME NEW T, IsFiniteSet(T), NEW f, \A x \in T : f[x] = 0, NEW g, Fold(f, T, g)
  PROVE  g[T] = 0
<1> DEFINE S == {n \in Nat : \A s \in SUBSET T : Cardinality(s) = n => g[s] = 0}
<1>1. \A s \in SUBSET T : g[s] = IF s = {} THEN 0 ELSE f[Pick(s)] + g[s \ {Pick(s)}]
  BY DEF Fold
<1>2. \A s \in SUBSET T : IsFiniteSet(s)
  BY FS_Subset
<1>3. 0 \in S
  <2>1. \A s \in SUBSET T : Cardinality(s) = 0 => s = {}
    BY <1>2, FS_EmptySet
  <2> QED BY <1>1, <2>1
<1>4. ASSUME NEW n \in Nat, n \in S PROVE n + 1 \in S
  <2>1. ASSUME NEW s \in SUBSET T, Cardinality(s) = n + 1 PROVE g[s] = 0
    <3>1. IsFiniteSet(s) /\ Cardinality(s) # 0
      BY <1>2, <2>1
    <3>2. s # {}
      BY <3>1, FS_EmptySet
    <3>3. PICK x, t : x = Pick(s) /\ t = s \ {Pick(s)}
      OBVIOUS
    <3>4. x \in T /\ t \in SUBSET T /\ Cardinality(t) = n
      <4>1. x \in s /\ Cardinality(t) = Cardinality(s) - 1
        BY <3>1, <3>2, <3>3, PickedLeaves
      <4> QED BY <2>1, <3>3, <4>1
    <3>5. g[s] = f[x] + g[t]
      BY <1>1, <3>2, <3>3
    <3> QED BY <1>4, <3>4, <3>5
  <2> QED BY <2>1
<1> HIDE DEF S
<1>5. Cardinality(T) \in S
  BY <1>3, <1>4, SetInduction, FS_CardinalityType
<1> QED BY <1>5 DEF S
OffersOf(p) == {o \in Offers : ProductOf[o] = p}

LEMMA FiniteOffers == \A p : IsFiniteSet(OffersOf(p))
<1>1. \A p : OffersOf(p) \subseteq Offers
  BY DEF OffersOf
<1> QED BY <1>1, CheckoutAssumption, FS_Subset DEF CheckoutAssumption

LEMMA ProductFold ==
  ASSUME NEW quantity \in [Offers -> Nat], NEW p
  PROVE  \E g : Fold(quantity, OffersOf(p), g) /\ OfProduct(quantity, p) = g[OffersOf(p)]
<1>1. \A o \in OffersOf(p) : quantity[o] \in Int
  BY DEF OffersOf
<1> DEFINE sums == CHOOSE g : Fold(quantity, OffersOf(p), g)
<1>2. Fold(quantity, OffersOf(p), sums)
  BY <1>1, FoldExists, FiniteOffers
<1>3. OfProduct(quantity, p) = sums[OffersOf(p)]
  BY DEF OfProduct, MapThenSumSet, MapThenFoldSet, Fold, Pick, OffersOf
<1> QED BY <1>2, <1>3

Solds == [o \in Offers |-> Sold(o)]

LEMMA SoldFold ==
  (\A o \in Offers : Sold(o) \in Int)
    => \A p : \E g : Fold(Solds, OffersOf(p), g) /\ SoldOf(p) = g[OffersOf(p)]
<1> SUFFICES ASSUME \A o \in Offers : Sold(o) \in Int, NEW p
             PROVE  \E g : Fold(Solds, OffersOf(p), g) /\ SoldOf(p) = g[OffersOf(p)]
  OBVIOUS
<1> DEFINE T == OffersOf(p)
           Sums(g) == g = [s \in SUBSET T |-> IF s = {} THEN 0
                                              ELSE Sold(Pick(s)) + g[s \ {Pick(s)}]]
<1>1. \A o \in T : Solds[o] = Sold(o) /\ Solds[o] \in Int
  BY DEF Solds, OffersOf
<1>2. \A s \in SUBSET T : s # {} => Solds[Pick(s)] = Sold(Pick(s))
  BY <1>1 DEF Pick
<1>3. \A g : Sums(g) <=> Fold(Solds, T, g)
  <2> SUFFICES ASSUME NEW g PROVE Sums(g) <=> Fold(Solds, T, g)
    OBVIOUS
  <2> HIDE DEF T
  <2>1. [s \in SUBSET T |-> IF s = {} THEN 0 ELSE Sold(Pick(s)) + g[s \ {Pick(s)}]]
        = [s \in SUBSET T |-> IF s = {} THEN 0 ELSE Solds[Pick(s)] + g[s \ {Pick(s)}]]
    BY <1>2
  <2> QED BY <2>1 DEF Fold
<1>4. \E g : Fold(Solds, T, g)
  BY <1>1, FoldExists, FiniteOffers
<1> DEFINE sums == CHOOSE g : Sums(g)
<1>5. Sums(sums)
  BY <1>3, <1>4
<1>6. SoldOf(p) = sums[T]
  BY DEF SoldOf, MapThenSumSet, MapThenFoldSet, Pick, OffersOf
<1> QED BY <1>3, <1>5, <1>6

LEMMA SoldFoldLater ==
  ASSUME \A o \in Offers : Sold(o)' \in Int
  PROVE  \A p : \E g : Fold(Solds', OffersOf(p), g) /\ SoldOf(p)' = g[OffersOf(p)]
<1>1. (\A o \in Offers : Sold(o) \in Int)'
    => (\A p : \E g : Fold(Solds, OffersOf(p), g) /\ SoldOf(p) = g[OffersOf(p)])'
  BY SoldFold, PTL
<1> QED BY <1>1

(* An order adds to what is sold of a product what it takes of it.         *)
LEMMA ProductSoldGrows ==
  ASSUME NEW quantity \in [Offers -> Nat], NEW p,
         \A o \in Offers : Sold(o) \in Int /\ Sold(o)' = Sold(o) + quantity[o]
  PROVE  /\ SoldOf(p) \in Int /\ OfProduct(quantity, p) \in Int
         /\ SoldOf(p)' = SoldOf(p) + OfProduct(quantity, p)
<1> DEFINE T == OffersOf(p)
<1>1. PICK g : Fold(Solds, T, g) /\ SoldOf(p) = g[T]
  BY SoldFold
<1>2. PICK d : Fold(quantity, T, d) /\ OfProduct(quantity, p) = d[T]
  BY ProductFold
<1>3. \A o \in Offers : Sold(o)' \in Int
  OBVIOUS
<1>4. PICK e : Fold(Solds', T, e) /\ SoldOf(p)' = e[T]
  BY <1>3, SoldFoldLater
<1>5. \A o \in T : /\ Solds[o] \in Int /\ quantity[o] \in Int
                   /\ Solds'[o] = Solds[o] + quantity[o]
  BY DEF Solds, OffersOf
<1>6. IsFiniteSet(T)
  BY FiniteOffers
<1> HIDE DEF T
<1>7. g[T] \in Int /\ d[T] \in Int /\ e[T] = g[T] + d[T]
  BY <1>1, <1>2, <1>4, <1>5, <1>6, FoldAdds
<1> QED BY <1>1, <1>2, <1>4, <1>7

LEMMA NothingSold ==
  ASSUME \A o \in Offers : Sold(o) = 0, NEW p
  PROVE  SoldOf(p) = 0
<1>1. PICK g : Fold(Solds, OffersOf(p), g) /\ SoldOf(p) = g[OffersOf(p)]
  BY SoldFold
<1>2. \A o \in OffersOf(p) : Solds[o] = 0
  BY DEF Solds, OffersOf
<1> QED BY <1>1, <1>2, FiniteOffers, FoldOfNone

LEMMA ProductSoldKept ==
  ASSUME \A o \in Offers : Sold(o) \in Int, orders' = orders, NEW p
  PROVE  SoldOf(p)' = SoldOf(p)
<1> DEFINE none == [o \in Offers |-> 0]
<1>1. \A o \in Offers : Sold(o)' = Sold(o)
  BY SoldKept
<1>2. none \in [Offers -> Nat] /\ \A o \in Offers : none[o] = 0
  OBVIOUS
<1> HIDE DEF none
<1>3. SoldOf(p) \in Int /\ SoldOf(p)' = SoldOf(p) + OfProduct(none, p)
  BY <1>1, <1>2, ProductSoldGrows
<1>4. OfProduct(none, p) = 0
  <2>1. PICK g : Fold(none, OffersOf(p), g) /\ OfProduct(none, p) = g[OffersOf(p)]
    BY <1>2, ProductFold
  <2>2. \A o \in OffersOf(p) : none[o] = 0
    BY <1>2 DEF OffersOf
  <2> QED BY <2>1, <2>2, FiniteOffers, FoldOfNone
<1> QED BY <1>3, <1>4

LEMMA SoldIsInteger ==
  ASSUME ContextTypes
  PROVE  \A o \in Offers : Sold(o) \in Int
<1> SUFFICES ASSUME NEW o \in Offers PROVE Sold(o) \in Int
  OBVIOUS
<1> DEFINE n == Len(orders)
           col == [i \in DOMAIN orders |-> orders[i].quantity[o]]
<1>1. n \in Nat /\ DOMAIN orders = 1..n /\ \A i \in 1..n : orders[i] \in Order
  BY DEF ContextTypes
<1>2. \A i \in 1..n : col[i] \in Int
  BY <1>1 DEF Order
<1>3. Sold(o) = SumRows(col, n)
  BY DEF Sold
<1> HIDE DEF n, col
<1> QED BY <1>1, <1>2, <1>3, SumType, Zenon

-----------------------------------------------------------------------------
ProductTypes == productStocks \in [Products -> Nat] /\ published \in [Products -> BOOLEAN]

(* An admin who restocks a product takes its counter out of the account.   *)
ProductInv ==
  /\ CheckoutInv
  /\ ProductTypes
  /\ RestockProducts = {} => ProductSoldIsTaken

LEMMA ProductStays ==
  ASSUME ProductInv, CheckoutInv', productStocks' = productStocks,
         published' \in [Products -> BOOLEAN], orders' = orders
  PROVE  ProductInv'
<1>1. \A o \in Offers : Sold(o) \in Int
  BY SoldIsInteger DEF ProductInv, CheckoutInv
<1>2. \A p \in Products : SoldOf(p)' = SoldOf(p)
  BY <1>1, ProductSoldKept
<1>3. ProductTypes'
  BY DEF ProductInv, ProductTypes
<1>4. ASSUME RestockProducts = {} PROVE ProductSoldIsTaken'
  BY <1>2, <1>4 DEF ProductInv, ProductSoldIsTaken
<1> QED BY <1>3, <1>4 DEF ProductInv

LEMMA PlaceOrderKeepsProducts ==
  ASSUME ProductInv, CheckoutInv', NEW h \in Handlers, PlaceOrder(h)
  PROVE  ProductInv'
<1> DEFINE c == calls[h]
           order == [customer |-> c.customer, quantity |-> c.quantity,
                     price |-> c.price, rows |-> c.rows]
<1>1. ContextTypes /\ ProductTypes
  BY DEF ProductInv, CheckoutInv
<1>2. c \in BuyCall
  BY <1>1, CallKinds DEF ContextTypes, PlaceOrder, In
<1>3. c.quantity \in [Offers -> Nat]
  BY <1>2 DEF BuyCall
<1>4. order \in Order /\ order.quantity = c.quantity
  BY <1>2 DEF BuyCall, Order
<1>5. published' = published
  BY DEF PlaceOrder
<1>6. CASE productStocks' = productStocks /\ orders' = orders
  BY <1>1, <1>5, <1>6, ProductStays DEF ProductTypes
<1>7. CASE /\ InStock(c.quantity)
           /\ productStocks' = ProductStocksWithout(c.quantity)
           /\ orders' = Append(orders, order)
  <2> HIDE DEF order
  <2>1. \A o \in Offers : Sold(o) \in Int /\ Sold(o)' = Sold(o) + c.quantity[o]
    BY <1>1, <1>4, <1>7, SoldGrows, SoldIsInteger DEF ContextTypes
  <2>2. ASSUME NEW p \in Products
        PROVE  /\ SoldOf(p) \in Int /\ OfProduct(c.quantity, p) \in Int
               /\ SoldOf(p)' = SoldOf(p) + OfProduct(c.quantity, p)
               /\ productStocks[p] \in Nat
               /\ productStocks[p] >= OfProduct(c.quantity, p)
               /\ productStocks'[p] = productStocks[p] - OfProduct(c.quantity, p)
    <3>1. /\ productStocks[p] \in Nat
          /\ productStocks[p] >= OfProduct(c.quantity, p)
          /\ productStocks'[p] = productStocks[p] - OfProduct(c.quantity, p)
      BY <1>1, <1>7 DEF ProductTypes, InStock, ProductStocksWithout
    <3> HIDE DEF c
    <3> QED BY <1>3, <2>1, <3>1, ProductSoldGrows
  <2>3. ProductTypes'
    <3>1. \A p \in Products : productStocks'[p] \in Nat
      BY <2>2
    <3>2. productStocks' = [p \in Products |-> productStocks'[p]]
      BY <1>7 DEF ProductStocksWithout
    <3> QED BY <1>1, <1>5, <3>1, <3>2 DEF ProductTypes
  <2>4. ASSUME RestockProducts = {} PROVE ProductSoldIsTaken'
    <3>1. SUFFICES ASSUME NEW p \in Products
                   PROVE  productStocks'[p] + SoldOf(p)' = ProductStock[p]
      BY DEF ProductSoldIsTaken
    <3>2. productStocks[p] + SoldOf(p) = ProductStock[p]
      BY <2>4 DEF ProductInv, ProductSoldIsTaken
    <3> HIDE DEF c
    <3> QED BY <2>2, <3>2
  <2> QED BY <2>3, <2>4 DEF ProductInv
<1> QED BY <1>6, <1>7 DEF PlaceOrder

LEMMA EditProductKeepsProducts ==
  ASSUME ProductInv, CheckoutInv', NEW p \in Products, NEW shown \in BOOLEAN,
         NEW stock \in RestockProducts \cup {productStocks[p]}, EditProduct(p, shown, stock)
  PROVE  ProductInv'
<1>1. ProductTypes
  BY DEF ProductInv
<1>2. stock \in Nat
  BY <1>1, CheckoutAssumption DEF CheckoutAssumption, ProductTypes
<1>3. orders' = orders /\ published' \in [Products -> BOOLEAN]
  BY <1>1 DEF EditProduct, ProductTypes
<1>4. CASE RestockProducts = {}
  <2>1. productStocks' = productStocks
    BY <1>1, <1>4 DEF EditProduct, ProductTypes
  <2> QED BY <1>3, <2>1, ProductStays
<1>5. CASE RestockProducts # {}
  <2>1. ProductTypes'
    BY <1>1, <1>2, <1>3 DEF EditProduct, ProductTypes
  <2> QED BY <1>5, <2>1 DEF ProductInv
<1> QED BY <1>4, <1>5

LEMMA ProductNextPreserves ==
  ASSUME ProductInv, CheckoutNext
  PROVE  ProductInv'
<1>1. CheckoutInv'
  BY CheckoutNextPreserves DEF ProductInv
<1>2. published \in [Products -> BOOLEAN]
  BY DEF ProductInv, ProductTypes
<1>3. ASSUME productStocks' = productStocks, published' = published, orders' = orders
      PROVE  ProductInv'
  BY <1>1, <1>2, <1>3, ProductStays
<1>4. ASSUME NEW h \in Handlers, NEW c \in Customers, NEW o \in Offers, NEW q \in Quantities,
             ReadToAdd(h, c, o, q) \/ ReadBody(h, c, o, q)
      PROVE  ProductInv'
  BY <1>3, <1>4 DEF ReadToAdd, ReadBody
<1>5. ASSUME NEW h \in Handlers, NEW i \in DOMAIN cartItems, NEW q \in Quantities,
             ReadToUpdate(h, i, q)
      PROVE  ProductInv'
  BY <1>3, <1>5 DEF ReadToUpdate
<1>6. ASSUME NEW h \in Handlers, NEW o \in Offers, ResolveItem(h, o) \/ LoadOffer(h, o)
      PROVE  ProductInv'
  BY <1>3, <1>6 DEF ResolveItem, LoadOffer
<1>7. ASSUME NEW h \in Handlers, SaveItem(h) \/ SaveOffer(h) \/ SaveReview(h) \/ Abort(h)
      PROVE  ProductInv'
  BY <1>3, <1>7 DEF SaveItem, SaveOffer, SaveReview, Abort
<1>8. ASSUME NEW h \in Handlers, PublishProduct(h)
      PROVE  ProductInv'
  <2>1. PICK shown \in BOOLEAN :
          published' = [published EXCEPT ![ProductOf[calls[h].offer]] = shown]
    BY <1>8 DEF PublishProduct
  <2>2. published' \in [Products -> BOOLEAN]
    BY <1>2, <2>1
  <2>3. productStocks' = productStocks /\ orders' = orders
    BY <1>8 DEF PublishProduct
  <2> QED BY <1>1, <2>2, <2>3, ProductStays
<1>9. ASSUME NEW i \in DOMAIN cartItems, RemoveItem(i)
      PROVE  ProductInv'
  BY <1>3, <1>9 DEF RemoveItem
<1>10. ASSUME NEW c \in Customers, Clear(c)
       PROVE  ProductInv'
  BY <1>3, <1>10 DEF Clear
<1>11. ASSUME NEW h \in Handlers, PlaceOrder(h)
       PROVE  ProductInv'
  BY <1>1, <1>11, PlaceOrderKeepsProducts
<1>12. ASSUME NEW p \in Products, NEW shown \in BOOLEAN,
              NEW stock \in RestockProducts \cup {productStocks[p]},
              EditProduct(p, shown, stock)
       PROVE  ProductInv'
  BY <1>1, <1>12, EditProductKeepsProducts
<1>13. ASSUME NEW h \in Handlers, NEW c \in Customers, ReadCart(h, c)
       PROVE  ProductInv'
  BY <1>3, <1>13 DEF ReadCart
<1> QED BY <1>4, <1>5, <1>6, <1>7, <1>8, <1>9, <1>10, <1>11, <1>12, <1>13, Zenon
        DEF CheckoutNext

LEMMA ProductsStart ==
  ASSUME CheckoutInit
  PROVE  ProductInv
<1>1. CheckoutInv
  BY CheckoutStarts
<1>2. ProductTypes
  BY CheckoutAssumption DEF CheckoutInit, CheckoutAssumption, ProductTypes
<1>3. ProductSoldIsTaken
  <2>1. ASSUME NEW o \in Offers PROVE Sold(o) = 0
    BY SumEmpty DEF CheckoutInit, Sold
  <2>2. SUFFICES ASSUME NEW p \in Products
                 PROVE  productStocks[p] + SoldOf(p) = ProductStock[p]
    BY DEF ProductSoldIsTaken
  <2>3. SoldOf(p) = 0
    BY <2>1, NothingSold
  <2>4. productStocks[p] = ProductStock[p] /\ ProductStock[p] \in Nat
    BY CheckoutAssumption DEF CheckoutInit, CheckoutAssumption
  <2> QED BY <2>3, <2>4
<1> QED BY <1>1, <1>2, <1>3 DEF ProductInv

(* The stock of every product stays a natural number, and what its orders took *)
(* adds up with what is left, as long as no administrator writes the counter.  *)
THEOREM ProductInvariant == CheckoutSpec => []ProductInv
<1>1. CheckoutInit => ProductInv
  BY ProductsStart
<1>2. ProductInv /\ [CheckoutNext]_checkoutVars => ProductInv'
  <2> SUFFICES ASSUME ProductInv, [CheckoutNext]_checkoutVars PROVE ProductInv'
    OBVIOUS
  <2>1. CASE CheckoutNext
    BY <2>1, ProductNextPreserves
  <2>2. CASE UNCHANGED checkoutVars
    <3>1. CheckoutInv'
      BY <2>2, CheckoutStutter DEF checkoutVars, ProductInv
    <3> QED BY <2>2, <3>1, ProductStays DEF checkoutVars, ProductInv, ProductTypes
  <2> QED BY <2>1, <2>2
<1> QED BY <1>1, <1>2, PTL DEF CheckoutSpec

(* The counter that all offers of a product share accounts for every unit  *)
(* in an order, whatever sellers write into their offers meanwhile: no     *)
(* checkout sells a unit of the product twice.  An admin may edit the      *)
(* product, but not put a new figure into its counter.                     *)
THEOREM NoProductOversold ==
  RestockProducts = {} => (CheckoutSpec => []ProductSoldIsTaken)
<1> SUFFICES ASSUME RestockProducts = {} PROVE CheckoutSpec => []ProductSoldIsTaken
  OBVIOUS
<1>1. ProductInv => ProductSoldIsTaken
  BY DEF ProductInv
<1> QED BY <1>1, ProductInvariant, PTL

(* Types: no counter of seller_offers or product_stocks goes below zero,   *)
(* and no cart has two rows for one offer.                                 *)
THEOREM CheckoutTypes == CheckoutSpec => []CheckoutTypeOK
<1>1. ProductInv => CheckoutTypeOK
  <2> SUFFICES ASSUME ProductInv PROVE CheckoutTypeOK
    OBVIOUS
  <2>1. ContextTypes /\ OneRowEach /\ ProductTypes
    BY DEF ProductInv, CheckoutInv
  <2>2. ASSUME NEW c \in Customers, NEW o \in Offers
        PROVE  Cardinality(RowsFor(c, o)) <= 1
    <3>1. CASE RowsFor(c, o) = {}
      BY <3>1, FS_EmptySet
    <3>2. CASE RowsFor(c, o) # {}
      <4>1. PICK i \in RowsFor(c, o) : TRUE
        BY <3>2
      <4>2. \A j \in RowsFor(c, o) : j = i
        BY <2>1, <4>1, Zenon DEF OneRowEach, RowsFor, RowsOf
      <4>3. RowsFor(c, o) = {i}
        BY <4>1, <4>2
      <4> QED BY <4>3, FS_Singleton
    <3> QED BY <3>1, <3>2
  <2> QED BY <2>1, <2>2 DEF ContextTypes, ProductTypes, CheckoutTypeOK
<1> QED BY <1>1, ProductInvariant, PTL
=============================================================================
