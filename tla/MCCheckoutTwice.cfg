CONSTANTS
  ann = ann
  bob = bob
  phone = phone
  a = a
  b = b
  h1 = h1
  h2 = h2
  Customers = {ann}
  Offers = {a}
  Products = {phone}
  ProductOf <- AllPhone
  OfferStock <- PlentyEach
  ProductStock <- PlentyPhones
  Prices = {1}
  Quantities = {1}
  EditedOffers = {}
  EditedProducts = {}
  RestockOffers = {}
  RestockProducts = {}
  Handlers = {h1, h2}
  MaxItems = 2
  MaxOrders = 3

SPECIFICATION CheckoutSpec
SYMMETRY RequestSymmetry

INVARIANTS
  RowsBoughtOnce

CHECK_DEADLOCK FALSE
