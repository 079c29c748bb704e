CONSTANTS
  ann = ann
  bob = bob
  phone = phone
  a = a
  b = b
  h1 = h1
  h2 = h2
  Customers = {ann}
  Offers = {a, b}
  Products = {phone}
  ProductOf <- AllPhone
  OfferStock <- TwoEach
  ProductStock <- ThreePhones
  Prices = {1}
  Quantities = {1}
  EditedOffers = {b}
  EditedProducts = {phone}
  RestockOffers = {}
  RestockProducts = {}
  Handlers = {h1, h2}
  MaxItems = 2
  MaxOrders = 3

SPECIFICATION CheckoutSpec
SYMMETRY RequestSymmetry

INVARIANTS
  CheckoutTypeOK
  SoldIsTaken
  ProductSoldIsTaken

CHECK_DEADLOCK FALSE
