SPECIFICATION TenantsSpec
CONSTANTS
  owner = owner
  clerk = clerk
  shop = shop
  stall = stall
  deed = deed
  annex = annex
  Users = {owner, clerk}
  Sellers = {shop, stall}
  Contracts = {deed, annex}
  Admins = {boss}
  CustomRoles = {editor}
  None = None
  Super = Super
  Handlers = {h1, h2}
  MaxExtra = 1
  MaxRequests = 3
  FirstUsers <- MCFirstUsers
  FirstContracts <- MCFirstContracts
  FirstSellers = {shop}
SYMMETRY TenantSymmetry

INVARIANTS
  RolesAreLimited

PROPERTIES
  SuperAdminStays
  AssignedOnce
  SellersKeepApart

CHECK_DEADLOCK FALSE
