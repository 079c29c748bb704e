----------------------------- MODULE MCTenants -----------------------------
(* Tenants, starting from a super-admin, a shop without users, and a       *)
(* contract that is not linked; another user, shop and contract may come.  *)
EXTENDS Tenants, TLC

CONSTANTS owner, clerk, shop, stall, deed, annex

Owner == [role |-> "super-admin", extra |-> {}, seller |-> None, admin |-> None]

MCFirstUsers == [u \in Users |-> IF u = owner THEN Owner ELSE None]
MCFirstContracts == [c \in Contracts |-> IF c = deed THEN [seller |-> None, users |-> {}] ELSE None]

TenantSymmetry == Permutations(Handlers)
=============================================================================
