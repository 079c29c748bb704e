------------------------------ MODULE Tenants ------------------------------
(***************************************************************************)
(* UsersService, RolesService, SellersService, SellerContractsService and  *)
(* AdminsService: who belongs to which seller, with which roles.           *)
(*                                                                         *)
(* A request reads what it decides on, waits, and writes; only the         *)
(* creation of a seller has a transaction, which opens after its reads.    *)
(* save() of a loaded entity writes the columns in which it differs from   *)
(* the stored row, hence those another request has changed since, and      *)
(* inserts the row again when it is gone.                                  *)
(***************************************************************************)
EXTENDS Integers, FiniteSets

CONSTANTS
  Users, Sellers, Contracts, Admins,   \* ids of rows
  CustomRoles,  \* ids of roles that are not system roles
  None,         \* null, and an id without a row
  Super,        \* the scope of a super-admin; other scopes are sellers
  Handlers,     \* concurrent requests
  FirstUsers, FirstContracts, FirstSellers,   \* the tables at the start
  MaxExtra,     \* bound: extra roles of one request (the DTO allows nine)
  MaxRequests   \* bound: requests accepted

ASSUME TenantsAssumption ==
  /\ None \notin Users \cup Sellers \cup Contracts \cup Admins
  /\ Super \notin Sellers \cup {None}
  /\ MaxExtra \in Nat
  /\ MaxRequests \in Nat

VARIABLES
  users, roles, contracts,   \* tables
  sellers, admins,           \* ids with a row
  used,      \* ids handed out by newId()
  calls,     \* the request each handler is in the middle of
  requests,  \* number of requests accepted
  raced      \* history: rows written while another request had them in hand

tenantVars == <<users, roles, contracts, sellers, admins, used, calls, requests, raced>>

(* DEFAULT_ROLE_SLUGS; the ids of the system roles are their slugs.        *)
SystemSlugs == {"user", "seller", "admin", "super-admin"}
Slugs == SystemSlugs \cup {"editor"}

RoleIds == SystemSlugs \cup CustomRoles

(* What a role may give: permissions that sellers can hand out, and        *)
(* SUPER_ADMIN_ONLY_PERMISSIONS.                                           *)
Permissions == {"assignable", "restricted"}
SellerAssignable == {"assignable"}

DefaultPermissions ==
  [slug \in SystemSlugs |->
    IF slug = "super-admin" THEN Permissions
    ELSE IF slug = "seller" THEN SellerAssignable ELSE {}]

Audiences == {"user", "seller", "admin"}

DefaultAudience ==
  [slug \in SystemSlugs |-> IF slug = "super-admin" THEN "admin" ELSE slug]

User ==
  [role : RoleIds, extra : SUBSET RoleIds, seller : Sellers \cup {None},
   admin : Admins \cup {None}]

Role ==
  [slug : Slugs, permissions : SUBSET Permissions, system : BOOLEAN, audience : Audiences,
   seller : Sellers \cup {None}]

Contract == [seller : Sellers \cup {None}, users : SUBSET Users]

(* The seed has given the first users system roles; a custom role has an   *)
(* id of its own.                                                          *)
ASSUME FirstRowsAssumption ==
  /\ None \notin User \cup Role \cup Contract
  /\ CustomRoles \cap SystemSlugs = {}
  /\ FirstSellers \subseteq Sellers
  /\ FirstUsers \in
       [Users -> [role : SystemSlugs, extra : SUBSET SystemSlugs,
                  seller : FirstSellers \cup {None}, admin : {None}] \cup {None}]
  /\ FirstContracts \in
       [Contracts -> [seller : FirstSellers \cup {None}, users : SUBSET Users] \cup {None}]

(* TenantScope: what the token says of role and seller.  None is a seller's*)
(* user without seller.                                                    *)
Scopes == {Super, None} \cup Sellers

Idle == [op |-> "idle"]

Call ==
  {Idle}
  \cup [op : {"saveUser"}, scope : Scopes, id : Users, row : User]
  \cup [op : {"saveRole"}, scope : Scopes, id : RoleIds, row : Role]
  \cup [op : {"saveContract"}, scope : Scopes, id : Contracts, row : Contract]
  \cup [op : {"dropUser"}, scope : Scopes, id : Users]
  \cup [op : {"dropRole"}, scope : Scopes, id : RoleIds]
  \cup [op : {"dropSeller"}, scope : {Super}, id : Sellers]
  \cup [op : {"dropContract"}, scope : Scopes, id : Contracts]
  \cup [op : {"readAdmins"}, scope : {Super}, id : Sellers, contract : Contracts \cup {None},
        users : SUBSET Users]
  \cup [op : {"openShop"}, scope : {Super}, id : Sellers, contract : Contracts \cup {None},
        users : SUBSET Users, supers : SUBSET Users]
  \cup [op : {"saveAdmin", "checkAdmin", "clearAdmin", "linkAdmin"}, scope : {Super},
        id : Admins, users : SUBSET Users]
  \cup [op : {"unlinkAdmin", "dropAdmin"}, scope : {Super}, id : Admins]

-----------------------------------------------------------------------------
In(h, op) == calls[h].op = op

Goto(h, call) == calls' = [calls EXCEPT ![h] = call]

Finish(h) == Goto(h, Idle)

Free(h) == calls[h] = Idle /\ requests < MaxRequests

Accept(h, call) ==
  /\ requests' = requests + 1
  /\ Goto(h, call)
  /\ UNCHANGED raced

HasUser(u) == users[u] # None
HasRole(r) == roles[r] # None
HasContract(c) == contracts[c] # None

(* Mutant: the rows of every seller are within reach.                      *)
AccessToAny(scope, seller) == TRUE
(* canAccessSellerData                                                     *)
CanAccess(scope, seller) == scope = Super \/ (seller # None /\ scope = seller)

(* The rows a request has read and will write.                             *)
Holds(call) ==
  IF call.op = "idle" THEN {}
  ELSE IF call.op \in {"readAdmins", "openShop"} THEN call.users \cup {call.contract}
  ELSE IF call.op \in {"saveAdmin", "checkAdmin", "clearAdmin", "linkAdmin"}
  THEN call.users \cup {call.id}
  ELSE {call.id}

(* Written rows that other requests hold are raced for.                    *)
Writes(h, rows) ==
  /\ UNCHANGED requests
  /\ raced' = raced \cup {x \in rows : \E g \in Handlers \ {h} : x \in Holds(calls[g])}

(* Foreign keys.                                                           *)
SellerRef(seller) == seller = None \/ seller \in sellers
UserRefs(row) ==
  HasRole(row.role) /\ SellerRef(row.seller) /\ (row.admin = None \/ row.admin \in admins)

RolesBySlug(slug, seller) ==
  {r \in RoleIds : HasRole(r) /\ roles[r].slug = slug /\ roles[r].seller = seller}

SlugFree(slug, seller) == RolesBySlug(slug, seller) = {}

(* PermissionsGuard: the roles of the token are looked up by slug, without *)
(* a seller.  Extra roles only add permissions; what super-admins alone    *)
(* may do, the services test by the primary role, which is the scope.      *)
Guarded(scope, permission) ==
  \E r \in RolesBySlug(IF scope = Super THEN "super-admin" ELSE "seller", None) :
    permission \in roles[r].permissions

-----------------------------------------------------------------------------
MayAssign(scope, r) ==
  HasRole(r) /\ (scope = Super \/ roles[r].seller \in {None, scope})

(* resolveRoleIds: the first role is the primary one, the others are extra.*)
(* Any role without a seller may be given, a system role included.         *)
RoleLists(scope) ==
  {list \in [primary : RoleIds, extra : SUBSET RoleIds] :
     /\ list.primary \notin list.extra
     /\ Cardinality(list.extra) <= MaxExtra
     /\ \A r \in {list.primary} \cup list.extra : MayAssign(scope, r)}

(* resolveSellerId of users: of the request, or else of the role.          *)
SellersForUser(scope, role) ==
  IF scope = Super THEN sellers \cup {roles[role].seller}
  ELSE {s \in {scope} \ {None} : roles[role].seller \in {None, s}}

CreateUser(h, scope, u) ==
  /\ Free(h)
  /\ u \notin used
  /\ \E list \in RoleLists(scope) : \E seller \in SellersForUser(scope, list.primary) :
       Accept(h, [op |-> "saveUser", scope |-> scope, id |-> u,
                  row |-> [role |-> list.primary, extra |-> list.extra, seller |-> seller,
                           admin |-> None]])
  /\ used' = used \cup {u}
  /\ UNCHANGED <<users, roles, contracts, sellers, admins>>

(* Of the roles in the request only the extra ones arrive: save() prefers  *)
(* the loaded relation `role` to the column roleId.                        *)
UpdateUser(h, scope, u) ==
  /\ Free(h)
  /\ HasUser(u)
  /\ CanAccess(scope, users[u].seller)
  /\ \E extra \in {users[u].extra} \cup {list.extra : list \in RoleLists(scope)} :
       Accept(h, [op |-> "saveUser", scope |-> scope, id |-> u,
                  row |-> [users[u] EXCEPT !.extra = extra]])
  /\ UNCHANGED <<users, roles, contracts, sellers, admins, used>>

(* A row that refers to something removed meanwhile is refused.            *)
SaveUser(h) ==
  /\ In(h, "saveUser")
  /\ IF UserRefs(calls[h].row)
     THEN users' = [users EXCEPT ![calls[h].id] = calls[h].row] /\ Writes(h, {calls[h].id})
     ELSE UNCHANGED users /\ Writes(h, {})
  /\ Finish(h)
  /\ UNCHANGED <<roles, contracts, sellers, admins, used>>

RemoveUser(h, scope, u) ==
  /\ Free(h)
  /\ HasUser(u)
  /\ CanAccess(scope, users[u].seller)
  /\ Accept(h, [op |-> "dropUser", scope |-> scope, id |-> u])
  /\ UNCHANGED <<users, roles, contracts, sellers, admins, used>>

DropUser(h) ==
  /\ In(h, "dropUser")
  /\ users' = [users EXCEPT ![calls[h].id] = None]
  /\ Writes(h, {calls[h].id})
  /\ Finish(h)
  /\ UNCHANGED <<roles, contracts, sellers, admins, used>>

-----------------------------------------------------------------------------
(* resolveSellerId of roles.                                               *)
SellersForRole(scope) == IF scope = Super THEN sellers \cup {None} ELSE {scope} \ {None}

(* Mutant: nothing is kept from the roles of sellers.                      *)
AnyPermissions(permissions, seller) == TRUE
(* assertValidPermissions                                                  *)
ValidPermissions(permissions, seller) == seller # None => permissions \subseteq SellerAssignable

(* resolveRoleAudience                                                     *)
AudiencesFor(seller) == IF seller # None THEN {"seller"} ELSE Audiences

CreateRole(h, scope, r) ==
  /\ Free(h)
  /\ r \notin used
  /\ Guarded(scope, "assignable")
  /\ \E seller \in SellersForRole(scope), slug \in Slugs, permissions \in SUBSET Permissions :
       /\ SlugFree(slug, seller)
       /\ ValidPermissions(permissions, seller)
       /\ \E audience \in AudiencesFor(seller) :
            Accept(h, [op |-> "saveRole", scope |-> scope, id |-> r,
                       row |-> [slug |-> slug, permissions |-> permissions, system |-> FALSE,
                                audience |-> audience, seller |-> seller]])
  /\ used' = used \cup {r}
  /\ UNCHANGED <<users, roles, contracts, sellers, admins>>

(* assertRoleAccessible, and the protection of system roles.               *)
MayEditRole(scope, r) ==
  /\ HasRole(r)
  /\ roles[r].seller = None \/ CanAccess(scope, roles[r].seller)
  /\ ~roles[r].system

UpdateRole(h, scope, r) ==
  /\ Free(h)
  /\ Guarded(scope, "assignable")
  /\ MayEditRole(scope, r)
  /\ \E slug \in Slugs, permissions \in SUBSET Permissions :
       /\ slug = roles[r].slug \/ SlugFree(slug, roles[r].seller)
       /\ ValidPermissions(permissions, roles[r].seller)
       /\ Accept(h, [op |-> "saveRole", scope |-> scope, id |-> r,
                     row |-> [roles[r] EXCEPT !.slug = slug, !.permissions = permissions]])
  /\ UNCHANGED <<users, roles, contracts, sellers, admins, used>>

(* roles has no unique index on slug and seller.                           *)
SaveRole(h) ==
  /\ In(h, "saveRole")
  /\ IF SellerRef(calls[h].row.seller)
     THEN roles' = [roles EXCEPT ![calls[h].id] = calls[h].row] /\ Writes(h, {calls[h].id})
     ELSE UNCHANGED roles /\ Writes(h, {})
  /\ Finish(h)
  /\ UNCHANGED <<users, contracts, sellers, admins, used>>

(* countUsersByRoleId: extra roles are not counted.                        *)
UsersOf(r) == {u \in Users : HasUser(u) /\ users[u].role = r}

RemoveRole(h, scope, r) ==
  /\ Free(h)
  /\ Guarded(scope, "assignable")
  /\ MayEditRole(scope, r)
  /\ UsersOf(r) = {}
  /\ Accept(h, [op |-> "dropRole", scope |-> scope, id |-> r])
  /\ UNCHANGED <<users, roles, contracts, sellers, admins, used>>

RoleUnused(r) == UsersOf(r) = {}

DropRole(h) ==
  /\ In(h, "dropRole")
  /\ IF RoleUnused(calls[h].id)
     THEN roles' = [roles EXCEPT ![calls[h].id] = None] /\ Writes(h, {calls[h].id})
     ELSE UNCHANGED roles /\ Writes(h, {})
  /\ Finish(h)
  /\ UNCHANGED <<users, contracts, sellers, admins, used>>

-----------------------------------------------------------------------------
Unlinked(c) == contracts[c].seller = None

(* SellersService.create, up to the contract.  The unique index on the     *)
(* slug is left out: a creation it refuses changes nothing.                *)
CreateSeller(h, scope, s) ==
  /\ Free(h)
  /\ scope = Super
  /\ Guarded(scope, "restricted")
  /\ s \notin used
  /\ \E named \in SUBSET Users, c \in Contracts \cup {None} :
       /\ c # None => HasContract(c) /\ Unlinked(c)
       /\ Accept(h, [op |-> "readAdmins", scope |-> scope, id |-> s, contract |-> c,
                     users |-> named \cup IF c = None THEN {} ELSE contracts[c].users])
  /\ used' = used \cup {s}
  /\ UNCHANGED <<users, roles, contracts, sellers, admins>>

IsSuperAdmin(u) == users[u].role = "super-admin"

(* Mutant: users of another seller are taken.                              *)
AssignedOrNot(u) == TRUE
Assignable(u) == IsSuperAdmin(u) \/ users[u].seller = None

(* validateAdminUsers                                                      *)
ReadAdmins(h) ==
  /\ In(h, "readAdmins")
  /\ LET wanted == calls[h].users
     IN  IF \A u \in wanted : HasUser(u) /\ Assignable(u)
         THEN Goto(h, [op |-> "openShop", scope |-> Super, id |-> calls[h].id,
                       contract |-> calls[h].contract, users |-> wanted,
                       supers |-> {u \in wanted : IsSuperAdmin(u)}])
         ELSE Finish(h)
  /\ Writes(h, {})
  /\ UNCHANGED <<users, roles, contracts, sellers, admins, used>>

(* Mutant: a super-admin becomes an admin like the others.                 *)
RoleOfAnyAdmin(u, supers) == "admin"
RoleOfAdmin(u, supers) == IF u \in supers THEN users[u].role ELSE "admin"

(* The transaction.  An UPDATE of a row that is gone changes nothing.      *)
OpenShop(h) ==
  /\ In(h, "openShop")
  /\ LET c == calls[h]
     IN  /\ sellers' = sellers \cup {c.id}
         /\ users' = [u \in Users |->
              IF u \in c.users /\ HasUser(u)
              THEN [users[u] EXCEPT !.seller = c.id, !.role = RoleOfAdmin(u, c.supers)]
              ELSE users[u]]
         /\ contracts' = [k \in Contracts |->
              IF k = c.contract /\ HasContract(k)
              THEN [contracts[k] EXCEPT !.seller = c.id]
              ELSE contracts[k]]
         /\ Writes(h, (c.users \cup {c.contract}) \ {None})
  /\ Finish(h)
  /\ UNCHANGED <<roles, admins, used>>

RemoveSeller(h, scope, s) ==
  /\ Free(h)
  /\ scope = Super
  /\ Guarded(scope, "restricted")
  /\ s \in sellers
  /\ Accept(h, [op |-> "dropSeller", scope |-> scope, id |-> s])
  /\ UNCHANGED <<users, roles, contracts, sellers, admins, used>>

(* Foreign keys: users and roles keep their seller, contracts go with it.  *)
DropSeller(h) ==
  /\ In(h, "dropSeller")
  /\ LET s == calls[h].id
         signed == {c \in Contracts : HasContract(c) /\ contracts[c].seller = s}
     IN  IF /\ \A u \in Users : HasUser(u) => users[u].seller # s
            /\ \A r \in RoleIds : HasRole(r) => roles[r].seller # s
         THEN /\ sellers' = sellers \ {s}
              /\ contracts' = [c \in Contracts |-> IF c \in signed THEN None ELSE contracts[c]]
              /\ Writes(h, {s} \cup signed)
         ELSE UNCHANGED <<sellers, contracts>> /\ Writes(h, {})
  /\ Finish(h)
  /\ UNCHANGED <<users, roles, admins, used>>

-----------------------------------------------------------------------------
(* ensureUsersBelongToSeller                                               *)
MaySign(scope, seller, signers) ==
  \A u \in signers : HasUser(u) /\ (scope = Super \/ (seller # None /\ users[u].seller = seller))

(* assertSellerAccessible; a seller that does not exist counts as none.    *)
CreateContract(h, scope, c) ==
  /\ Free(h)
  /\ c \notin used
  /\ Guarded(scope, "assignable")
  /\ \E seller \in sellers \cup {None}, signers \in SUBSET Users :
       /\ scope = Super \/ CanAccess(scope, seller)
       /\ MaySign(scope, seller, signers)
       /\ Accept(h, [op |-> "saveContract", scope |-> scope, id |-> c,
                     row |-> [seller |-> seller, users |-> signers]])
  /\ used' = used \cup {c}
  /\ UNCHANGED <<users, roles, contracts, sellers, admins>>

UpdateContract(h, scope, c) ==
  /\ Free(h)
  /\ HasContract(c)
  /\ Guarded(scope, "assignable")
  /\ CanAccess(scope, contracts[c].seller)
  /\ \E signers \in SUBSET Users :
       /\ MaySign(scope, contracts[c].seller, signers)
       /\ Accept(h, [op |-> "saveContract", scope |-> scope, id |-> c,
                     row |-> [contracts[c] EXCEPT !.users = signers]])
  /\ UNCHANGED <<users, roles, contracts, sellers, admins, used>>

SaveContract(h) ==
  /\ In(h, "saveContract")
  /\ IF SellerRef(calls[h].row.seller)
     THEN contracts' = [contracts EXCEPT ![calls[h].id] = calls[h].row] /\ Writes(h, {calls[h].id})
     ELSE UNCHANGED contracts /\ Writes(h, {})
  /\ Finish(h)
  /\ UNCHANGED <<users, roles, sellers, admins, used>>

RemoveContract(h, scope, c) ==
  /\ Free(h)
  /\ HasContract(c)
  /\ Guarded(scope, "assignable")
  /\ CanAccess(scope, contracts[c].seller)
  /\ Accept(h, [op |-> "dropContract", scope |-> scope, id |-> c])
  /\ UNCHANGED <<users, roles, contracts, sellers, admins, used>>

DropContract(h) ==
  /\ In(h, "dropContract")
  /\ contracts' = [contracts EXCEPT ![calls[h].id] = None]
  /\ Writes(h, {calls[h].id})
  /\ Finish(h)
  /\ UNCHANGED <<users, roles, sellers, admins, used>>

-----------------------------------------------------------------------------
(* assertAdminAudienceUsers: extra roles that are gone are passed over.    *)
AdminAudience(u) ==
  /\ HasUser(u)
  /\ \E r \in {users[u].role} \cup users[u].extra : HasRole(r) /\ roles[r].audience = "admin"

Linked(a) == {u \in Users : HasUser(u) /\ users[u].admin = a}

WithAdmin(linked, a) ==
  [u \in Users |-> IF u \in linked /\ HasUser(u) THEN [users[u] EXCEPT !.admin = a] ELSE users[u]]

(* AdminsService.create: the admin is saved, then the users are linked.    *)
CreateAdmin(h, scope, a) ==
  /\ Free(h)
  /\ scope = Super
  /\ a \notin used
  /\ \E linked \in SUBSET Users :
       /\ \A u \in linked : AdminAudience(u)
       /\ admins' = admins \cup {a}
       /\ Accept(h, [op |-> "linkAdmin", scope |-> scope, id |-> a, users |-> linked])
  /\ used' = used \cup {a}
  /\ UNCHANGED <<users, roles, contracts, sellers>>

(* update saves the admin before it looks at the users.                    *)
UpdateAdmin(h, scope, a) ==
  /\ Free(h)
  /\ scope = Super
  /\ a \in admins
  /\ \E linked \in SUBSET Users :
       Accept(h, [op |-> "saveAdmin", scope |-> scope, id |-> a, users |-> linked])
  /\ UNCHANGED <<users, roles, contracts, sellers, admins, used>>

SaveAdmin(h) ==
  /\ In(h, "saveAdmin")
  /\ admins' = admins \cup {calls[h].id}
  /\ Goto(h, [calls[h] EXCEPT !.op = "checkAdmin"])
  /\ Writes(h, {calls[h].id})
  /\ UNCHANGED <<users, roles, contracts, sellers, used>>

CheckAdmin(h) ==
  /\ In(h, "checkAdmin")
  /\ IF \A u \in calls[h].users : AdminAudience(u)
     THEN Goto(h, [calls[h] EXCEPT !.op = "clearAdmin"])
     ELSE Finish(h)
  /\ Writes(h, {})
  /\ UNCHANGED <<users, roles, contracts, sellers, admins, used>>

ClearAdmin(h) ==
  /\ In(h, "clearAdmin")
  /\ users' = WithAdmin(Linked(calls[h].id), None)
  /\ Goto(h, [calls[h] EXCEPT !.op = "linkAdmin"])
  /\ Writes(h, Linked(calls[h].id))
  /\ UNCHANGED <<roles, contracts, sellers, admins, used>>

LinkAdmin(h) ==
  /\ In(h, "linkAdmin")
  /\ IF calls[h].id \in admins
     THEN users' = WithAdmin(calls[h].users, calls[h].id) /\ Writes(h, calls[h].users)
     ELSE UNCHANGED users /\ Writes(h, {})
  /\ Finish(h)
  /\ UNCHANGED <<roles, contracts, sellers, admins, used>>

RemoveAdmin(h, scope, a) ==
  /\ Free(h)
  /\ scope = Super
  /\ a \in admins
  /\ Accept(h, [op |-> "unlinkAdmin", scope |-> scope, id |-> a])
  /\ UNCHANGED <<users, roles, contracts, sellers, admins, used>>

UnlinkAdmin(h) ==
  /\ In(h, "unlinkAdmin")
  /\ users' = WithAdmin(Linked(calls[h].id), None)
  /\ Goto(h, [calls[h] EXCEPT !.op = "dropAdmin"])
  /\ Writes(h, Linked(calls[h].id))
  /\ UNCHANGED <<roles, contracts, sellers, admins, used>>

(* The foreign key refuses when a user has been linked in between.         *)
DropAdmin(h) ==
  /\ In(h, "dropAdmin")
  /\ admins' = IF Linked(calls[h].id) = {} THEN admins \ {calls[h].id} ELSE admins
  /\ Writes(h, {calls[h].id})
  /\ Finish(h)
  /\ UNCHANGED <<users, roles, contracts, sellers, used>>

(* A request stops between two statements.                                 *)
CutOff(h) ==
  /\ calls[h] # Idle
  /\ Finish(h)
  /\ UNCHANGED <<users, roles, contracts, sellers, admins, used, requests, raced>>

-----------------------------------------------------------------------------
SystemRole(slug) ==
  [slug |-> slug, permissions |-> DefaultPermissions[slug], system |-> TRUE,
   audience |-> DefaultAudience[slug], seller |-> None]

(* RolesSeedService has run.                                               *)
TenantsInit ==
  /\ users = FirstUsers
  /\ contracts = FirstContracts
  /\ sellers = FirstSellers
  /\ roles = [r \in RoleIds |-> IF r \in SystemSlugs THEN SystemRole(r) ELSE None]
  /\ admins = {}
  /\ used = {u \in Users : HasUser(u)} \cup {c \in Contracts : HasContract(c)} \cup sellers
  /\ calls = [h \in Handlers |-> Idle]
  /\ requests = 0
  /\ raced = {}

Request(h, scope) ==
  \/ \E u \in Users :
       CreateUser(h, scope, u) \/ UpdateUser(h, scope, u) \/ RemoveUser(h, scope, u)
  \/ \E r \in CustomRoles :
       CreateRole(h, scope, r) \/ UpdateRole(h, scope, r) \/ RemoveRole(h, scope, r)
  \/ \E s \in Sellers : CreateSeller(h, scope, s) \/ RemoveSeller(h, scope, s)
  \/ \E c \in Contracts :
       CreateContract(h, scope, c) \/ UpdateContract(h, scope, c) \/ RemoveContract(h, scope, c)
  \/ \E a \in Admins :
       CreateAdmin(h, scope, a) \/ UpdateAdmin(h, scope, a) \/ RemoveAdmin(h, scope, a)

Continue(h) ==
  \/ SaveUser(h) \/ DropUser(h)
  \/ SaveRole(h) \/ DropRole(h)
  \/ ReadAdmins(h) \/ OpenShop(h) \/ DropSeller(h)
  \/ SaveContract(h) \/ DropContract(h)
  \/ SaveAdmin(h) \/ CheckAdmin(h) \/ ClearAdmin(h) \/ LinkAdmin(h)
  \/ UnlinkAdmin(h) \/ DropAdmin(h)
  \/ CutOff(h)

TenantsNext ==
  \E h \in Handlers : Continue(h) \/ \E scope \in Scopes : Request(h, scope)

TenantsSpec == TenantsInit /\ [][TenantsNext]_tenantVars

-----------------------------------------------------------------------------
(* Types; and however requests overlap, a user's role, seller and admin    *)
(* exist, and so does the seller of a contract or role: a role counted as  *)
(* unused and given to a user meanwhile is not removed.                    *)
TenantsTypeOK ==
  /\ users \in [Users -> User \cup {None}]
  /\ roles \in [RoleIds -> Role \cup {None}]
  /\ contracts \in [Contracts -> Contract \cup {None}]
  /\ sellers \subseteq Sellers
  /\ admins \subseteq Admins
  /\ calls \in [Handlers -> Call]
  /\ requests \in 0..MaxRequests
  /\ \A u \in Users : HasUser(u) => UserRefs(users[u])
  /\ \A c \in Contracts : HasContract(c) => SellerRef(contracts[c].seller)
  /\ \A r \in RoleIds : HasRole(r) => SellerRef(roles[r].seller)

(* Roles grant what they should, whatever roles are created and renamed:   *)
(* PermissionsGuard, which finds a role by slug alone, finds one for every *)
(* system slug, with the permissions of the seed, and no role of a seller  *)
(* gives what only super-admins may do.                                    *)
RolesAreLimited ==
  /\ \A slug \in SystemSlugs :
       \E r \in RoleIds : RolesBySlug(slug, None) = {r} /\ roles[r] = SystemRole(slug)
  /\ \A r \in RoleIds :
       HasRole(r) /\ roles[r].seller # None => roles[r].permissions \subseteq SellerAssignable

(* A super-admin stays one: opening shops for him, late saves and removals *)
(* of roles never leave him with less.                                     *)
SuperAdminStays ==
  [][\A u \in Users :
       HasUser(u) /\ IsSuperAdmin(u) /\ users'[u] # None => users'[u].role = "super-admin"]_users

(* Users and contracts that belong to a seller stay with it, and are not   *)
(* given to another one, unless requests with one of them in hand overlap. *)
(* (Super-admins may be given to any seller.)                              *)
AssignedOnce ==
  [][/\ \A u \in Users \ raced' :
          HasUser(u) /\ ~IsSuperAdmin(u) /\ users[u].seller # None /\ users'[u] # None =>
            users'[u].seller = users[u].seller
     /\ \A c \in Contracts \ raced' :
          HasContract(c) /\ contracts[c].seller # None /\ contracts'[c] # None =>
            contracts'[c].seller = contracts[c].seller]_<<users, contracts>>

Ours(row, scope) == row = None \/ row.seller = scope

(* A request of a seller's user changes users, roles and contracts of that *)
(* seller and no others, again if requests for one row do not overlap; the *)
(* roles without a seller it may edit.                                     *)
SellersKeepApart ==
  [][\A h \in Handlers :
       calls[h] # Idle /\ calls'[h] = Idle /\ calls[h].scope # Super =>
         /\ \A u \in Users \ raced' :
              users'[u] # users[u] =>
                Ours(users[u], calls[h].scope) /\ Ours(users'[u], calls[h].scope)
         /\ \A c \in Contracts \ raced' :
              contracts'[c] # contracts[c] =>
                Ours(contracts[c], calls[h].scope) /\ Ours(contracts'[c], calls[h].scope)
         /\ \A r \in RoleIds \ raced' :
              roles'[r] # roles[r] =>
                \A row \in {roles[r], roles'[r]} :
                  Ours(row, calls[h].scope) \/ row.seller = None]_tenantVars
=============================================================================
