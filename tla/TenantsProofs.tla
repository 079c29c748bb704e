--------------------------- MODULE TenantsProofs ---------------------------
(***************************************************************************)
(* Proofs about Tenants, for any users, sellers, contracts, roles, admins  *)
(* and number of overlapping requests.                                     *)
(*                                                                         *)
(* What a request has read may be stale when it writes.  The invariant     *)
(* says, for each kind of request, what is still true of the rows in its   *)
(* hands: either another request has written the row since (it is in       *)
(* raced), or the row belongs to the seller it belonged to when it was     *)
(* read (UserInHand, ContractInHand, ShopInHand and the others).           *)
(*                                                                         *)
(* Whether an id is a super-admin's is decided once, when the user is      *)
(* created: S in TenantsInv is the set of such ids, and the row stored,    *)
(* the rows in flight and the lists of super-admins that shop openings     *)
(* carry all agree with it, raced or not.                                  *)
(***************************************************************************)
EXTENDS Tenants, TLAPS

SaveUserCall == [op : {"saveUser"}, scope : Scopes, id : Users, row : User]
SaveRoleCall == [op : {"saveRole"}, scope : Scopes, id : RoleIds, row : Role]
SaveContractCall == [op : {"saveContract"}, scope : Scopes, id : Contracts, row : Contract]
DropUserCall == [op : {"dropUser"}, scope : Scopes, id : Users]
DropRoleCall == [op : {"dropRole"}, scope : Scopes, id : RoleIds]
DropSellerCall == [op : {"dropSeller"}, scope : {Super}, id : Sellers]
DropContractCall == [op : {"dropContract"}, scope : Scopes, id : Contracts]
ReadAdminsCall ==
  [op : {"readAdmins"}, scope : {Super}, id : Sellers, contract : Contracts \cup {None},
   users : SUBSET Users]
OpenShopCall ==
  [op : {"openShop"}, scope : {Super}, id : Sellers, contract : Contracts \cup {None},
   users : SUBSET Users, supers : SUBSET Users]
AdminOps == {"saveAdmin", "checkAdmin", "clearAdmin", "linkAdmin"}
AdminCall == [op : AdminOps, scope : {Super}, id : Admins, users : SUBSET Users]
UnlinkCall == [op : {"unlinkAdmin", "dropAdmin"}, scope : {Super}, id : Admins]

TablesTyped ==
  /\ users \in [Users -> User \cup {None}]
  /\ roles \in [RoleIds -> Role \cup {None}]
  /\ contracts \in [Contracts -> Contract \cup {None}]
  /\ sellers \subseteq Sellers
  /\ admins \subseteq Admins
  /\ calls \in [Handlers -> Call]
  /\ requests \in 0..MaxRequests

References ==
  /\ \A u \in Users : HasUser(u) => UserRefs(users[u])
  /\ \A c \in Contracts : HasContract(c) => SellerRef(contracts[c].seller)
  /\ \A r \in RoleIds : HasRole(r) => SellerRef(roles[r].seller)

(* No custom role without a seller has the slug of a system role.          *)
RoleAllowed(row) ==
  /\ row.seller = None => row.slug \notin SystemSlugs
  /\ row.seller # None => row.permissions \subseteq SellerAssignable

RolesKept ==
  /\ \A slug \in SystemSlugs : roles[slug] = SystemRole(slug)
  /\ \A r \in CustomRoles : HasRole(r) => RoleAllowed(roles[r])

IdsUsed ==
  /\ \A u \in Users : HasUser(u) => u \in used
  /\ \A c \in Contracts : HasContract(c) => c \in used
  /\ \A r \in CustomRoles : HasRole(r) => r \in used

Supers(S) == \A u \in Users : HasUser(u) => (IsSuperAdmin(u) <=> u \in S)

RoleOurs(row, scope) == Ours(row, scope) \/ row.seller = None

UserInHand(S, c) ==
  /\ c.id \in used
  /\ c.row.role = "super-admin" <=> c.id \in S
  /\ c.id \in raced \/ users[c.id] = None \/ users[c.id].seller = c.row.seller
  /\ c.scope # Super => c.row.seller = c.scope

UserToDrop(c) == c.scope # Super => c.id \in raced \/ Ours(users[c.id], c.scope)

RoleInHand(c) ==
  /\ c.id \in CustomRoles \cap used
  /\ RoleAllowed(c.row)
  /\ c.scope # Super =>
       /\ c.row.seller \in {None, c.scope}
       /\ c.id \in raced \/ RoleOurs(roles[c.id], c.scope)

RoleToDrop(c) ==
  /\ c.id \in CustomRoles
  /\ c.scope # Super => c.id \in raced \/ RoleOurs(roles[c.id], c.scope)

ContractInHand(c) ==
  /\ c.id \in used
  /\ c.id \in raced \/ contracts[c.id] = None \/ contracts[c.id].seller = c.row.seller
  /\ c.scope # Super => c.row.seller = c.scope

ContractToDrop(c) == c.scope # Super => c.id \in raced \/ Ours(contracts[c.id], c.scope)

ShopInHand(c) ==
  c.contract \in Contracts =>
    \/ c.contract \in raced
    \/ contracts[c.contract] = None
    \/ contracts[c.contract].seller = None

ShopUsers(S, c) ==
  \A u \in c.users :
    /\ u \in used
    /\ u \in c.supers <=> u \in S
    /\ u \in raced \/ users[u] = None \/ Assignable(u)

InHand(S, c) ==
  /\ c.op = "saveUser" => UserInHand(S, c)
  /\ c.op = "dropUser" => UserToDrop(c)
  /\ c.op = "saveRole" => RoleInHand(c)
  /\ c.op = "dropRole" => RoleToDrop(c)
  /\ c.op = "saveContract" => ContractInHand(c)
  /\ c.op = "dropContract" => ContractToDrop(c)
  /\ c.op \in {"readAdmins", "openShop"} => ShopInHand(c)
  /\ c.op = "openShop" => ShopUsers(S, c)

TenantsInv ==
  /\ TablesTyped
  /\ References
  /\ RolesKept
  /\ IdsUsed
  /\ \E S \in SUBSET Users : Supers(S) /\ \A h \in Handlers : InHand(S, calls[h])

-----------------------------------------------------------------------------
LEMMA CallKinds ==
  ASSUME NEW c \in Call
  PROVE  \/ c = Idle
         \/ c \in SaveUserCall \/ c \in SaveRoleCall \/ c \in SaveContractCall
         \/ c \in DropUserCall \/ c \in DropRoleCall \/ c \in DropContractCall
         \/ c \in DropSellerCall \/ c \in ReadAdminsCall \/ c \in OpenShopCall
         \/ c \in AdminCall \/ c \in UnlinkCall
BY DEF Call, SaveUserCall, SaveRoleCall, SaveContractCall, DropUserCall, DropRoleCall,
       DropSellerCall, DropContractCall, ReadAdminsCall, OpenShopCall, AdminCall, AdminOps,
       UnlinkCall

LEMMA KindsAreCalls ==
  /\ Idle \in Call
  /\ SaveUserCall \subseteq Call /\ SaveRoleCall \subseteq Call
  /\ SaveContractCall \subseteq Call /\ DropUserCall \subseteq Call
  /\ DropRoleCall \subseteq Call /\ DropContractCall \subseteq Call
  /\ DropSellerCall \subseteq Call /\ ReadAdminsCall \subseteq Call
  /\ OpenShopCall \subseteq Call /\ AdminCall \subseteq Call /\ UnlinkCall \subseteq Call
BY DEF Call, SaveUserCall, SaveRoleCall, SaveContractCall, DropUserCall, DropRoleCall,
       DropSellerCall, DropContractCall, ReadAdminsCall, OpenShopCall, AdminCall, AdminOps,
       UnlinkCall

(* The kinds of request are told apart by op.                              *)
LEMMA KindOps ==
  /\ Idle.op = "idle"
  /\ \A c \in SaveUserCall : c.op = "saveUser"
  /\ \A c \in SaveRoleCall : c.op = "saveRole"
  /\ \A c \in SaveContractCall : c.op = "saveContract"
  /\ \A c \in DropUserCall : c.op = "dropUser"
  /\ \A c \in DropRoleCall : c.op = "dropRole"
  /\ \A c \in DropContractCall : c.op = "dropContract"
  /\ \A c \in DropSellerCall : c.op = "dropSeller"
  /\ \A c \in ReadAdminsCall : c.op = "readAdmins"
  /\ \A c \in OpenShopCall : c.op = "openShop"
  /\ \A c \in AdminCall : c.op \in AdminOps
  /\ \A c \in UnlinkCall : c.op \in {"unlinkAdmin", "dropAdmin"}
BY DEF Idle, SaveUserCall, SaveRoleCall, SaveContractCall, DropUserCall, DropRoleCall,
       DropSellerCall, DropContractCall, ReadAdminsCall, OpenShopCall, AdminCall, UnlinkCall

LEMMA CallIs ==
  ASSUME NEW c \in Call
  PROVE  /\ c.op = "saveUser" => c \in SaveUserCall
         /\ c.op = "saveRole" => c \in SaveRoleCall
         /\ c.op = "saveContract" => c \in SaveContractCall
         /\ c.op = "dropUser" => c \in DropUserCall
         /\ c.op = "dropRole" => c \in DropRoleCall
         /\ c.op = "dropContract" => c \in DropContractCall
         /\ c.op = "dropSeller" => c \in DropSellerCall
         /\ c.op = "readAdmins" => c \in ReadAdminsCall
         /\ c.op = "openShop" => c \in OpenShopCall
         /\ c.op \in AdminOps => c \in AdminCall
         /\ c.op \in {"unlinkAdmin", "dropAdmin"} => c \in UnlinkCall
<1>1. CASE c = Idle
  BY <1>1, KindOps DEF AdminOps
<1>2. CASE c \in SaveUserCall
  BY <1>2, KindOps DEF AdminOps
<1>3. CASE c \in SaveRoleCall
  BY <1>3, KindOps DEF AdminOps
<1>4. CASE c \in SaveContractCall
  BY <1>4, KindOps DEF AdminOps
<1>5. CASE c \in DropUserCall
  BY <1>5, KindOps DEF AdminOps
<1>6. CASE c \in DropRoleCall
  BY <1>6, KindOps DEF AdminOps
<1>7. CASE c \in DropContractCall
  BY <1>7, KindOps DEF AdminOps
<1>8. CASE c \in DropSellerCall
  BY <1>8, KindOps DEF AdminOps
<1>9. CASE c \in ReadAdminsCall
  BY <1>9, KindOps DEF AdminOps
<1>10. CASE c \in OpenShopCall
  BY <1>10, KindOps DEF AdminOps
<1>11. CASE c \in AdminCall
  BY <1>11, KindOps DEF AdminOps
<1>12. CASE c \in UnlinkCall
  BY <1>12, KindOps DEF AdminOps
<1> QED BY <1>1, <1>2, <1>3, <1>4, <1>5, <1>6, <1>7, <1>8, <1>9, <1>10, <1>11, <1>12, CallKinds

(* A call is made of its parts.                                            *)
LEMMA SaveUserBuilt ==
  ASSUME NEW scope \in Scopes, NEW id \in Users, NEW row \in User
  PROVE  \E c \in Call :
           /\ c = [op |-> "saveUser", scope |-> scope, id |-> id, row |-> row]
           /\ c.op = "saveUser" /\ c.scope = scope /\ c.id = id /\ c.row = row
<1>1. [op |-> "saveUser", scope |-> scope, id |-> id, row |-> row] \in SaveUserCall
  BY DEF SaveUserCall
<1> QED BY <1>1, KindsAreCalls

LEMMA SaveRoleBuilt ==
  ASSUME NEW scope \in Scopes, NEW id \in RoleIds, NEW row \in Role
  PROVE  \E c \in Call :
           /\ c = [op |-> "saveRole", scope |-> scope, id |-> id, row |-> row]
           /\ c.op = "saveRole" /\ c.scope = scope /\ c.id = id /\ c.row = row
<1>1. [op |-> "saveRole", scope |-> scope, id |-> id, row |-> row] \in SaveRoleCall
  BY DEF SaveRoleCall
<1> QED BY <1>1, KindsAreCalls

LEMMA SaveContractBuilt ==
  ASSUME NEW scope \in Scopes, NEW id \in Contracts, NEW row \in Contract
  PROVE  \E c \in Call :
           /\ c = [op |-> "saveContract", scope |-> scope, id |-> id, row |-> row]
           /\ c.op = "saveContract" /\ c.scope = scope /\ c.id = id /\ c.row = row
<1>1. [op |-> "saveContract", scope |-> scope, id |-> id, row |-> row] \in SaveContractCall
  BY DEF SaveContractCall
<1> QED BY <1>1, KindsAreCalls

LEMMA DropUserBuilt ==
  ASSUME NEW scope \in Scopes, NEW id \in Users
  PROVE  \E c \in Call :
           /\ c = [op |-> "dropUser", scope |-> scope, id |-> id]
           /\ c.op = "dropUser" /\ c.scope = scope /\ c.id = id
<1>1. [op |-> "dropUser", scope |-> scope, id |-> id] \in DropUserCall
  BY DEF DropUserCall
<1> QED BY <1>1, KindsAreCalls

LEMMA DropRoleBuilt ==
  ASSUME NEW scope \in Scopes, NEW id \in RoleIds
  PROVE  \E c \in Call :
           /\ c = [op |-> "dropRole", scope |-> scope, id |-> id]
           /\ c.op = "dropRole" /\ c.scope = scope /\ c.id = id
<1>1. [op |-> "dropRole", scope |-> scope, id |-> id] \in DropRoleCall
  BY DEF DropRoleCall
<1> QED BY <1>1, KindsAreCalls

LEMMA DropContractBuilt ==
  ASSUME NEW scope \in Scopes, NEW id \in Contracts
  PROVE  \E c \in Call :
           /\ c = [op |-> "dropContract", scope |-> scope, id |-> id]
           /\ c.op = "dropContract" /\ c.scope = scope /\ c.id = id
<1>1. [op |-> "dropContract", scope |-> scope, id |-> id] \in DropContractCall
  BY DEF DropContractCall
<1> QED BY <1>1, KindsAreCalls

(* An idle handler has nothing in hand; nor has one that works on an admin *)
(* or removes a seller.                                                    *)
LEMMA NothingInHand ==
  ASSUME NEW S, NEW c,
         c.op \in AdminOps \cup {"idle", "unlinkAdmin", "dropAdmin", "dropSeller"}
  PROVE  InHand(S, c)
BY DEF InHand, AdminOps

-----------------------------------------------------------------------------
Same(x) ==
  /\ x \in Users => users'[x] = users[x]
  /\ x \in RoleIds => roles'[x] = roles[x]
  /\ x \in Contracts => contracts'[x] = contracts[x]

(* What a request knows of the rows in its hands stays true, as long as    *)
(* rows that change are counted as raced for.                              *)
LEMMA InHandStays ==
  ASSUME NEW c \in Call, NEW S, InHand(S, c), NEW T, \A u \in used : u \in S <=> u \in T,
         used \subseteq used', raced \subseteq raced',
         \A x \in Holds(c) : x \in raced' \/ Same(x)
  PROVE  InHand(T, c)'
<1>1. CASE c \in SaveUserCall
  <2>1. c.op = "saveUser" /\ c.id \in Users /\ Holds(c) = {c.id}
    BY <1>1 DEF SaveUserCall, Holds
  <2>2. UserInHand(S, c)
    BY <2>1 DEF InHand
  <2>3. UserInHand(T, c)'
    BY <2>1, <2>2 DEF UserInHand, Same
  <2> QED BY <2>1, <2>3 DEF InHand
<1>2. CASE c \in SaveRoleCall
  <2>1. c.op = "saveRole" /\ c.id \in RoleIds /\ Holds(c) = {c.id}
    BY <1>2 DEF SaveRoleCall, Holds
  <2>2. RoleInHand(c)
    BY <2>1 DEF InHand
  <2>3. RoleInHand(c)'
    BY <2>1, <2>2 DEF RoleInHand, RoleOurs, Ours, RoleAllowed, Same
  <2> QED BY <2>1, <2>3 DEF InHand
<1>3. CASE c \in SaveContractCall
  <2>1. c.op = "saveContract" /\ c.id \in Contracts /\ Holds(c) = {c.id}
    BY <1>3 DEF SaveContractCall, Holds
  <2>2. ContractInHand(c)
    BY <2>1 DEF InHand
  <2>3. ContractInHand(c)'
    BY <2>1, <2>2 DEF ContractInHand, Same
  <2> QED BY <2>1, <2>3 DEF InHand
<1>4. CASE c \in DropUserCall
  <2>1. c.op = "dropUser" /\ c.id \in Users /\ Holds(c) = {c.id}
    BY <1>4 DEF DropUserCall, Holds
  <2>2. UserToDrop(c)
    BY <2>1 DEF InHand
  <2>3. UserToDrop(c)'
    BY <2>1, <2>2 DEF UserToDrop, Ours, Same
  <2> QED BY <2>1, <2>3 DEF InHand
<1>5. CASE c \in DropRoleCall
  <2>1. c.op = "dropRole" /\ c.id \in RoleIds /\ Holds(c) = {c.id}
    BY <1>5 DEF DropRoleCall, Holds
  <2>2. RoleToDrop(c)
    BY <2>1 DEF InHand
  <2>3. RoleToDrop(c)'
    BY <2>1, <2>2 DEF RoleToDrop, RoleOurs, Ours, Same
  <2> QED BY <2>1, <2>3 DEF InHand
<1>6. CASE c \in DropContractCall
  <2>1. c.op = "dropContract" /\ c.id \in Contracts /\ Holds(c) = {c.id}
    BY <1>6 DEF DropContractCall, Holds
  <2>2. ContractToDrop(c)
    BY <2>1 DEF InHand
  <2>3. ContractToDrop(c)'
    BY <2>1, <2>2 DEF ContractToDrop, Ours, Same
  <2> QED BY <2>1, <2>3 DEF InHand
<1>7. CASE c \in ReadAdminsCall
  <2>1. c.op = "readAdmins" /\ c.contract \in Holds(c)
    BY <1>7 DEF ReadAdminsCall, Holds
  <2>2. ShopInHand(c)
    BY <2>1 DEF InHand
  <2>3. ShopInHand(c)'
    BY <2>1, <2>2 DEF ShopInHand, Same
  <2> QED BY <2>1, <2>3 DEF InHand
<1>8. CASE c \in OpenShopCall
  <2>1. c.op = "openShop" /\ c.users \subseteq Users /\ Holds(c) = c.users \cup {c.contract}
    BY <1>8 DEF OpenShopCall, Holds
  <2>2. ShopInHand(c) /\ ShopUsers(S, c)
    BY <2>1 DEF InHand
  <2>3. ShopInHand(c)'
    BY <2>1, <2>2 DEF ShopInHand, Same
  <2>4. ASSUME NEW u \in c.users
        PROVE  /\ u \in used' /\ (u \in c.supers <=> u \in T)
               /\ u \in raced' \/ users'[u] = None \/ Assignable(u)'
    <3>1. u \in used /\ (u \in c.supers <=> u \in S)
          /\ (u \in raced \/ users[u] = None \/ Assignable(u))
      BY <2>2 DEF ShopUsers
    <3>2. u \in raced' \/ users'[u] = users[u]
      BY <2>1 DEF Same
    <3> QED BY <3>1, <3>2 DEF Assignable, IsSuperAdmin
  <2>5. ShopUsers(T, c)'
    BY <2>4 DEF ShopUsers
  <2> QED BY <2>1, <2>3, <2>5 DEF InHand
<1>9. CASE c = Idle \/ c \in DropSellerCall \/ c \in AdminCall \/ c \in UnlinkCall
  BY <1>9, KindOps DEF InHand, AdminOps
<1> QED BY <1>1, <1>2, <1>3, <1>4, <1>5, <1>6, <1>7, <1>8, <1>9, CallKinds

-----------------------------------------------------------------------------
LEMMA CallsAfter ==
  ASSUME TenantsInv, NEW h \in Handlers, NEW call \in Call,
         calls' = [calls EXCEPT ![h] = call],
         NEW S, \A g \in Handlers : InHand(S, calls[g]),
         NEW T, \A u \in used : u \in S <=> u \in T, InHand(T, call)',
         used \subseteq used', raced \subseteq raced',
         \A g \in Handlers \ {h} : \A x \in Holds(calls[g]) : x \in raced' \/ Same(x)
  PROVE  calls' \in [Handlers -> Call] /\ \A g \in Handlers : InHand(T, calls[g])'
<1>1. calls \in [Handlers -> Call]
  BY DEF TenantsInv, TablesTyped
<1>2. calls' \in [Handlers -> Call]
  BY <1>1
<1>3. ASSUME NEW g \in Handlers PROVE InHand(T, calls[g])'
  <2>1. PICK c \in Call : c = calls'[g]
    BY <1>2
  <2>2. InHand(T, c)'
    <3>1. CASE g = h
      BY <1>1, <2>1, <3>1
    <3>2. CASE g # h
      <4>1. c = calls[g]
        BY <1>1, <2>1, <3>2
      <4>2. InHand(S, c) /\ \A x \in Holds(c) : x \in raced' \/ Same(x)
        BY <3>2, <4>1
      <4> QED BY <4>2, InHandStays
    <3> QED BY <3>1, <3>2
  <2> QED BY <2>1, <2>2
<1> QED BY <1>2, <1>3

(* A request is accepted: it has read rows and changed none.               *)
LEMMA AcceptKeeps ==
  ASSUME TenantsInv, NEW h \in Handlers, NEW call \in Call, Free(h), Accept(h, call),
         users' = users, roles' = roles, contracts' = contracts, sellers' = sellers,
         admins \subseteq admins', admins' \subseteq Admins, used \subseteq used',
         NEW S, Supers(S), \A g \in Handlers : InHand(S, calls[g]),
         NEW T \in SUBSET Users, \A u \in used : u \in S <=> u \in T, InHand(T, call)'
  PROVE  TenantsInv'
<1>1. calls' = [calls EXCEPT ![h] = call] /\ raced' = raced
  BY DEF Accept, Goto
<1>2. \A x : Same(x)
  BY DEF Same
<1>3. calls' \in [Handlers -> Call] /\ \A g \in Handlers : InHand(T, calls[g])'
  BY <1>1, <1>2, CallsAfter
<1>4. requests' \in 0..MaxRequests
  BY TenantsAssumption DEF TenantsAssumption, TenantsInv, TablesTyped, Free, Accept
<1>5. TablesTyped'
  BY <1>3, <1>4 DEF TenantsInv, TablesTyped
<1>6. References'
  BY DEF TenantsInv, References, UserRefs, SellerRef, HasUser, HasRole, HasContract
<1>7. RolesKept'
  BY DEF TenantsInv, RolesKept, HasRole, RoleAllowed
<1>8. IdsUsed'
  BY DEF TenantsInv, IdsUsed, HasUser, HasRole, HasContract
<1>9. Supers(T)'
  BY DEF TenantsInv, IdsUsed, Supers, HasUser, IsSuperAdmin
<1> QED BY <1>3, <1>5, <1>6, <1>7, <1>8, <1>9 DEF TenantsInv

(* The same for a request that touches no id for the first time.           *)
LEMMA RequestKeeps ==
  ASSUME TenantsInv, NEW h \in Handlers, NEW call \in Call, Free(h), Accept(h, call),
         users' = users, roles' = roles, contracts' = contracts, sellers' = sellers,
         admins \subseteq admins', admins' \subseteq Admins, used \subseteq used',
         \A S : Supers(S) => InHand(S, call)'
  PROVE  TenantsInv'
<1>1. PICK S \in SUBSET Users : Supers(S) /\ \A g \in Handlers : InHand(S, calls[g])
  BY DEF TenantsInv
<1> QED BY <1>1, AcceptKeeps

LEMMA RowsTyped ==
  ASSUME TenantsInv
  PROVE  /\ \A u \in Users : HasUser(u) => users[u] \in User
         /\ \A r \in RoleIds : HasRole(r) => roles[r] \in Role
         /\ \A c \in Contracts : HasContract(c) => contracts[c] \in Contract
         /\ sellers \subseteq Sellers /\ admins \subseteq Admins
BY DEF TenantsInv, TablesTyped, HasUser, HasRole, HasContract

LEMMA CreateUserPreserves ==
  ASSUME TenantsInv, NEW h \in Handlers, NEW scope \in Scopes, NEW u \in Users,
         CreateUser(h, scope, u)
  PROVE  TenantsInv'
<1>1. PICK list \in RoleLists(scope) :
        \E seller \in SellersForUser(scope, list.primary) :
          Accept(h, [op |-> "saveUser", scope |-> scope, id |-> u,
                     row |-> [role |-> list.primary, extra |-> list.extra, seller |-> seller,
                              admin |-> None]])
  BY Zenon DEF CreateUser
<1>2. PICK primary \in RoleIds, extra \in SUBSET RoleIds :
        /\ primary = list.primary /\ extra = list.extra
        /\ MayAssign(scope, primary)
  BY DEF RoleLists
<1>3. PICK seller \in SellersForUser(scope, primary) :
        Accept(h, [op |-> "saveUser", scope |-> scope, id |-> u,
                   row |-> [role |-> primary, extra |-> extra, seller |-> seller,
                            admin |-> None]])
  BY <1>1, <1>2, Zenon
<1> DEFINE row == [role |-> primary, extra |-> extra, seller |-> seller, admin |-> None]
           call == [op |-> "saveUser", scope |-> scope, id |-> u, row |-> row]
<1>4. seller \in Sellers \cup {None} /\ (scope # Super => seller = scope)
  <2>1. roles[primary] \in Role
    BY <1>2, RowsTyped DEF MayAssign
  <2>2. roles[primary].seller \in Sellers \cup {None} /\ sellers \subseteq Sellers
    BY <2>1, RowsTyped DEF Role
  <2> QED BY <2>2 DEF SellersForUser, Scopes
<1>5. row \in User /\ row.role = primary /\ row.seller = seller
  BY <1>4 DEF User, RoleIds
<1>6. PICK rec : rec = row
  OBVIOUS
<1>7. PICK S \in SUBSET Users : Supers(S) /\ \A g \in Handlers : InHand(S, calls[g])
  BY DEF TenantsInv
<1> DEFINE T == IF primary = "super-admin" THEN S \cup {u} ELSE S \ {u}
<1>8. /\ Free(h) /\ u \notin used /\ used' = used \cup {u}
      /\ users' = users /\ roles' = roles /\ contracts' = contracts
      /\ sellers' = sellers /\ admins' = admins
  BY DEF CreateUser
<1>9. users[u] = None
  BY <1>8 DEF TenantsInv, IdsUsed, HasUser
<1>10. PICK c \in Call : /\ c = call /\ c.op = "saveUser" /\ c.scope = scope /\ c.id = u
                         /\ c.row = rec
  <2> HIDE DEF row
  <2>1. call \in SaveUserCall
    BY <1>5 DEF SaveUserCall
  <2>2. call \in Call
    BY <2>1, KindsAreCalls
  <2> QED BY <1>6, <2>2
<1>11. Accept(h, c)
  BY <1>3, <1>6, <1>10
<1> HIDE DEF call
<1>12. T \in SUBSET Users /\ (\A x \in used : x \in S <=> x \in T)
       /\ (primary = "super-admin" <=> u \in T)
  BY <1>8
<1>13. InHand(T, c)'
  <2>1. rec.role = primary /\ rec.seller = seller
    BY <1>5, <1>6
  <2> HIDE DEF row, T
  <2>2. UserInHand(T, c)'
    BY <1>4, <1>8, <1>9, <1>10, <1>12, <2>1 DEF UserInHand
  <2> QED BY <1>10, <2>2 DEF InHand
<1>14. admins \subseteq Admins
  BY RowsTyped
<1> HIDE DEF T
<1> QED BY <1>7, <1>8, <1>11, <1>12, <1>13, <1>14, AcceptKeeps

LEMMA UpdateUserPreserves ==
  ASSUME TenantsInv, NEW h \in Handlers, NEW scope \in Scopes, NEW u \in Users,
         UpdateUser(h, scope, u)
  PROVE  TenantsInv'
<1>1. PICK extra \in {users[u].extra} \cup {list.extra : list \in RoleLists(scope)} :
        Accept(h, [op |-> "saveUser", scope |-> scope, id |-> u,
                   row |-> [users[u] EXCEPT !.extra = extra]])
  BY Zenon DEF UpdateUser
<1>2. /\ Free(h) /\ HasUser(u) /\ CanAccess(scope, users[u].seller)
      /\ used' = used /\ users' = users /\ roles' = roles /\ contracts' = contracts
      /\ sellers' = sellers /\ admins' = admins
  BY DEF UpdateUser
<1>3. users[u] \in User /\ admins \subseteq Admins /\ u \in used
  BY <1>2, RowsTyped DEF TenantsInv, IdsUsed
<1>4. PICK row \in User : /\ row = [users[u] EXCEPT !.extra = extra]
                          /\ row.role = users[u].role /\ row.seller = users[u].seller
  <2>1. extra \in SUBSET RoleIds
    BY <1>1, <1>3 DEF User, RoleLists
  <2>2. [users[u] EXCEPT !.extra = extra] \in User
    BY <1>3, <2>1 DEF User
  <2> QED BY <1>3, <2>2 DEF User
<1>5. PICK c \in Call :
        /\ c = [op |-> "saveUser", scope |-> scope, id |-> u, row |-> row]
        /\ c.op = "saveUser" /\ c.scope = scope /\ c.id = u /\ c.row = row
  BY SaveUserBuilt
<1>6. Accept(h, c)
  BY <1>1, <1>4, <1>5
<1>7. ASSUME NEW S, Supers(S) PROVE InHand(S, c)'
  <2>1. UserInHand(S, c)'
    BY <1>2, <1>3, <1>4, <1>5, <1>7 DEF UserInHand, Supers, IsSuperAdmin, CanAccess
  <2> QED BY <1>5, <2>1 DEF InHand
<1> QED BY <1>2, <1>3, <1>6, <1>7, RequestKeeps

LEMMA RemoveUserPreserves ==
  ASSUME TenantsInv, NEW h \in Handlers, NEW scope \in Scopes, NEW u \in Users,
         RemoveUser(h, scope, u)
  PROVE  TenantsInv'
<1>1. /\ Free(h) /\ HasUser(u) /\ CanAccess(scope, users[u].seller)
      /\ used' = used /\ users' = users /\ roles' = roles /\ contracts' = contracts
      /\ sellers' = sellers /\ admins' = admins
  BY DEF RemoveUser
<1>2. PICK c \in Call : /\ c = [op |-> "dropUser", scope |-> scope, id |-> u]
                        /\ c.op = "dropUser" /\ c.scope = scope /\ c.id = u
  BY DropUserBuilt
<1>3. Accept(h, c)
  BY <1>2 DEF RemoveUser
<1>4. ASSUME NEW S PROVE InHand(S, c)'
  <2>1. UserToDrop(c)'
    BY <1>1, <1>2 DEF UserToDrop, Ours, CanAccess
  <2> QED BY <1>2, <2>1 DEF InHand
<1>5. admins \subseteq Admins
  BY RowsTyped
<1> QED BY <1>1, <1>3, <1>4, <1>5, RequestKeeps

(* PermissionsGuard and SlugFree find the one role of a system slug.       *)
LEMMA SystemRoleFound ==
  ASSUME TenantsInv, NEW slug \in SystemSlugs
  PROVE  RolesBySlug(slug, None) = {slug} /\ ~SlugFree(slug, None)
<1>1. ASSUME NEW x \in SystemSlugs
      PROVE  /\ HasRole(x) /\ roles[x].slug = x /\ roles[x].seller = None
             /\ roles[x] = SystemRole(x)
  <2>1. roles[x] = SystemRole(x) /\ x \in RoleIds
    BY DEF TenantsInv, RolesKept, RoleIds
  <2>2. SystemRole(x) \in Role
    BY DEF SystemRole, Role, SystemSlugs, Slugs, DefaultPermissions, DefaultAudience,
           Permissions, SellerAssignable, Audiences
  <2>3. roles[x] # None
    BY <2>1, <2>2, FirstRowsAssumption DEF FirstRowsAssumption
  <2> QED BY <2>1, <2>3 DEF SystemRole, HasRole
<1>2. slug \in RolesBySlug(slug, None)
  BY <1>1 DEF RolesBySlug, RoleIds
<1>3. ASSUME NEW r \in RolesBySlug(slug, None) PROVE r = slug
  <2>1. r \in RoleIds /\ HasRole(r) /\ roles[r].slug = slug /\ roles[r].seller = None
    BY <1>3 DEF RolesBySlug
  <2>2. CASE r \in CustomRoles
    BY <2>1, <2>2 DEF TenantsInv, RolesKept, RoleAllowed
  <2>3. CASE r \in SystemSlugs
    BY <1>1, <2>1, <2>3
  <2> QED BY <2>1, <2>2, <2>3 DEF RoleIds
<1> QED BY <1>2, <1>3 DEF SlugFree

LEMMA CreateRolePreserves ==
  ASSUME TenantsInv, NEW h \in Handlers, NEW scope \in Scopes, NEW r \in CustomRoles,
         CreateRole(h, scope, r)
  PROVE  TenantsInv'
<1>1. PICK seller \in SellersForRole(scope), slug \in Slugs, permissions \in SUBSET Permissions :
        /\ SlugFree(slug, seller)
        /\ ValidPermissions(permissions, seller)
        /\ \E audience \in AudiencesFor(seller) :
             Accept(h, [op |-> "saveRole", scope |-> scope, id |-> r,
                        row |-> [slug |-> slug, permissions |-> permissions, system |-> FALSE,
                                 audience |-> audience, seller |-> seller]])
  BY Zenon DEF CreateRole
<1>2. PICK audience \in AudiencesFor(seller) :
        Accept(h, [op |-> "saveRole", scope |-> scope, id |-> r,
                   row |-> [slug |-> slug, permissions |-> permissions, system |-> FALSE,
                            audience |-> audience, seller |-> seller]])
  BY <1>1, Zenon
<1>3. /\ Free(h) /\ r \notin used /\ used' = used \cup {r}
      /\ users' = users /\ roles' = roles /\ contracts' = contracts
      /\ sellers' = sellers /\ admins' = admins
  BY DEF CreateRole
<1>4. seller \in Sellers \cup {None} /\ (scope # Super => seller = scope)
  BY RowsTyped DEF SellersForRole, Scopes
<1>5. audience \in Audiences
  BY DEF AudiencesFor, Audiences
<1>6. PICK row \in Role :
        /\ row = [slug |-> slug, permissions |-> permissions, system |-> FALSE,
                  audience |-> audience, seller |-> seller]
        /\ row.slug = slug /\ row.permissions = permissions /\ row.seller = seller
  <2>1. [slug |-> slug, permissions |-> permissions, system |-> FALSE,
         audience |-> audience, seller |-> seller] \in Role
    BY <1>4, <1>5 DEF Role
  <2> QED BY <2>1
<1>7. RoleAllowed(row)
  BY <1>1, <1>6, SystemRoleFound DEF RoleAllowed, ValidPermissions
<1>8. PICK c \in Call :
        /\ c = [op |-> "saveRole", scope |-> scope, id |-> r, row |-> row]
        /\ c.op = "saveRole" /\ c.scope = scope /\ c.id = r /\ c.row = row
  BY SaveRoleBuilt DEF RoleIds
<1>9. Accept(h, c)
  BY <1>2, <1>6, <1>8
<1>10. roles[r] = None /\ admins \subseteq Admins
  BY <1>3, RowsTyped DEF TenantsInv, IdsUsed, HasRole
<1>11. ASSUME NEW S PROVE InHand(S, c)'
  <2>1. RoleInHand(c)'
    BY <1>3, <1>4, <1>6, <1>7, <1>8, <1>10 DEF RoleInHand, RoleOurs, Ours, RoleAllowed
  <2> QED BY <1>8, <2>1 DEF InHand
<1> QED BY <1>3, <1>9, <1>10, <1>11, RequestKeeps

LEMMA UpdateRolePreserves ==
  ASSUME TenantsInv, NEW h \in Handlers, NEW scope \in Scopes, NEW r \in CustomRoles,
         UpdateRole(h, scope, r)
  PROVE  TenantsInv'
<1>1. PICK slug \in Slugs, permissions \in SUBSET Permissions :
        /\ slug = roles[r].slug \/ SlugFree(slug, roles[r].seller)
        /\ ValidPermissions(permissions, roles[r].seller)
        /\ Accept(h, [op |-> "saveRole", scope |-> scope, id |-> r,
                      row |-> [roles[r] EXCEPT !.slug = slug, !.permissions = permissions]])
  BY Zenon DEF UpdateRole
<1>2. /\ Free(h) /\ MayEditRole(scope, r)
      /\ used' = used /\ users' = users /\ roles' = roles /\ contracts' = contracts
      /\ sellers' = sellers /\ admins' = admins
  BY DEF UpdateRole
<1>3. roles[r] \in Role /\ RoleAllowed(roles[r]) /\ r \in used /\ admins \subseteq Admins
  BY <1>2, RowsTyped DEF MayEditRole, TenantsInv, IdsUsed, RolesKept, RoleIds
<1>4. PICK row \in Role :
        /\ row = [roles[r] EXCEPT !.slug = slug, !.permissions = permissions]
        /\ row.slug = slug /\ row.permissions = permissions /\ row.seller = roles[r].seller
  <2>1. [roles[r] EXCEPT !.slug = slug, !.permissions = permissions] \in Role
    BY <1>3 DEF Role
  <2> QED BY <1>3, <2>1 DEF Role
<1>5. RoleAllowed(row)
  BY <1>1, <1>3, <1>4, SystemRoleFound DEF RoleAllowed, ValidPermissions
<1>6. PICK c \in Call :
        /\ c = [op |-> "saveRole", scope |-> scope, id |-> r, row |-> row]
        /\ c.op = "saveRole" /\ c.scope = scope /\ c.id = r /\ c.row = row
  BY SaveRoleBuilt DEF RoleIds
<1>7. Accept(h, c)
  BY <1>1, <1>4, <1>6
<1>8. scope # Super => roles[r].seller \in {None, scope}
  BY <1>2 DEF MayEditRole, CanAccess
<1>9. ASSUME NEW S PROVE InHand(S, c)'
  <2>1. RoleInHand(c)'
    BY <1>2, <1>3, <1>4, <1>5, <1>6, <1>8 DEF RoleInHand, RoleOurs, Ours, RoleAllowed
  <2> QED BY <1>6, <2>1 DEF InHand
<1> QED BY <1>2, <1>3, <1>7, <1>9, RequestKeeps

LEMMA RemoveRolePreserves ==
  ASSUME TenantsInv, NEW h \in Handlers, NEW scope \in Scopes, NEW r \in CustomRoles,
         RemoveRole(h, scope, r)
  PROVE  TenantsInv'
<1>1. /\ Free(h) /\ MayEditRole(scope, r)
      /\ used' = used /\ users' = users /\ roles' = roles /\ contracts' = contracts
      /\ sellers' = sellers /\ admins' = admins
  BY DEF RemoveRole
<1>2. PICK c \in Call : /\ c = [op |-> "dropRole", scope |-> scope, id |-> r]
                        /\ c.op = "dropRole" /\ c.scope = scope /\ c.id = r
  BY DropRoleBuilt DEF RoleIds
<1>3. Accept(h, c)
  BY <1>2 DEF RemoveRole
<1>4. scope # Super => roles[r].seller \in {None, scope}
  BY <1>1 DEF MayEditRole, CanAccess
<1>5. ASSUME NEW S PROVE InHand(S, c)'
  <2>1. RoleToDrop(c)'
    BY <1>1, <1>2, <1>4 DEF RoleToDrop, RoleOurs, Ours
  <2> QED BY <1>2, <2>1 DEF InHand
<1>6. admins \subseteq Admins
  BY RowsTyped
<1> QED BY <1>1, <1>3, <1>5, <1>6, RequestKeeps

LEMMA CreateSellerPreserves ==
  ASSUME TenantsInv, NEW h \in Handlers, NEW scope \in Scopes, NEW s \in Sellers,
         CreateSeller(h, scope, s)
  PROVE  TenantsInv'
<1>1. PICK named \in SUBSET Users, k \in Contracts \cup {None} :
        /\ k # None => HasContract(k) /\ Unlinked(k)
        /\ Accept(h, [op |-> "readAdmins", scope |-> scope, id |-> s, contract |-> k,
                      users |-> named \cup IF k = None THEN {} ELSE contracts[k].users])
  BY Zenon DEF CreateSeller
<1>2. /\ Free(h) /\ scope = Super /\ used' = used \cup {s}
      /\ users' = users /\ roles' = roles /\ contracts' = contracts
      /\ sellers' = sellers /\ admins' = admins
  BY DEF CreateSeller
<1> DEFINE group == named \cup IF k = None THEN {} ELSE contracts[k].users
           call == [op |-> "readAdmins", scope |-> scope, id |-> s, contract |-> k,
                    users |-> group]
<1>3. group \in SUBSET Users
  <2>1. k # None => contracts[k] \in Contract
    BY <1>1, RowsTyped
  <2> QED BY <2>1 DEF Contract
<1>4. PICK c \in Call : c = call /\ c.op = "readAdmins" /\ c.contract = k
  <2> HIDE DEF group
  <2>1. call \in ReadAdminsCall
    BY <1>2, <1>3 DEF ReadAdminsCall
  <2> QED BY <2>1, KindsAreCalls
<1>5. Accept(h, c)
  BY <1>1, <1>4
<1>6. ASSUME NEW S PROVE InHand(S, c)'
  <2>1. k \in Contracts => contracts[k].seller = None
    BY <1>1, TenantsAssumption DEF TenantsAssumption, Unlinked
  <2>2. ShopInHand(c)'
    BY <1>2, <1>4, <2>1 DEF ShopInHand
  <2> QED BY <1>4, <2>2 DEF InHand
<1>7. admins \subseteq Admins
  BY RowsTyped
<1> QED BY <1>2, <1>5, <1>6, <1>7, RequestKeeps

LEMMA RemoveSellerPreserves ==
  ASSUME TenantsInv, NEW h \in Handlers, NEW scope \in Scopes, NEW s \in Sellers,
         RemoveSeller(h, scope, s)
  PROVE  TenantsInv'
<1>1. /\ Free(h) /\ scope = Super /\ used' = used
      /\ users' = users /\ roles' = roles /\ contracts' = contracts
      /\ sellers' = sellers /\ admins' = admins
  BY DEF RemoveSeller
<1>2. PICK c \in Call : c = [op |-> "dropSeller", scope |-> scope, id |-> s]
                        /\ c.op = "dropSeller"
  <2>1. [op |-> "dropSeller", scope |-> scope, id |-> s] \in DropSellerCall
    BY <1>1 DEF DropSellerCall
  <2> QED BY <2>1, KindsAreCalls
<1>3. Accept(h, c)
  BY <1>2 DEF RemoveSeller
<1>4. ASSUME NEW S PROVE InHand(S, c)'
  BY <1>2 DEF InHand
<1>5. admins \subseteq Admins
  BY RowsTyped
<1> QED BY <1>1, <1>3, <1>4, <1>5, RequestKeeps

LEMMA CreateContractPreserves ==
  ASSUME TenantsInv, NEW h \in Handlers, NEW scope \in Scopes, NEW k \in Contracts,
         CreateContract(h, scope, k)
  PROVE  TenantsInv'
<1>1. PICK seller \in sellers \cup {None}, signers \in SUBSET Users :
        /\ scope = Super \/ CanAccess(scope, seller)
        /\ Accept(h, [op |-> "saveContract", scope |-> scope, id |-> k,
                      row |-> [seller |-> seller, users |-> signers]])
  BY Zenon DEF CreateContract
<1>2. /\ Free(h) /\ k \notin used /\ used' = used \cup {k}
      /\ users' = users /\ roles' = roles /\ contracts' = contracts
      /\ sellers' = sellers /\ admins' = admins
  BY DEF CreateContract
<1>3. PICK row \in Contract : row = [seller |-> seller, users |-> signers]
                              /\ row.seller = seller
  <2>1. [seller |-> seller, users |-> signers] \in Contract
    BY RowsTyped DEF Contract
  <2> QED BY <2>1
<1>4. PICK c \in Call :
        /\ c = [op |-> "saveContract", scope |-> scope, id |-> k, row |-> row]
        /\ c.op = "saveContract" /\ c.scope = scope /\ c.id = k /\ c.row = row
  BY SaveContractBuilt
<1>5. Accept(h, c)
  BY <1>1, <1>3, <1>4
<1>6. contracts[k] = None /\ admins \subseteq Admins
  BY <1>2, RowsTyped DEF TenantsInv, IdsUsed, HasContract
<1>7. ASSUME NEW S PROVE InHand(S, c)'
  <2>1. ContractInHand(c)'
    BY <1>1, <1>2, <1>3, <1>4, <1>6 DEF ContractInHand, CanAccess
  <2> QED BY <1>4, <2>1 DEF InHand
<1> QED BY <1>2, <1>5, <1>6, <1>7, RequestKeeps

LEMMA UpdateContractPreserves ==
  ASSUME TenantsInv, NEW h \in Handlers, NEW scope \in Scopes, NEW k \in Contracts,
         UpdateContract(h, scope, k)
  PROVE  TenantsInv'
<1>1. PICK signers \in SUBSET Users :
        Accept(h, [op |-> "saveContract", scope |-> scope, id |-> k,
                   row |-> [contracts[k] EXCEPT !.users = signers]])
  BY Zenon DEF UpdateContract
<1>2. /\ Free(h) /\ HasContract(k) /\ CanAccess(scope, contracts[k].seller)
      /\ used' = used /\ users' = users /\ roles' = roles /\ contracts' = contracts
      /\ sellers' = sellers /\ admins' = admins
  BY DEF UpdateContract
<1>3. contracts[k] \in Contract /\ k \in used /\ admins \subseteq Admins
  BY <1>2, RowsTyped DEF TenantsInv, IdsUsed
<1>4. PICK row \in Contract : row = [contracts[k] EXCEPT !.users = signers]
                              /\ row.seller = contracts[k].seller
  <2>1. [contracts[k] EXCEPT !.users = signers] \in Contract
    BY <1>3 DEF Contract
  <2> QED BY <1>3, <2>1 DEF Contract
<1>5. PICK c \in Call :
        /\ c = [op |-> "saveContract", scope |-> scope, id |-> k, row |-> row]
        /\ c.op = "saveContract" /\ c.scope = scope /\ c.id = k /\ c.row = row
  BY SaveContractBuilt
<1>6. Accept(h, c)
  BY <1>1, <1>4, <1>5
<1>7. ASSUME NEW S PROVE InHand(S, c)'
  <2>1. ContractInHand(c)'
    BY <1>2, <1>3, <1>4, <1>5 DEF ContractInHand, CanAccess
  <2> QED BY <1>5, <2>1 DEF InHand
<1> QED BY <1>2, <1>3, <1>6, <1>7, RequestKeeps

LEMMA RemoveContractPreserves ==
  ASSUME TenantsInv, NEW h \in Handlers, NEW scope \in Scopes, NEW k \in Contracts,
         RemoveContract(h, scope, k)
  PROVE  TenantsInv'
<1>1. /\ Free(h) /\ CanAccess(scope, contracts[k].seller)
      /\ used' = used /\ users' = users /\ roles' = roles /\ contracts' = contracts
      /\ sellers' = sellers /\ admins' = admins
  BY DEF RemoveContract
<1>2. PICK c \in Call : /\ c = [op |-> "dropContract", scope |-> scope, id |-> k]
                        /\ c.op = "dropContract" /\ c.scope = scope /\ c.id = k
  BY DropContractBuilt
<1>3. Accept(h, c)
  BY <1>2 DEF RemoveContract
<1>4. ASSUME NEW S PROVE InHand(S, c)'
  <2>1. ContractToDrop(c)'
    BY <1>1, <1>2 DEF ContractToDrop, Ours, CanAccess
  <2> QED BY <1>2, <2>1 DEF InHand
<1>5. admins \subseteq Admins
  BY RowsTyped
<1> QED BY <1>1, <1>3, <1>4, <1>5, RequestKeeps

LEMMA AdminRequestPreserves ==
  ASSUME TenantsInv, NEW h \in Handlers, NEW scope \in Scopes, NEW a \in Admins,
         CreateAdmin(h, scope, a) \/ UpdateAdmin(h, scope, a) \/ RemoveAdmin(h, scope, a)
  PROVE  TenantsInv'
<1>1. /\ Free(h) /\ scope = Super /\ used \subseteq used'
      /\ users' = users /\ roles' = roles /\ contracts' = contracts /\ sellers' = sellers
      /\ admins \subseteq admins' /\ admins' \subseteq Admins
  BY RowsTyped DEF CreateAdmin, UpdateAdmin, RemoveAdmin
<1>2. \E c \in AdminCall \cup UnlinkCall : Accept(h, c)
  <2>1. CASE CreateAdmin(h, scope, a)
    <3>1. PICK linked \in SUBSET Users :
            Accept(h, [op |-> "linkAdmin", scope |-> scope, id |-> a, users |-> linked])
      BY <2>1, Zenon DEF CreateAdmin
    <3>2. [op |-> "linkAdmin", scope |-> scope, id |-> a, users |-> linked] \in AdminCall
      BY <1>1 DEF AdminCall, AdminOps
    <3> QED BY <3>1, <3>2
  <2>2. CASE UpdateAdmin(h, scope, a)
    <3>1. PICK linked \in SUBSET Users :
            Accept(h, [op |-> "saveAdmin", scope |-> scope, id |-> a, users |-> linked])
      BY <2>2, Zenon DEF UpdateAdmin
    <3>2. [op |-> "saveAdmin", scope |-> scope, id |-> a, users |-> linked] \in AdminCall
      BY <1>1 DEF AdminCall, AdminOps
    <3> QED BY <3>1, <3>2
  <2>3. CASE RemoveAdmin(h, scope, a)
    <3>1. Accept(h, [op |-> "unlinkAdmin", scope |-> scope, id |-> a])
      BY <2>3 DEF RemoveAdmin
    <3>2. [op |-> "unlinkAdmin", scope |-> scope, id |-> a] \in UnlinkCall
      BY <1>1 DEF UnlinkCall
    <3> QED BY <3>1, <3>2
  <2> QED BY <2>1, <2>2, <2>3
<1>3. PICK c \in AdminCall \cup UnlinkCall : Accept(h, c)
  BY <1>2
<1>4. c \in Call /\ c.op \in AdminOps \cup {"unlinkAdmin", "dropAdmin"}
  BY KindsAreCalls, KindOps
<1>5. ASSUME NEW S PROVE InHand(S, c)'
  BY <1>4 DEF InHand, AdminOps
<1> QED BY <1>1, <1>3, <1>4, <1>5, RequestKeeps

-----------------------------------------------------------------------------
(* A request goes on: rows it writes are in rows.                          *)
LEMMA WorkKeeps ==
  ASSUME TenantsInv, NEW h \in Handlers, NEW call \in Call, Goto(h, call),
         NEW rows, Writes(h, rows), \A x : x \in rows \/ Same(x), used' = used,
         NEW S \in SUBSET Users, \A g \in Handlers : InHand(S, calls[g]), InHand(S, call)',
         users' \in [Users -> User \cup {None}], roles' \in [RoleIds -> Role \cup {None}],
         contracts' \in [Contracts -> Contract \cup {None}],
         sellers' \subseteq Sellers, admins' \subseteq Admins,
         References', RolesKept', IdsUsed', Supers(S)'
  PROVE  TenantsInv'
<1>1. /\ calls' = [calls EXCEPT ![h] = call] /\ requests' = requests
      /\ raced' = raced \cup {x \in rows : \E g \in Handlers \ {h} : x \in Holds(calls[g])}
  BY DEF Goto, Writes
<1>2. ASSUME NEW g \in Handlers \ {h}, NEW x \in Holds(calls[g])
      PROVE  x \in raced' \/ Same(x)
  BY <1>1
<1>3. \A x \in used : x \in S <=> x \in S
  OBVIOUS
<1>4. calls' \in [Handlers -> Call] /\ \A g \in Handlers : InHand(S, calls[g])'
  BY <1>1, <1>2, <1>3, CallsAfter
<1>5. TablesTyped'
  BY <1>1, <1>4 DEF TenantsInv, TablesTyped
<1> QED BY <1>4, <1>5 DEF TenantsInv

UserFits(S, u, row) == UserRefs(row) /\ u \in used /\ (row.role = "super-admin" <=> u \in S)

LEMMA UsersFit ==
  ASSUME TenantsInv, NEW S, Supers(S), NEW u \in Users, HasUser(u)
  PROVE  UserFits(S, u, users[u])
BY DEF TenantsInv, References, IdsUsed, Supers, IsSuperAdmin, UserFits

(* Only users are written.                                                 *)
LEMMA UsersWritten ==
  ASSUME TenantsInv, NEW h \in Handlers, NEW call \in Call, Goto(h, call),
         NEW rows, Writes(h, rows), used' = used, roles' = roles, contracts' = contracts,
         sellers' = sellers, admins' = admins,
         NEW S \in SUBSET Users, \A g \in Handlers : InHand(S, calls[g]), InHand(S, call)',
         users' = [u \in Users |-> users'[u]],
         \A u \in Users : \/ users'[u] = users[u]
                          \/ u \in rows /\ users'[u] = None
                          \/ u \in rows /\ users'[u] \in User /\ UserFits(S, u, users'[u]),
         Supers(S)
  PROVE  TenantsInv'
<1>1. ASSUME NEW u \in Users
      PROVE  /\ users'[u] \in User \cup {None}
             /\ u \in rows \/ users'[u] = users[u]
             /\ users'[u] # None => UserFits(S, u, users'[u])
  <2>1. users[u] \in User \cup {None}
    BY DEF TenantsInv, TablesTyped
  <2>2. users[u] # None => UserFits(S, u, users[u])
    BY UsersFit DEF HasUser
  <2> QED BY <2>1, <2>2
<1>2. users' \in [Users -> User \cup {None}]
  BY <1>1
<1>3. \A x : x \in rows \/ Same(x)
  BY <1>1 DEF Same
<1>4. References'
  <2>1. \A u \in Users : users'[u] # None => UserRefs(users'[u])
    BY <1>1 DEF UserFits
  <2>2. (\A u \in Users : HasUser(u) => UserRefs(users[u]))'
    BY <2>1 DEF HasUser, UserRefs, HasRole, SellerRef
  <2> QED BY <2>2 DEF TenantsInv, References, HasContract, HasRole, SellerRef
<1>5. RolesKept'
  BY DEF TenantsInv, RolesKept, HasRole, RoleAllowed
<1>6. IdsUsed' /\ Supers(S)'
  <2>1. \A u \in Users : users'[u] # None => u \in used /\ (users'[u].role = "super-admin" <=> u \in S)
    BY <1>1 DEF UserFits
  <2> QED BY <2>1 DEF TenantsInv, IdsUsed, Supers, HasUser, IsSuperAdmin, HasContract, HasRole
<1>7. /\ roles' \in [RoleIds -> Role \cup {None}]
      /\ contracts' \in [Contracts -> Contract \cup {None}]
      /\ sellers' \subseteq Sellers /\ admins' \subseteq Admins
  BY DEF TenantsInv, TablesTyped
<1> QED BY <1>2, <1>3, <1>4, <1>5, <1>6, <1>7, WorkKeeps

(* What a step may do to users, contracts and roles.                       *)
StaysSuper ==
  \A u \in Users :
    HasUser(u) /\ IsSuperAdmin(u) /\ users'[u] # None => users'[u].role = "super-admin"

StaysAssigned ==
  /\ \A u \in Users \ raced' :
       HasUser(u) /\ ~IsSuperAdmin(u) /\ users[u].seller # None /\ users'[u] # None =>
         users'[u].seller = users[u].seller
  /\ \A c \in Contracts \ raced' :
       HasContract(c) /\ contracts[c].seller # None /\ contracts'[c] # None =>
         contracts'[c].seller = contracts[c].seller

StaysApart(scope) ==
  /\ \A u \in Users \ raced' :
       users'[u] # users[u] => Ours(users[u], scope) /\ Ours(users'[u], scope)
  /\ \A c \in Contracts \ raced' :
       contracts'[c] # contracts[c] => Ours(contracts[c], scope) /\ Ours(contracts'[c], scope)
  /\ \A r \in RoleIds \ raced' :
       roles'[r] # roles[r] =>
         \A row \in {roles[r], roles'[r]} : Ours(row, scope) \/ row.seller = None

Proper(h) ==
  /\ StaysSuper
  /\ StaysAssigned
  /\ calls[h].scope # Super => StaysApart(calls[h].scope)

LEMMA NothingWritten ==
  ASSUME NEW h, users' = users, roles' = roles, contracts' = contracts
  PROVE  Proper(h)
BY DEF Proper, StaysSuper, StaysAssigned, StaysApart, HasUser, IsSuperAdmin

LEMMA IdleFits ==
  /\ Idle \in Call
  /\ \A S : InHand(S, Idle)'
BY KindsAreCalls, KindOps DEF InHand

LEMMA SaveUserPreserves ==
  ASSUME TenantsInv, NEW h \in Handlers, SaveUser(h)
  PROVE  TenantsInv' /\ Proper(h)
<1>1. PICK S \in SUBSET Users : Supers(S) /\ \A g \in Handlers : InHand(S, calls[g])
  BY DEF TenantsInv
<1>2. PICK c \in Call : c = calls[h]
  BY DEF TenantsInv, TablesTyped
<1>3. c.op = "saveUser" /\ c.id \in Users /\ c.row \in User /\ UserInHand(S, c)
  <2>1. c.op = "saveUser"
    BY <1>2 DEF SaveUser, In
  <2> QED BY <1>1, <1>2, <2>1, CallIs DEF SaveUserCall, InHand
<1>4. /\ Goto(h, Idle) /\ used' = used /\ roles' = roles /\ contracts' = contracts
      /\ sellers' = sellers /\ admins' = admins
  BY DEF SaveUser, Finish
<1>5. users \in [Users -> User \cup {None}]
  BY DEF TenantsInv, TablesTyped
<1>6. CASE users' = users /\ Writes(h, {})
  <2>1. users' = [u \in Users |-> users'[u]] /\ \A u \in Users : users'[u] = users[u]
    BY <1>5, <1>6
  <2> QED BY <1>1, <1>4, <1>6, <2>1, IdleFits, UsersWritten, NothingWritten
<1>7. CASE /\ UserRefs(c.row) /\ Writes(h, {c.id})
           /\ users' = [users EXCEPT ![c.id] = c.row]
  <2>1. /\ users' = [u \in Users |-> users'[u]] /\ users'[c.id] = c.row
        /\ \A u \in Users \ {c.id} : users'[u] = users[u]
    BY <1>3, <1>5, <1>7
  <2>2. UserFits(S, c.id, c.row)
    BY <1>3, <1>7 DEF UserInHand, UserFits
  <2>3. TenantsInv'
    <3>1. \A u \in Users : \/ users'[u] = users[u]
                           \/ u \in {c.id} /\ users'[u] \in User /\ UserFits(S, u, users'[u])
      BY <1>3, <2>1, <2>2
    <3> QED BY <1>1, <1>4, <1>7, <2>1, <3>1, IdleFits, UsersWritten
  <2>4. raced \subseteq raced'
    BY <1>7 DEF Writes
  <2>5. c.id \notin raced' => users[c.id] = None \/ users[c.id].seller = c.row.seller
    BY <1>3, <2>4 DEF UserInHand
  <2>6. StaysSuper
    BY <1>1, <1>3, <2>1 DEF StaysSuper, Supers, IsSuperAdmin, HasUser, UserInHand
  <2>7. StaysAssigned
    BY <1>4, <2>1, <2>5 DEF StaysAssigned, HasUser
  <2>8. c.scope # Super => StaysApart(c.scope)
    BY <1>3, <1>4, <2>1, <2>5 DEF StaysApart, Ours, UserInHand
  <2> QED BY <1>2, <2>3, <2>6, <2>7, <2>8 DEF Proper
<1> QED BY <1>2, <1>6, <1>7 DEF SaveUser

LEMMA DropUserPreserves ==
  ASSUME TenantsInv, NEW h \in Handlers, DropUser(h)
  PROVE  TenantsInv' /\ Proper(h)
<1>1. PICK S \in SUBSET Users : Supers(S) /\ \A g \in Handlers : InHand(S, calls[g])
  BY DEF TenantsInv
<1>2. PICK c \in Call : c = calls[h]
  BY DEF TenantsInv, TablesTyped
<1>3. c.op = "dropUser" /\ c.id \in Users /\ UserToDrop(c)
  <2>1. c.op = "dropUser"
    BY <1>2 DEF DropUser, In
  <2> QED BY <1>1, <1>2, <2>1, CallIs DEF DropUserCall, InHand
<1>4. /\ Goto(h, Idle) /\ used' = used /\ roles' = roles /\ contracts' = contracts
      /\ sellers' = sellers /\ admins' = admins /\ Writes(h, {c.id})
      /\ users' = [users EXCEPT ![c.id] = None]
  BY <1>2 DEF DropUser, Finish
<1>5. users \in [Users -> User \cup {None}]
  BY DEF TenantsInv, TablesTyped
<1>6. /\ users' = [u \in Users |-> users'[u]] /\ users'[c.id] = None
      /\ \A u \in Users \ {c.id} : users'[u] = users[u]
  BY <1>3, <1>4, <1>5
<1>7. TenantsInv'
  BY <1>1, <1>3, <1>4, <1>6, IdleFits, UsersWritten
<1>8. StaysSuper /\ StaysAssigned
  BY <1>3, <1>4, <1>6 DEF StaysSuper, StaysAssigned, HasUser, IsSuperAdmin
<1>9. c.scope # Super => StaysApart(c.scope)
  <2>1. raced \subseteq raced'
    BY <1>4 DEF Writes
  <2> QED BY <1>3, <1>4, <1>6, <2>1 DEF StaysApart, Ours, UserToDrop
<1> QED BY <1>2, <1>7, <1>8, <1>9 DEF Proper

(* The users linked to an admin change, but not what they belong to.       *)
LEMMA AdminLinked ==
  ASSUME TenantsInv, NEW h \in Handlers, NEW call \in Call, Goto(h, call),
         call.op \in AdminOps \cup {"idle", "unlinkAdmin", "dropAdmin", "dropSeller"},
         calls[h].scope = Super,
         NEW linked \in SUBSET Users, NEW a \in admins \cup {None},
         users' = WithAdmin(linked, a), Writes(h, linked), used' = used, roles' = roles,
         contracts' = contracts, sellers' = sellers, admins' = admins
  PROVE  TenantsInv' /\ Proper(h)
<1>1. PICK S \in SUBSET Users : Supers(S) /\ \A g \in Handlers : InHand(S, calls[g])
  BY DEF TenantsInv
<1>2. ASSUME NEW u \in Users
      PROVE  /\ \/ users'[u] = users[u]
                \/ u \in linked /\ users'[u] \in User /\ UserFits(S, u, users'[u])
             /\ HasUser(u) /\ users'[u] # None =>
                  users'[u].role = users[u].role /\ users'[u].seller = users[u].seller
  <2>1. CASE u \in linked /\ HasUser(u)
    <3>1. users[u] \in User /\ UserFits(S, u, users[u]) /\ admins \subseteq Admins
      BY <1>1, <2>1, RowsTyped, UsersFit
    <3>2. PICK row \in User : /\ row = [users[u] EXCEPT !.admin = a] /\ row.role = users[u].role
                              /\ row.seller = users[u].seller /\ row.admin = a
      <4>1. [users[u] EXCEPT !.admin = a] \in User
        BY <3>1 DEF User
      <4> QED BY <3>1, <4>1 DEF User
    <3>3. users'[u] = row
      BY <2>1, <3>2 DEF WithAdmin
    <3>4. UserFits(S, u, row)
      BY <3>1, <3>2 DEF UserFits, UserRefs
    <3> QED BY <2>1, <3>2, <3>3, <3>4
  <2>2. CASE ~(u \in linked /\ HasUser(u))
    <3>1. users'[u] = users[u]
      BY <2>2 DEF WithAdmin
    <3> QED BY <3>1
  <2> QED BY <2>1, <2>2
<1>3. users' = [u \in Users |-> users'[u]]
  BY DEF WithAdmin
<1>4. InHand(S, call)'
  BY DEF InHand, AdminOps
<1>5. TenantsInv'
  BY <1>1, <1>2, <1>3, <1>4, UsersWritten
<1>6. StaysSuper /\ StaysAssigned
  BY <1>2 DEF StaysSuper, StaysAssigned, IsSuperAdmin
<1> QED BY <1>5, <1>6 DEF Proper

(* What a request on an admin has in hand.                                 *)
LEMMA AdminInHand ==
  ASSUME TenantsInv, NEW h \in Handlers
  PROVE  /\ calls[h].op \in AdminOps =>
              /\ calls[h] \in AdminCall /\ calls[h].id \in Admins
              /\ calls[h].users \in SUBSET Users /\ calls[h].scope = Super
         /\ calls[h].op \in {"unlinkAdmin", "dropAdmin"} =>
              calls[h] \in UnlinkCall /\ calls[h].id \in Admins /\ calls[h].scope = Super
<1>1. calls[h] \in Call
  BY DEF TenantsInv, TablesTyped
<1>2. calls[h].op \in AdminOps => calls[h] \in AdminCall
  BY <1>1, CallIs
<1>3. calls[h].op \in {"unlinkAdmin", "dropAdmin"} => calls[h] \in UnlinkCall
  BY <1>1, CallIs
<1> QED BY <1>2, <1>3 DEF AdminCall, UnlinkCall

LEMMA ClearAdminPreserves ==
  ASSUME TenantsInv, NEW h \in Handlers, ClearAdmin(h)
  PROVE  TenantsInv' /\ Proper(h)
<1>1. calls[h].op = "clearAdmin"
  BY DEF ClearAdmin, In
<1>2. calls[h] \in AdminCall /\ calls[h].scope = Super
  BY <1>1, AdminInHand DEF AdminOps
<1>3. PICK call \in Call : call = [calls[h] EXCEPT !.op = "linkAdmin"] /\ call.op = "linkAdmin"
  <2>1. [calls[h] EXCEPT !.op = "linkAdmin"] \in AdminCall
    BY <1>2 DEF AdminCall, AdminOps
  <2> QED BY <1>2, <2>1, KindsAreCalls DEF AdminCall
<1>4. Linked(calls[h].id) \in SUBSET Users
  BY DEF Linked
<1>5. /\ Goto(h, call) /\ users' = WithAdmin(Linked(calls[h].id), None)
      /\ Writes(h, Linked(calls[h].id)) /\ used' = used /\ roles' = roles
      /\ contracts' = contracts /\ sellers' = sellers /\ admins' = admins
  BY <1>3 DEF ClearAdmin
<1>6. call.op \in AdminOps
  BY <1>3 DEF AdminOps
<1> QED BY <1>2, <1>4, <1>5, <1>6, AdminLinked

LEMMA UnlinkAdminPreserves ==
  ASSUME TenantsInv, NEW h \in Handlers, UnlinkAdmin(h)
  PROVE  TenantsInv' /\ Proper(h)
<1>1. calls[h].op = "unlinkAdmin"
  BY DEF UnlinkAdmin, In
<1>2. calls[h] \in UnlinkCall /\ calls[h].scope = Super
  BY <1>1, AdminInHand
<1>3. PICK call \in Call : call = [calls[h] EXCEPT !.op = "dropAdmin"] /\ call.op = "dropAdmin"
  <2>1. [calls[h] EXCEPT !.op = "dropAdmin"] \in UnlinkCall
    BY <1>2 DEF UnlinkCall
  <2> QED BY <1>2, <2>1, KindsAreCalls DEF UnlinkCall
<1>4. Linked(calls[h].id) \in SUBSET Users
  BY DEF Linked
<1>5. /\ Goto(h, call) /\ users' = WithAdmin(Linked(calls[h].id), None)
      /\ Writes(h, Linked(calls[h].id)) /\ used' = used /\ roles' = roles
      /\ contracts' = contracts /\ sellers' = sellers /\ admins' = admins
  BY <1>3 DEF UnlinkAdmin
<1> QED BY <1>2, <1>3, <1>4, <1>5, AdminLinked

(* A step that writes no row of users, roles and contracts, and leaves at  *)
(* least the admins that users are linked to.                              *)
LEMMA NoRowWritten ==
  ASSUME TenantsInv, NEW h \in Handlers, NEW call \in Call, Goto(h, call),
         NEW rows, Writes(h, rows), used' = used, users' = users, roles' = roles,
         contracts' = contracts, sellers' = sellers, admins' \subseteq Admins,
         \A u \in Users : HasUser(u) /\ users[u].admin # None => users[u].admin \in admins',
         NEW S \in SUBSET Users, Supers(S), \A g \in Handlers : InHand(S, calls[g]),
         InHand(S, call)'
  PROVE  TenantsInv' /\ Proper(h)
<1>1. \A x : x \in rows \/ Same(x)
  BY DEF Same
<1>2. /\ users' \in [Users -> User \cup {None}] /\ roles' \in [RoleIds -> Role \cup {None}]
      /\ contracts' \in [Contracts -> Contract \cup {None}] /\ sellers' \subseteq Sellers
  BY DEF TenantsInv, TablesTyped
<1>3. References'
  BY DEF TenantsInv, References, UserRefs, SellerRef, HasUser, HasRole, HasContract
<1>4. RolesKept'
  BY DEF TenantsInv, RolesKept, HasRole, RoleAllowed
<1>5. IdsUsed' /\ Supers(S)'
  BY DEF TenantsInv, IdsUsed, Supers, HasUser, IsSuperAdmin, HasRole, HasContract
<1>6. TenantsInv'
  BY <1>1, <1>2, <1>3, <1>4, <1>5, WorkKeeps
<1> QED BY <1>6, NothingWritten

LEMMA LinkAdminPreserves ==
  ASSUME TenantsInv, NEW h \in Handlers, LinkAdmin(h)
  PROVE  TenantsInv' /\ Proper(h)
<1>1. calls[h].op = "linkAdmin"
  BY DEF LinkAdmin, In
<1>2. calls[h].users \in SUBSET Users /\ calls[h].scope = Super
  BY <1>1, AdminInHand DEF AdminOps
<1>3. /\ Goto(h, Idle) /\ used' = used /\ roles' = roles
      /\ contracts' = contracts /\ sellers' = sellers /\ admins' = admins
  BY DEF LinkAdmin, Finish
<1>4. CASE users' = users /\ Writes(h, {})
  <2>1. PICK S \in SUBSET Users : Supers(S) /\ \A g \in Handlers : InHand(S, calls[g])
    BY DEF TenantsInv
  <2>2. /\ admins' \subseteq Admins
        /\ \A u \in Users : HasUser(u) /\ users[u].admin # None => users[u].admin \in admins'
    BY <1>3 DEF TenantsInv, TablesTyped, References, UserRefs
  <2> QED BY <1>3, <1>4, <2>1, <2>2, IdleFits, NoRowWritten
<1>5. CASE /\ calls[h].id \in admins /\ Writes(h, calls[h].users)
           /\ users' = WithAdmin(calls[h].users, calls[h].id)
  BY <1>2, <1>3, <1>5, IdleFits, KindOps, AdminLinked
<1> QED BY <1>4, <1>5 DEF LinkAdmin

LEMMA OtherAdminStepsPreserve ==
  ASSUME TenantsInv, NEW h \in Handlers, SaveAdmin(h) \/ CheckAdmin(h) \/ DropAdmin(h)
  PROVE  TenantsInv' /\ Proper(h)
<1>1. PICK S \in SUBSET Users : Supers(S) /\ \A g \in Handlers : InHand(S, calls[g])
  BY DEF TenantsInv
<1>2. /\ used' = used /\ users' = users /\ roles' = roles /\ contracts' = contracts
      /\ sellers' = sellers
  BY DEF SaveAdmin, CheckAdmin, DropAdmin
<1>3. \E rows : Writes(h, rows)
  BY DEF SaveAdmin, CheckAdmin, DropAdmin
<1>4. PICK rows : Writes(h, rows)
  BY <1>3
<1>5. \A u \in Users : HasUser(u) /\ users[u].admin # None => users[u].admin \in admins
  BY DEF TenantsInv, References, UserRefs
<1>6. /\ admins' \subseteq Admins
      /\ \A u \in Users : HasUser(u) /\ users[u].admin # None => users[u].admin \in admins'
  <2>1. CASE SaveAdmin(h)
    <3>1. calls[h].id \in Admins
      BY <2>1, AdminInHand DEF SaveAdmin, In, AdminOps
    <3> QED BY <1>5, <2>1, <3>1, RowsTyped DEF SaveAdmin
  <2>2. CASE CheckAdmin(h)
    BY <1>5, <2>2, RowsTyped DEF CheckAdmin
  <2>3. CASE DropAdmin(h)
    <3>1. admins' = admins \/ (admins' = admins \ {calls[h].id} /\ Linked(calls[h].id) = {})
      BY <2>3 DEF DropAdmin
    <3> QED BY <1>5, <3>1, RowsTyped DEF Linked
  <2> QED BY <2>1, <2>2, <2>3
<1>7. \E call \in Call : Goto(h, call) /\ call.op \in AdminOps \cup {"idle"}
  <2>1. CASE Goto(h, Idle)
    BY <2>1, IdleFits, KindOps
  <2>2. ASSUME calls[h].op \in AdminOps, NEW op \in AdminOps,
               Goto(h, [calls[h] EXCEPT !.op = op])
        PROVE  \E call \in Call : Goto(h, call) /\ call.op \in AdminOps \cup {"idle"}
    <3>1. calls[h] \in AdminCall
      BY <2>2, AdminInHand
    <3>2. [calls[h] EXCEPT !.op = op] \in AdminCall
      BY <3>1 DEF AdminCall
    <3> QED BY <2>2, <3>2, KindsAreCalls, KindOps
  <2>3. CASE SaveAdmin(h)
    <3>1. calls[h].op \in AdminOps /\ Goto(h, [calls[h] EXCEPT !.op = "checkAdmin"])
          /\ "checkAdmin" \in AdminOps
      BY <2>3 DEF SaveAdmin, In, AdminOps
    <3> QED BY <2>2, <3>1
  <2>4. CASE CheckAdmin(h) /\ ~Goto(h, Idle)
    <3>1. calls[h].op \in AdminOps /\ Goto(h, [calls[h] EXCEPT !.op = "clearAdmin"])
          /\ "clearAdmin" \in AdminOps
      BY <2>4 DEF CheckAdmin, In, AdminOps, Finish
    <3> QED BY <2>2, <3>1
  <2>5. CASE DropAdmin(h)
    BY <2>1, <2>5 DEF DropAdmin, Finish
  <2> QED BY <2>1, <2>3, <2>4, <2>5
<1>8. PICK call \in Call : Goto(h, call) /\ call.op \in AdminOps \cup {"idle"}
  BY <1>7
<1>9. InHand(S, call)'
  BY <1>8 DEF InHand, AdminOps
<1> QED BY <1>1, <1>2, <1>4, <1>6, <1>8, <1>9, NoRowWritten

(* A custom role is written, or removed while no user has it.              *)
LEMMA RoleWritten ==
  ASSUME TenantsInv, NEW h \in Handlers, Goto(h, Idle), NEW r \in CustomRoles,
         Writes(h, {r}), used' = used, users' = users, contracts' = contracts,
         sellers' = sellers, admins' = admins,
         NEW row, roles' = [roles EXCEPT ![r] = row],
         \/ row = None /\ UsersOf(r) = {}
         \/ row \in Role /\ RoleAllowed(row) /\ SellerRef(row.seller) /\ r \in used
  PROVE  TenantsInv'
<1>1. PICK S \in SUBSET Users : Supers(S) /\ \A g \in Handlers : InHand(S, calls[g])
  BY DEF TenantsInv
<1>2. /\ roles' \in [RoleIds -> Role \cup {None}] /\ roles'[r] = row
      /\ \A x \in RoleIds \ {r} : roles'[x] = roles[x]
      /\ r \in RoleIds
  BY DEF TenantsInv, TablesTyped, RoleIds
<1>3. \A x : x \in {r} \/ Same(x)
  BY <1>2 DEF Same
<1>4. row \in Role => row # None
  BY FirstRowsAssumption DEF FirstRowsAssumption
<1>5. References'
  <2>1. ASSUME NEW u \in Users, HasUser(u) PROVE UserRefs(users[u])'
    <3>1. UserRefs(users[u])
      BY <2>1 DEF TenantsInv, References
    <3>2. users[u].role = r => roles'[r] # None
      BY <1>2, <1>4, <2>1 DEF UsersOf
    <3>3. users[u].role \in RoleIds
      BY <2>1, RowsTyped DEF User
    <3> QED BY <1>2, <3>1, <3>2, <3>3 DEF UserRefs, HasRole, SellerRef
  <2>2. (\A u \in Users : HasUser(u) => UserRefs(users[u]))'
    BY <2>1 DEF HasUser
  <2>3. ASSUME NEW x \in RoleIds, roles'[x] # None PROVE SellerRef(roles'[x].seller)
    <3>1. CASE x = r
      BY <1>2, <2>3, <3>1
    <3>2. CASE x # r
      BY <1>2, <2>3, <3>2 DEF TenantsInv, References, HasRole
    <3> QED BY <3>1, <3>2
  <2>4. (\A x \in RoleIds : HasRole(x) => SellerRef(roles[x].seller))'
    BY <2>3 DEF HasRole, SellerRef
  <2> QED BY <2>2, <2>4 DEF TenantsInv, References, HasContract, SellerRef
<1>6. RolesKept'
  <2>1. \A slug \in SystemSlugs : slug \in RoleIds /\ slug # r
    BY FirstRowsAssumption DEF FirstRowsAssumption, RoleIds
  <2>2. ASSUME NEW x \in CustomRoles, roles'[x] # None PROVE RoleAllowed(roles'[x])
    BY <1>2, <2>2 DEF TenantsInv, RolesKept, HasRole, RoleIds
  <2>3. (\A x \in CustomRoles : HasRole(x) => RoleAllowed(roles[x]))'
    BY <2>2 DEF HasRole, RoleAllowed
  <2>4. \A slug \in SystemSlugs : roles'[slug] = SystemRole(slug)
    BY <1>2, <2>1 DEF TenantsInv, RolesKept
  <2> QED BY <2>3, <2>4 DEF RolesKept
<1>7. IdsUsed'
  <2>1. \A x \in CustomRoles : roles'[x] # None => x \in used
    BY <1>2 DEF TenantsInv, IdsUsed, HasRole, RoleIds
  <2> QED BY <2>1 DEF TenantsInv, IdsUsed, HasRole, HasUser, HasContract
<1>8. Supers(S)'
  BY <1>1 DEF Supers, HasUser, IsSuperAdmin
<1>9. /\ users' \in [Users -> User \cup {None}] /\ contracts' \in [Contracts -> Contract \cup {None}]
      /\ sellers' \subseteq Sellers /\ admins' \subseteq Admins
  BY DEF TenantsInv, TablesTyped
<1> QED BY <1>1, <1>2, <1>3, <1>5, <1>6, <1>7, <1>8, <1>9, IdleFits, WorkKeeps

LEMMA SaveRolePreserves ==
  ASSUME TenantsInv, NEW h \in Handlers, SaveRole(h)
  PROVE  TenantsInv' /\ Proper(h)
<1>1. PICK S \in SUBSET Users : Supers(S) /\ \A g \in Handlers : InHand(S, calls[g])
  BY DEF TenantsInv
<1>2. PICK c \in Call : c = calls[h]
  BY DEF TenantsInv, TablesTyped
<1>3. c.op = "saveRole" /\ c.row \in Role /\ RoleInHand(c)
  <2>1. c.op = "saveRole"
    BY <1>2 DEF SaveRole, In
  <2> QED BY <1>1, <1>2, <2>1, CallIs DEF SaveRoleCall, InHand
<1>4. /\ Goto(h, Idle) /\ used' = used /\ users' = users /\ contracts' = contracts
      /\ sellers' = sellers /\ admins' = admins
  BY DEF SaveRole, Finish
<1>5. CASE roles' = roles /\ Writes(h, {})
  <2>1. /\ admins' \subseteq Admins
        /\ \A u \in Users : HasUser(u) /\ users[u].admin # None => users[u].admin \in admins'
    BY <1>4 DEF TenantsInv, TablesTyped, References, UserRefs
  <2> QED BY <1>1, <1>4, <1>5, <2>1, IdleFits, NoRowWritten
<1>6. CASE /\ SellerRef(c.row.seller) /\ Writes(h, {c.id})
           /\ roles' = [roles EXCEPT ![c.id] = c.row]
  <2>1. c.id \in CustomRoles /\ c.id \in used /\ RoleAllowed(c.row)
    BY <1>3 DEF RoleInHand
  <2>2. TenantsInv'
    BY <1>3, <1>4, <1>6, <2>1, RoleWritten
  <2>3. /\ roles'[c.id] = c.row /\ raced \subseteq raced'
        /\ \A x \in RoleIds \ {c.id} : roles'[x] = roles[x]
    BY <1>6, <2>1 DEF TenantsInv, TablesTyped, RoleIds, Writes
  <2>4. StaysSuper /\ StaysAssigned
    BY <1>4 DEF StaysSuper, StaysAssigned, IsSuperAdmin
  <2>5. c.scope # Super => StaysApart(c.scope)
    BY <1>3, <1>4, <2>3 DEF StaysApart, RoleInHand, RoleOurs, Ours
  <2> QED BY <1>2, <2>2, <2>4, <2>5 DEF Proper
<1> QED BY <1>2, <1>5, <1>6 DEF SaveRole

LEMMA DropRolePreserves ==
  ASSUME TenantsInv, NEW h \in Handlers, DropRole(h)
  PROVE  TenantsInv' /\ Proper(h)
<1>1. PICK S \in SUBSET Users : Supers(S) /\ \A g \in Handlers : InHand(S, calls[g])
  BY DEF TenantsInv
<1>2. PICK c \in Call : c = calls[h]
  BY DEF TenantsInv, TablesTyped
<1>3. RoleToDrop(c)
  <2>1. c.op = "dropRole"
    BY <1>2 DEF DropRole, In
  <2> QED BY <1>1, <1>2, <2>1 DEF InHand
<1>4. /\ Goto(h, Idle) /\ used' = used /\ users' = users /\ contracts' = contracts
      /\ sellers' = sellers /\ admins' = admins
  BY DEF DropRole, Finish
<1>5. CASE roles' = roles /\ Writes(h, {})
  <2>1. /\ admins' \subseteq Admins
        /\ \A u \in Users : HasUser(u) /\ users[u].admin # None => users[u].admin \in admins'
    BY <1>4 DEF TenantsInv, TablesTyped, References, UserRefs
  <2> QED BY <1>1, <1>4, <1>5, <2>1, IdleFits, NoRowWritten
<1>6. CASE /\ RoleUnused(c.id) /\ Writes(h, {c.id}) /\ roles' = [roles EXCEPT ![c.id] = None]
  <2>1. c.id \in CustomRoles
    BY <1>3 DEF RoleToDrop
  <2>2. TenantsInv'
    BY <1>4, <1>6, <2>1, RoleWritten DEF RoleUnused
  <2>3. /\ roles'[c.id] = None /\ raced \subseteq raced'
        /\ \A x \in RoleIds \ {c.id} : roles'[x] = roles[x]
    BY <1>6, <2>1 DEF TenantsInv, TablesTyped, RoleIds, Writes
  <2>4. StaysSuper /\ StaysAssigned
    BY <1>4 DEF StaysSuper, StaysAssigned, IsSuperAdmin
  <2>5. c.scope # Super => StaysApart(c.scope)
    BY <1>3, <1>4, <2>3 DEF StaysApart, RoleToDrop, RoleOurs, Ours
  <2> QED BY <1>2, <2>2, <2>4, <2>5 DEF Proper
<1> QED BY <1>2, <1>5, <1>6 DEF DropRole

StillRef(seller) == seller = None \/ seller \in sellers'

(* Only contracts are written, and removed sellers left nothing behind.    *)
LEMMA ContractsWritten ==
  ASSUME TenantsInv, NEW h \in Handlers, Goto(h, Idle), NEW rows, Writes(h, rows),
         used' = used, users' = users, roles' = roles, sellers' \subseteq sellers,
         admins' = admins, contracts' = [c \in Contracts |-> contracts'[c]],
         \A c \in Contracts :
           /\ contracts'[c] = contracts[c] \/ c \in rows
           /\ contracts'[c] = None
              \/ (contracts'[c] \in Contract /\ StillRef(contracts'[c].seller) /\ c \in used),
         \A u \in Users : HasUser(u) => StillRef(users[u].seller),
         \A r \in RoleIds : HasRole(r) => StillRef(roles[r].seller)
  PROVE  TenantsInv'
<1>1. PICK S \in SUBSET Users : Supers(S) /\ \A g \in Handlers : InHand(S, calls[g])
  BY DEF TenantsInv
<1>2. /\ contracts' \in [Contracts -> Contract \cup {None}]
      /\ users' \in [Users -> User \cup {None}] /\ roles' \in [RoleIds -> Role \cup {None}]
      /\ sellers' \subseteq Sellers /\ admins' \subseteq Admins
  BY DEF TenantsInv, TablesTyped
<1>3. \A x : x \in rows \/ Same(x)
  BY DEF Same
<1>4. References'
  <2>1. (\A u \in Users : HasUser(u) => UserRefs(users[u]))'
    BY DEF TenantsInv, References, UserRefs, HasUser, HasRole, SellerRef, StillRef
  <2>2. (\A c \in Contracts : HasContract(c) => SellerRef(contracts[c].seller))'
    BY DEF HasContract, SellerRef, StillRef
  <2>3. (\A r \in RoleIds : HasRole(r) => SellerRef(roles[r].seller))'
    BY DEF HasRole, SellerRef, StillRef
  <2> QED BY <2>1, <2>2, <2>3 DEF References
<1>5. RolesKept' /\ Supers(S)'
  BY <1>1 DEF TenantsInv, RolesKept, HasRole, RoleAllowed, Supers, HasUser, IsSuperAdmin
<1>6. IdsUsed'
  BY DEF TenantsInv, IdsUsed, HasUser, HasRole, HasContract
<1> QED BY <1>1, <1>2, <1>3, <1>4, <1>5, <1>6, IdleFits, WorkKeeps

LEMMA SaveContractPreserves ==
  ASSUME TenantsInv, NEW h \in Handlers, SaveContract(h)
  PROVE  TenantsInv' /\ Proper(h)
<1>1. PICK S \in SUBSET Users : Supers(S) /\ \A g \in Handlers : InHand(S, calls[g])
  BY DEF TenantsInv
<1>2. PICK c \in Call : c = calls[h]
  BY DEF TenantsInv, TablesTyped
<1>3. c.op = "saveContract" /\ c.id \in Contracts /\ c.row \in Contract /\ ContractInHand(c)
  <2>1. c.op = "saveContract"
    BY <1>2 DEF SaveContract, In
  <2> QED BY <1>1, <1>2, <2>1, CallIs DEF SaveContractCall, InHand
<1>4. /\ Goto(h, Idle) /\ used' = used /\ users' = users /\ roles' = roles
      /\ sellers' = sellers /\ admins' = admins
  BY DEF SaveContract, Finish
<1>5. CASE contracts' = contracts /\ Writes(h, {})
  <2>1. /\ admins' \subseteq Admins
        /\ \A u \in Users : HasUser(u) /\ users[u].admin # None => users[u].admin \in admins'
    BY <1>4 DEF TenantsInv, TablesTyped, References, UserRefs
  <2> QED BY <1>1, <1>4, <1>5, <2>1, IdleFits, NoRowWritten
<1>6. CASE /\ SellerRef(c.row.seller) /\ Writes(h, {c.id})
           /\ contracts' = [contracts EXCEPT ![c.id] = c.row]
  <2>1. /\ contracts' = [k \in Contracts |-> contracts'[k]] /\ contracts'[c.id] = c.row
        /\ \A k \in Contracts \ {c.id} : contracts'[k] = contracts[k]
    BY <1>3, <1>6 DEF TenantsInv, TablesTyped
  <2>2. ASSUME NEW k \in Contracts
        PROVE  /\ contracts'[k] = contracts[k] \/ k \in {c.id}
               /\ contracts'[k] = None
                  \/ (contracts'[k] \in Contract /\ StillRef(contracts'[k].seller) /\ k \in used)
    <3>1. CASE k = c.id
      BY <1>3, <1>4, <1>6, <2>1, <3>1 DEF ContractInHand, SellerRef, StillRef
    <3>2. CASE k # c.id
      BY <1>4, <2>1, <3>2, RowsTyped
         DEF TenantsInv, References, IdsUsed, HasContract, SellerRef, StillRef
    <3> QED BY <3>1, <3>2
  <2>3. /\ \A u \in Users : HasUser(u) => StillRef(users[u].seller)
        /\ \A r \in RoleIds : HasRole(r) => StillRef(roles[r].seller)
    BY <1>4 DEF TenantsInv, References, UserRefs, SellerRef, StillRef
  <2>4. TenantsInv'
    BY <1>4, <1>6, <2>1, <2>2, <2>3, ContractsWritten
  <2>5. raced \subseteq raced'
    BY <1>6 DEF Writes
  <2>6. StaysSuper /\ StaysAssigned
    BY <1>3, <1>4, <2>1, <2>5 DEF StaysSuper, StaysAssigned, IsSuperAdmin, HasContract,
                                  ContractInHand
  <2>7. c.scope # Super => StaysApart(c.scope)
    BY <1>3, <1>4, <2>1, <2>5 DEF StaysApart, ContractInHand, Ours
  <2> QED BY <1>2, <2>4, <2>6, <2>7 DEF Proper
<1> QED BY <1>2, <1>5, <1>6 DEF SaveContract

LEMMA DropContractPreserves ==
  ASSUME TenantsInv, NEW h \in Handlers, DropContract(h)
  PROVE  TenantsInv' /\ Proper(h)
<1>1. PICK S \in SUBSET Users : Supers(S) /\ \A g \in Handlers : InHand(S, calls[g])
  BY DEF TenantsInv
<1>2. PICK c \in Call : c = calls[h]
  BY DEF TenantsInv, TablesTyped
<1>3. c.id \in Contracts /\ ContractToDrop(c)
  <2>1. c.op = "dropContract"
    BY <1>2 DEF DropContract, In
  <2> QED BY <1>1, <1>2, <2>1, CallIs DEF DropContractCall, InHand
<1>4. /\ Goto(h, Idle) /\ used' = used /\ users' = users /\ roles' = roles
      /\ sellers' = sellers /\ admins' = admins /\ Writes(h, {c.id})
      /\ contracts' = [contracts EXCEPT ![c.id] = None]
  BY <1>2 DEF DropContract, Finish
<1>5. /\ contracts' = [k \in Contracts |-> contracts'[k]] /\ contracts'[c.id] = None
      /\ \A k \in Contracts \ {c.id} : contracts'[k] = contracts[k]
  BY <1>3, <1>4 DEF TenantsInv, TablesTyped
<1>6. ASSUME NEW k \in Contracts
      PROVE  /\ contracts'[k] = contracts[k] \/ k \in {c.id}
             /\ contracts'[k] = None
                \/ (contracts'[k] \in Contract /\ StillRef(contracts'[k].seller) /\ k \in used)
  BY <1>4, <1>5, RowsTyped DEF TenantsInv, References, IdsUsed, HasContract, SellerRef, StillRef
<1>7. /\ \A u \in Users : HasUser(u) => StillRef(users[u].seller)
      /\ \A r \in RoleIds : HasRole(r) => StillRef(roles[r].seller)
  BY <1>4 DEF TenantsInv, References, UserRefs, SellerRef, StillRef
<1>8. TenantsInv'
  BY <1>4, <1>5, <1>6, <1>7, ContractsWritten
<1>9. StaysSuper /\ StaysAssigned
  BY <1>4, <1>5 DEF StaysSuper, StaysAssigned, IsSuperAdmin, HasContract
<1>10. c.scope # Super => StaysApart(c.scope)
  <2>1. raced \subseteq raced'
    BY <1>4 DEF Writes
  <2> QED BY <1>3, <1>4, <1>5, <2>1 DEF StaysApart, ContractToDrop, Ours
<1> QED BY <1>2, <1>8, <1>9, <1>10 DEF Proper

LEMMA DropSellerPreserves ==
  ASSUME TenantsInv, NEW h \in Handlers, DropSeller(h)
  PROVE  TenantsInv' /\ Proper(h)
<1>1. PICK S \in SUBSET Users : Supers(S) /\ \A g \in Handlers : InHand(S, calls[g])
  BY DEF TenantsInv
<1> DEFINE s == calls[h].id
           signed == {c \in Contracts : HasContract(c) /\ contracts[c].seller = s}
<1>2. calls[h].scope = Super
  <2>1. calls[h].op = "dropSeller" /\ calls[h] \in Call
    BY DEF DropSeller, In, TenantsInv, TablesTyped
  <2> QED BY <2>1, CallIs DEF DropSellerCall
<1>3. /\ Goto(h, Idle) /\ used' = used /\ users' = users /\ roles' = roles /\ admins' = admins
  BY DEF DropSeller, Finish
<1>4. CASE sellers' = sellers /\ contracts' = contracts /\ Writes(h, {})
  <2>1. /\ admins' \subseteq Admins
        /\ \A u \in Users : HasUser(u) /\ users[u].admin # None => users[u].admin \in admins'
    BY <1>3 DEF TenantsInv, TablesTyped, References, UserRefs
  <2> QED BY <1>1, <1>3, <1>4, <2>1, IdleFits, NoRowWritten
<1>5. CASE /\ \A u \in Users : HasUser(u) => users[u].seller # s
           /\ \A r \in RoleIds : HasRole(r) => roles[r].seller # s
           /\ sellers' = sellers \ {s} /\ Writes(h, {s} \cup signed)
           /\ contracts' = [c \in Contracts |-> IF c \in signed THEN None ELSE contracts[c]]
  <2>1. /\ \A u \in Users : HasUser(u) => StillRef(users[u].seller)
        /\ \A r \in RoleIds : HasRole(r) => StillRef(roles[r].seller)
    BY <1>5 DEF TenantsInv, References, UserRefs, SellerRef, StillRef
  <2>2. ASSUME NEW c \in Contracts
        PROVE  /\ contracts'[c] = contracts[c] \/ c \in {s} \cup signed
               /\ contracts'[c] = None
                  \/ (contracts'[c] \in Contract /\ StillRef(contracts'[c].seller) /\ c \in used)
    <3>1. CASE c \in signed
      BY <1>5, <3>1
    <3>2. CASE c \notin signed /\ HasContract(c)
      <4>1. contracts'[c] = contracts[c] /\ contracts[c].seller # s
        BY <1>5, <3>2
      <4>2. contracts[c] \in Contract /\ SellerRef(contracts[c].seller) /\ c \in used
        BY <3>2, RowsTyped DEF TenantsInv, References, IdsUsed
      <4> QED BY <1>5, <4>1, <4>2 DEF SellerRef, StillRef
    <3>3. CASE ~HasContract(c)
      BY <1>5, <3>3 DEF HasContract
    <3> QED BY <3>1, <3>2, <3>3
  <2>3. contracts' = [c \in Contracts |-> contracts'[c]] /\ sellers' \subseteq sellers
    BY <1>5
  <2>4. TenantsInv'
    BY <1>3, <1>5, <2>1, <2>2, <2>3, ContractsWritten
  <2>5. StaysSuper /\ StaysAssigned
    BY <1>3, <1>5 DEF StaysSuper, StaysAssigned, IsSuperAdmin, HasContract
  <2> QED BY <1>2, <2>4, <2>5 DEF Proper
<1> QED BY <1>4, <1>5 DEF DropSeller

LEMMA ReadAdminsPreserves ==
  ASSUME TenantsInv, NEW h \in Handlers, ReadAdmins(h)
  PROVE  TenantsInv' /\ Proper(h)
<1>1. PICK S \in SUBSET Users : Supers(S) /\ \A g \in Handlers : InHand(S, calls[g])
  BY DEF TenantsInv
<1>2. PICK c \in Call : c = calls[h]
  BY DEF TenantsInv, TablesTyped
<1>3. c \in ReadAdminsCall /\ ShopInHand(c)
  <2>1. c.op = "readAdmins"
    BY <1>2 DEF ReadAdmins, In
  <2> QED BY <1>1, <1>2, <2>1, CallIs DEF InHand
<1>4. /\ used' = used /\ users' = users /\ roles' = roles /\ contracts' = contracts
      /\ sellers' = sellers /\ admins' = admins /\ Writes(h, {})
  BY DEF ReadAdmins
<1>5. /\ admins' \subseteq Admins
      /\ \A u \in Users : HasUser(u) /\ users[u].admin # None => users[u].admin \in admins'
  BY <1>4 DEF TenantsInv, TablesTyped, References, UserRefs
<1>6. CASE Goto(h, Idle)
  BY <1>1, <1>4, <1>5, <1>6, IdleFits, NoRowWritten
<1> DEFINE supers == {u \in c.users : IsSuperAdmin(u)}
           next == [op |-> "openShop", scope |-> Super, id |-> c.id, contract |-> c.contract,
                    users |-> c.users, supers |-> supers]
<1>7. CASE Goto(h, next) /\ \A u \in c.users : HasUser(u) /\ Assignable(u)
  <2>1. c.users \subseteq Users /\ supers \subseteq Users /\ raced \subseteq raced'
    BY <1>3, <1>4 DEF ReadAdminsCall, Writes
  <2>2. next \in OpenShopCall
    <3> HIDE DEF supers
    <3> QED BY <1>3, <2>1 DEF ReadAdminsCall, OpenShopCall
  <2>3. PICK call \in Call : /\ call = next /\ call.op = "openShop" /\ call.users = c.users
                             /\ call.supers = supers /\ call.contract = c.contract
    <3> HIDE DEF supers
    <3> QED BY <2>2, KindsAreCalls
  <2>4. ShopInHand(call)'
    BY <1>3, <1>4, <2>1, <2>3 DEF ShopInHand
  <2>5. ASSUME NEW u \in call.users
        PROVE  /\ u \in used' /\ (u \in call.supers <=> u \in S)
               /\ u \in raced' \/ users'[u] = None \/ Assignable(u)'
    <3>1. u \in Users /\ HasUser(u) /\ Assignable(u) /\ (u \in call.supers <=> IsSuperAdmin(u))
      BY <1>7, <2>1, <2>3
    <3>2. u \in used /\ (IsSuperAdmin(u) <=> u \in S)
      BY <1>1, <3>1 DEF TenantsInv, IdsUsed, Supers
    <3> QED BY <1>4, <3>1, <3>2 DEF Assignable, IsSuperAdmin
  <2>6. InHand(S, call)'
    BY <2>3, <2>4, <2>5 DEF InHand, ShopUsers
  <2>7. Goto(h, call)
    BY <1>7, <2>3
  <2> HIDE DEF next, supers
  <2> QED BY <1>1, <1>4, <1>5, <2>6, <2>7, NoRowWritten
<1> QED BY <1>2, <1>6, <1>7 DEF ReadAdmins, Finish

LEMMA OpenShopPreserves ==
  ASSUME TenantsInv, NEW h \in Handlers, OpenShop(h)
  PROVE  TenantsInv' /\ Proper(h)
<1>1. PICK S \in SUBSET Users : Supers(S) /\ \A g \in Handlers : InHand(S, calls[g])
  BY DEF TenantsInv
<1>2. PICK c \in Call : c = calls[h]
  BY DEF TenantsInv, TablesTyped
<1>3. c \in OpenShopCall /\ ShopInHand(c) /\ ShopUsers(S, c)
  <2>1. c.op = "openShop"
    BY <1>2 DEF OpenShop, In
  <2> QED BY <1>1, <1>2, <2>1, CallIs DEF InHand
<1> DEFINE rows == (c.users \cup {c.contract}) \ {None}
<1>4. /\ Goto(h, Idle) /\ used' = used /\ roles' = roles /\ admins' = admins
      /\ Writes(h, rows) /\ sellers' = sellers \cup {c.id}
      /\ users' = [u \in Users |->
           IF u \in c.users /\ HasUser(u)
           THEN [users[u] EXCEPT !.seller = c.id, !.role = RoleOfAdmin(u, c.supers)]
           ELSE users[u]]
      /\ contracts' = [k \in Contracts |->
           IF k = c.contract /\ HasContract(k)
           THEN [contracts[k] EXCEPT !.seller = c.id]
           ELSE contracts[k]]
  BY <1>2 DEF OpenShop, Finish
<1>5. /\ c.id \in Sellers /\ c.users \subseteq Users /\ c.scope = Super
      /\ raced \subseteq raced'
  BY <1>3, <1>4 DEF OpenShopCall, Writes
<1>6. ASSUME NEW u \in Users, HasUser(u)
      PROVE  /\ users'[u] \in User /\ UserRefs(users[u])' /\ u \in used
             /\ (users'[u].role = "super-admin" <=> u \in S)
  <2>1. users[u] \in User /\ UserFits(S, u, users[u])
    BY <1>1, <1>6, RowsTyped, UsersFit
  <2>2. roles' = roles /\ admins' = admins /\ sellers' = sellers \cup {c.id}
    BY <1>4
  <2>3. CASE u \in c.users
    <3>1. (u \in c.supers <=> u \in S) /\ (u \in raced \/ Assignable(u))
      BY <1>3, <1>6, <2>3 DEF ShopUsers, HasUser
    <3>2. PICK role \in RoleIds :
            /\ role = RoleOfAdmin(u, c.supers) /\ HasRole(role)
            /\ (role = "super-admin" <=> u \in S)
      <4>1. CASE u \in c.supers
        BY <2>1, <3>1, <4>1 DEF RoleOfAdmin, User, UserFits, UserRefs
      <4>2. CASE u \notin c.supers
        <5>1. RolesBySlug("admin", None) = {"admin"}
          BY SystemRoleFound DEF SystemSlugs
        <5>2. "admin" \in RoleIds /\ HasRole("admin")
          BY <5>1 DEF RolesBySlug
        <5> QED BY <3>1, <4>2, <5>2 DEF RoleOfAdmin
      <4> QED BY <4>1, <4>2
    <3>3. PICK row \in User :
            /\ row = [users[u] EXCEPT !.seller = c.id, !.role = role]
            /\ row.role = role /\ row.seller = c.id /\ row.admin = users[u].admin
      <4>1. [users[u] EXCEPT !.seller = c.id, !.role = role] \in User
        BY <1>5, <2>1 DEF User
      <4> QED BY <2>1, <4>1 DEF User
    <3>4. users'[u] = row
      BY <1>4, <1>6, <2>3, <3>2, <3>3
    <3>5. UserRefs(users[u])'
      BY <2>1, <2>2, <3>2, <3>3, <3>4 DEF UserFits, UserRefs, HasRole, SellerRef
    <3>6. u \in used
      BY <2>1 DEF UserFits
    <3> QED BY <3>2, <3>3, <3>4, <3>5, <3>6
  <2>4. CASE u \notin c.users
    <3>1. users'[u] = users[u]
      BY <1>4, <2>4
    <3>2. UserRefs(users[u])'
      BY <2>1, <2>2, <3>1 DEF UserFits, UserRefs, HasRole, SellerRef
    <3> QED BY <2>1, <3>1, <3>2 DEF UserFits
  <2> QED BY <2>3, <2>4
<1>7. \A u \in Users : ~HasUser(u) => users'[u] = None
  BY <1>4 DEF HasUser
<1>8. ASSUME NEW k \in Contracts, HasContract(k)
      PROVE  /\ contracts'[k] \in Contract /\ SellerRef(contracts[k].seller)' /\ k \in used
             /\ contracts'[k] = contracts[k] \/ k \in raced \/ contracts[k].seller = None
  <2>1. contracts[k] \in Contract /\ SellerRef(contracts[k].seller) /\ k \in used
    BY <1>8, RowsTyped DEF TenantsInv, References, IdsUsed
  <2>2. CASE k = c.contract
    <3>1. contracts'[k] = [contracts[k] EXCEPT !.seller = c.id]
      BY <1>4, <1>8, <2>2
    <3>2. contracts'[k] \in Contract /\ contracts'[k].seller = c.id
      BY <1>5, <2>1, <3>1 DEF Contract
    <3>3. k \in raced \/ contracts[k].seller = None
      BY <1>3, <1>8, <2>2 DEF ShopInHand, HasContract
    <3>4. SellerRef(contracts[k].seller)'
      <4>1. c.id \in sellers'
        BY <1>4
      <4> QED BY <3>2, <4>1 DEF SellerRef
    <3> QED BY <2>1, <3>2, <3>3, <3>4
  <2>3. CASE k # c.contract
    BY <1>4, <2>1, <2>3 DEF SellerRef
  <2> QED BY <2>2, <2>3
<1>9. \A k \in Contracts : ~HasContract(k) => contracts'[k] = None
  BY <1>4 DEF HasContract
<1>10. TenantsInv'
  <2>1. ASSUME NEW x, x \notin rows PROVE Same(x)
    <3>1. x \in Users => x # None
      BY TenantsAssumption DEF TenantsAssumption
    <3>2. x \in Contracts => x # None
      BY TenantsAssumption DEF TenantsAssumption
    <3> QED BY <1>4, <2>1, <3>1, <3>2 DEF Same
  <2>2. /\ users' \in [Users -> User \cup {None}]
        /\ contracts' \in [Contracts -> Contract \cup {None}]
    <3>1. \A u \in Users : users'[u] \in User \cup {None}
      BY <1>6, <1>7
    <3>2. \A k \in Contracts : contracts'[k] \in Contract \cup {None}
      BY <1>8, <1>9
    <3>3. /\ users' = [u \in Users |-> users'[u]]
          /\ contracts' = [k \in Contracts |-> contracts'[k]]
      BY <1>4
    <3> QED BY <3>1, <3>2, <3>3
  <2>3. /\ roles' \in [RoleIds -> Role \cup {None}]
        /\ sellers' \subseteq Sellers /\ admins' \subseteq Admins
    BY <1>4, <1>5 DEF TenantsInv, TablesTyped
  <2>4. References'
    <3>1. (\A u \in Users : HasUser(u) => UserRefs(users[u]))'
      BY <1>6, <1>7 DEF HasUser
    <3>2. (\A k \in Contracts : HasContract(k) => SellerRef(contracts[k].seller))'
      BY <1>8, <1>9 DEF HasContract
    <3>3. (\A r \in RoleIds : HasRole(r) => SellerRef(roles[r].seller))'
      BY <1>4 DEF TenantsInv, References, HasRole, SellerRef
    <3> QED BY <3>1, <3>2, <3>3 DEF References
  <2>5. RolesKept'
    BY <1>4 DEF TenantsInv, RolesKept, HasRole, RoleAllowed
  <2>6. IdsUsed'
    <3>1. (\A u \in Users : HasUser(u) => u \in used)'
      BY <1>4, <1>6, <1>7 DEF HasUser
    <3>2. (\A k \in Contracts : HasContract(k) => k \in used)'
      BY <1>4, <1>8, <1>9 DEF HasContract
    <3>3. (\A r \in CustomRoles : HasRole(r) => r \in used)'
      BY <1>4 DEF TenantsInv, IdsUsed, HasRole
    <3> QED BY <3>1, <3>2, <3>3 DEF IdsUsed
  <2>7. Supers(S)'
    BY <1>6, <1>7 DEF Supers, HasUser, IsSuperAdmin
  <2>8. \A x : x \in rows \/ Same(x)
    BY <2>1
  <2> HIDE DEF rows
  <2> QED BY <1>1, <1>4, <2>2, <2>3, <2>4, <2>5, <2>6, <2>7, <2>8, IdleFits, WorkKeeps
<1>11. StaysSuper
  BY <1>1, <1>6 DEF StaysSuper, Supers
<1>12. StaysAssigned
  <2>1. ASSUME NEW u \in Users \ raced', HasUser(u), ~IsSuperAdmin(u), users[u].seller # None
        PROVE  users'[u].seller = users[u].seller
    <3>1. u \notin raced
      BY <1>5, <2>1
    <3>2. ~Assignable(u)
      BY <2>1 DEF Assignable
    <3>3. u \notin c.users
      BY <1>3, <2>1, <3>1, <3>2 DEF ShopUsers, HasUser
    <3> QED BY <1>4, <3>3
  <2>2. ASSUME NEW k \in Contracts \ raced', HasContract(k), contracts[k].seller # None
        PROVE  contracts'[k].seller = contracts[k].seller
    BY <1>5, <1>8, <2>2
  <2> QED BY <2>1, <2>2 DEF StaysAssigned
<1> QED BY <1>2, <1>5, <1>10, <1>11, <1>12 DEF Proper

LEMMA CutOffPreserves ==
  ASSUME TenantsInv, NEW h \in Handlers, CutOff(h)
  PROVE  TenantsInv' /\ Proper(h)
<1>1. PICK S \in SUBSET Users : Supers(S) /\ \A g \in Handlers : InHand(S, calls[g])
  BY DEF TenantsInv
<1>2. /\ Goto(h, Idle) /\ used' = used /\ users' = users /\ roles' = roles
      /\ contracts' = contracts /\ sellers' = sellers /\ admins' = admins
      /\ requests' = requests /\ raced' = raced
  BY DEF CutOff, Finish
<1>3. Writes(h, {})
  BY <1>2 DEF Writes
<1>4. /\ admins' \subseteq Admins
      /\ \A u \in Users : HasUser(u) /\ users[u].admin # None => users[u].admin \in admins'
  BY <1>2 DEF TenantsInv, TablesTyped, References, UserRefs
<1> QED BY <1>1, <1>2, <1>3, <1>4, IdleFits, NoRowWritten

-----------------------------------------------------------------------------
LEMMA TenantsStart ==
  ASSUME TenantsInit
  PROVE  TenantsInv
<1>1. ASSUME NEW u \in Users, HasUser(u)
      PROVE  /\ users[u] \in User /\ users[u].role \in SystemSlugs
             /\ users[u].seller \in FirstSellers \cup {None} /\ users[u].admin = None
  <2>1. users[u] \in [role : SystemSlugs, extra : SUBSET SystemSlugs,
                      seller : FirstSellers \cup {None}, admin : {None}]
    BY <1>1, FirstRowsAssumption DEF FirstRowsAssumption, TenantsInit, HasUser
  <2> QED BY <2>1, FirstRowsAssumption DEF FirstRowsAssumption, User, RoleIds
<1>2. ASSUME NEW k \in Contracts, HasContract(k)
      PROVE  contracts[k] \in Contract /\ contracts[k].seller \in FirstSellers \cup {None}
  <2>1. contracts[k] \in [seller : FirstSellers \cup {None}, users : SUBSET Users]
    BY <1>2, FirstRowsAssumption DEF FirstRowsAssumption, TenantsInit, HasContract
  <2> QED BY <2>1, FirstRowsAssumption DEF FirstRowsAssumption, Contract
<1>3. ASSUME NEW slug \in SystemSlugs
      PROVE  roles[slug] = SystemRole(slug) /\ roles[slug] \in Role /\ HasRole(slug)
  <2>1. SystemRole(slug) \in Role
    BY DEF SystemRole, Role, SystemSlugs, Slugs, DefaultPermissions, DefaultAudience,
           Permissions, SellerAssignable, Audiences
  <2>2. roles[slug] = SystemRole(slug)
    BY DEF TenantsInit, RoleIds
  <2> QED BY <2>1, <2>2, FirstRowsAssumption DEF FirstRowsAssumption, HasRole
<1>4. \A r \in RoleIds : r \in SystemSlugs \/ (r \in CustomRoles /\ ~HasRole(r))
  BY DEF TenantsInit, RoleIds, HasRole
<1>5. TablesTyped
  <2>1. users \in [Users -> User \cup {None}]
    <3>1. users = [u \in Users |-> users[u]]
      BY FirstRowsAssumption DEF FirstRowsAssumption, TenantsInit
    <3>2. \A u \in Users : users[u] \in User \cup {None}
      BY <1>1 DEF HasUser
    <3> QED BY <3>1, <3>2
  <2>2. contracts \in [Contracts -> Contract \cup {None}]
    <3>1. contracts = [k \in Contracts |-> contracts[k]]
      BY FirstRowsAssumption DEF FirstRowsAssumption, TenantsInit
    <3>2. \A k \in Contracts : contracts[k] \in Contract \cup {None}
      BY <1>2 DEF HasContract
    <3> QED BY <3>1, <3>2
  <2>3. roles \in [RoleIds -> Role \cup {None}]
    <3>1. roles = [r \in RoleIds |-> roles[r]]
      BY DEF TenantsInit
    <3>2. \A r \in RoleIds : roles[r] \in Role \cup {None}
      BY <1>3, <1>4 DEF HasRole
    <3> QED BY <3>1, <3>2
  <2>4. sellers \subseteq Sellers /\ admins \subseteq Admins
    BY FirstRowsAssumption DEF FirstRowsAssumption, TenantsInit
  <2>5. calls \in [Handlers -> Call]
    BY KindsAreCalls DEF TenantsInit
  <2>6. requests \in 0..MaxRequests
    BY TenantsAssumption DEF TenantsAssumption, TenantsInit
  <2> QED BY <2>1, <2>2, <2>3, <2>4, <2>5, <2>6 DEF TablesTyped
<1>6. References
  <2>1. sellers = FirstSellers
    BY DEF TenantsInit
  <2>2. ASSUME NEW r \in RoleIds, HasRole(r) PROVE roles[r].seller = None
    <3>1. \A slug : SystemRole(slug).seller = None
      BY DEF SystemRole
    <3> QED BY <1>3, <1>4, <2>2, <3>1
  <2> QED BY <1>1, <1>2, <1>3, <2>1, <2>2 DEF References, UserRefs, SellerRef
<1>7. RolesKept
  BY <1>3, <1>4, FirstRowsAssumption DEF RolesKept, FirstRowsAssumption, RoleIds
<1>8. IdsUsed
  <2>1. used = {u \in Users : HasUser(u)} \cup {c \in Contracts : HasContract(c)} \cup sellers
    BY DEF TenantsInit
  <2>2. \A r \in CustomRoles : ~HasRole(r)
    BY <1>4, FirstRowsAssumption DEF FirstRowsAssumption, RoleIds
  <2> QED BY <2>1, <2>2 DEF IdsUsed
<1>9. \E S \in SUBSET Users : Supers(S) /\ \A h \in Handlers : InHand(S, calls[h])
  <2> DEFINE S == {u \in Users : HasUser(u) /\ IsSuperAdmin(u)}
  <2>1. Supers(S)
    BY DEF Supers
  <2>2. \A h \in Handlers : calls[h] = Idle
    BY DEF TenantsInit
  <2>3. InHand(S, Idle)
    BY KindOps, NothingInHand
  <2>4. \A h \in Handlers : InHand(S, calls[h])
    BY <2>2, <2>3
  <2>5. S \in SUBSET Users
    OBVIOUS
  <2> HIDE DEF S
  <2> QED BY <2>1, <2>4, <2>5
<1> QED BY <1>5, <1>6, <1>7, <1>8, <1>9 DEF TenantsInv

LEMMA RequestPreserves ==
  ASSUME TenantsInv, NEW h \in Handlers, NEW scope \in Scopes, Request(h, scope)
  PROVE  TenantsInv'
<1>1. ASSUME NEW u \in Users,
             CreateUser(h, scope, u) \/ UpdateUser(h, scope, u) \/ RemoveUser(h, scope, u)
      PROVE  TenantsInv'
  BY <1>1, CreateUserPreserves, UpdateUserPreserves, RemoveUserPreserves
<1>2. ASSUME NEW r \in CustomRoles,
             CreateRole(h, scope, r) \/ UpdateRole(h, scope, r) \/ RemoveRole(h, scope, r)
      PROVE  TenantsInv'
  BY <1>2, CreateRolePreserves, UpdateRolePreserves, RemoveRolePreserves
<1>3. ASSUME NEW s \in Sellers, CreateSeller(h, scope, s) \/ RemoveSeller(h, scope, s)
      PROVE  TenantsInv'
  BY <1>3, CreateSellerPreserves, RemoveSellerPreserves
<1>4. ASSUME NEW c \in Contracts,
             CreateContract(h, scope, c) \/ UpdateContract(h, scope, c)
             \/ RemoveContract(h, scope, c)
      PROVE  TenantsInv'
  BY <1>4, CreateContractPreserves, UpdateContractPreserves, RemoveContractPreserves
<1>5. ASSUME NEW a \in Admins,
             CreateAdmin(h, scope, a) \/ UpdateAdmin(h, scope, a) \/ RemoveAdmin(h, scope, a)
      PROVE  TenantsInv'
  BY <1>5, AdminRequestPreserves
<1> QED BY <1>1, <1>2, <1>3, <1>4, <1>5, Zenon DEF Request

LEMMA ContinuePreserves ==
  ASSUME TenantsInv, NEW h \in Handlers, Continue(h)
  PROVE  TenantsInv' /\ Proper(h)
<1>1. CASE SaveUser(h) \/ DropUser(h)
  BY <1>1, SaveUserPreserves, DropUserPreserves
<1>2. CASE SaveRole(h) \/ DropRole(h)
  BY <1>2, SaveRolePreserves, DropRolePreserves
<1>3. CASE ReadAdmins(h) \/ OpenShop(h) \/ DropSeller(h)
  BY <1>3, ReadAdminsPreserves, OpenShopPreserves, DropSellerPreserves
<1>4. CASE SaveContract(h) \/ DropContract(h)
  BY <1>4, SaveContractPreserves, DropContractPreserves
<1>5. CASE \/ SaveAdmin(h) \/ CheckAdmin(h) \/ ClearAdmin(h) \/ LinkAdmin(h)
           \/ UnlinkAdmin(h) \/ DropAdmin(h)
  BY <1>5, OtherAdminStepsPreserve, ClearAdminPreserves, LinkAdminPreserves, UnlinkAdminPreserves
<1>6. CASE CutOff(h)
  BY <1>6, CutOffPreserves
<1> QED BY <1>1, <1>2, <1>3, <1>4, <1>5, <1>6 DEF Continue

LEMMA TenantsUnchanged ==
  ASSUME TenantsInv, UNCHANGED tenantVars
  PROVE  TenantsInv'
<1>1. PICK S \in SUBSET Users : Supers(S) /\ \A g \in Handlers : InHand(S, calls[g])
  BY DEF TenantsInv
<1>2. /\ users' = users /\ roles' = roles /\ contracts' = contracts /\ sellers' = sellers
      /\ admins' = admins /\ used' = used /\ calls' = calls /\ requests' = requests
      /\ raced' = raced
  BY DEF tenantVars
<1>3. TablesTyped' /\ References' /\ RolesKept' /\ IdsUsed' /\ Supers(S)'
  BY <1>1, <1>2 DEF TenantsInv, TablesTyped, References, UserRefs, SellerRef, RolesKept,
                    RoleAllowed, IdsUsed, Supers, HasUser, HasRole, HasContract, IsSuperAdmin
<1>4. ASSUME NEW g \in Handlers PROVE InHand(S, calls[g])'
  <2>1. PICK c \in Call : c = calls[g] /\ c = calls'[g]
    BY <1>2 DEF TenantsInv, TablesTyped
  <2>2. \A x : Same(x)
    BY <1>2 DEF Same
  <2>3. InHand(S, c) /\ used \subseteq used' /\ raced \subseteq raced'
        /\ \A u \in used : u \in S <=> u \in S
    BY <1>1, <1>2, <2>1
  <2>4. InHand(S, c)'
    BY <2>2, <2>3, InHandStays
  <2> QED BY <2>1, <2>4
<1> QED BY <1>3, <1>4 DEF TenantsInv

(* The invariant of users, roles, sellers and contracts, however requests  *)
(* overlap.                                                                *)
THEOREM TenantsInvariant == TenantsSpec => []TenantsInv
<1>1. TenantsInit => TenantsInv
  BY TenantsStart
<1>2. TenantsInv /\ [TenantsNext]_tenantVars => TenantsInv'
  BY RequestPreserves, ContinuePreserves, TenantsUnchanged DEF TenantsNext
<1> QED BY <1>1, <1>2, PTL DEF TenantsSpec

(* Types and foreign keys: what the checks before a removal miss because   *)
(* another request is on its way, the database refuses.                    *)
THEOREM TenantsTypes == TenantsSpec => []TenantsTypeOK
<1>1. TenantsInv => TenantsTypeOK
  BY DEF TenantsInv, TablesTyped, References, TenantsTypeOK
<1> QED BY <1>1, TenantsInvariant, PTL

(* PermissionsGuard finds, for each system slug, the role of the seed with *)
(* its permissions, and no role of a seller gives more than sellers may    *)
(* hand out, although roles has no unique index.                           *)
THEOREM PermissionsAreLimited == TenantsSpec => []RolesAreLimited
<1>1. TenantsInv => RolesAreLimited
  <2> SUFFICES ASSUME TenantsInv PROVE RolesAreLimited
    OBVIOUS
  <2>1. \A slug \in SystemSlugs : RolesBySlug(slug, None) = {slug} /\ slug \in RoleIds
                                  /\ roles[slug] = SystemRole(slug)
    BY SystemRoleFound DEF TenantsInv, RolesKept, RoleIds
  <2>2. ASSUME NEW r \in RoleIds, HasRole(r), roles[r].seller # None
        PROVE  roles[r].permissions \subseteq SellerAssignable
    <3>1. \A slug : SystemRole(slug).seller = None
      BY DEF SystemRole
    <3>2. r \notin SystemSlugs
      BY <2>1, <2>2, <3>1
    <3> QED BY <2>2, <3>2 DEF TenantsInv, RolesKept, RoleAllowed, RoleIds
  <2> QED BY <2>1, <2>2 DEF RolesAreLimited
<1> QED BY <1>1, TenantsInvariant, PTL

LEMMA RequestChangesNoRow ==
  ASSUME NEW h, NEW scope, Request(h, scope)
  PROVE  users' = users /\ roles' = roles /\ contracts' = contracts /\ calls[h] = Idle
<1>1. ASSUME NEW x,
             \/ CreateUser(h, scope, x) \/ UpdateUser(h, scope, x) \/ RemoveUser(h, scope, x)
             \/ CreateRole(h, scope, x) \/ UpdateRole(h, scope, x) \/ RemoveRole(h, scope, x)
      PROVE  users' = users /\ roles' = roles /\ contracts' = contracts /\ calls[h] = Idle
  BY <1>1 DEF CreateUser, UpdateUser, RemoveUser, CreateRole, UpdateRole, RemoveRole, Free
<1>2. ASSUME NEW x,
             \/ CreateSeller(h, scope, x) \/ RemoveSeller(h, scope, x)
             \/ CreateContract(h, scope, x) \/ UpdateContract(h, scope, x)
             \/ RemoveContract(h, scope, x)
             \/ CreateAdmin(h, scope, x) \/ UpdateAdmin(h, scope, x) \/ RemoveAdmin(h, scope, x)
      PROVE  users' = users /\ roles' = roles /\ contracts' = contracts /\ calls[h] = Idle
  BY <1>2 DEF CreateSeller, RemoveSeller, CreateContract, UpdateContract, RemoveContract,
              CreateAdmin, UpdateAdmin, RemoveAdmin, Free
<1> QED BY <1>1, <1>2, Zenon DEF Request

(* A step is one handler's.                                                *)
LEMMA OneHandlerMoves ==
  ASSUME NEW h \in Handlers, Continue(h)
  PROVE  \A g \in Handlers \ {h} : calls'[g] = calls[g] \/ calls \notin [Handlers -> Call]
<1>1. \E call : calls' = [calls EXCEPT ![h] = call]
  BY DEF Continue, SaveUser, DropUser, SaveRole, DropRole, ReadAdmins, OpenShop, DropSeller,
         SaveContract, DropContract, SaveAdmin, CheckAdmin, ClearAdmin, LinkAdmin,
         UnlinkAdmin, DropAdmin, CutOff, Finish, Goto
<1> QED BY <1>1

LEMMA StepIsProper ==
  ASSUME TenantsInv, TenantsNext
  PROVE  /\ StaysSuper /\ StaysAssigned
         /\ \A h \in Handlers :
              calls[h] # Idle /\ calls'[h] = Idle /\ calls[h].scope # Super =>
                StaysApart(calls[h].scope)
<1>1. ASSUME NEW h \in Handlers, NEW scope \in Scopes, Request(h, scope)
      PROVE  /\ StaysSuper /\ StaysAssigned /\ \A s : StaysApart(s)
  BY <1>1, RequestChangesNoRow
     DEF StaysSuper, StaysAssigned, StaysApart, HasUser, IsSuperAdmin
<1>2. ASSUME NEW h \in Handlers, Continue(h)
      PROVE  /\ StaysSuper /\ StaysAssigned
             /\ \A g \in Handlers :
                  calls[g] # Idle /\ calls'[g] = Idle /\ calls[g].scope # Super =>
                    StaysApart(calls[g].scope)
  <2>1. Proper(h)
    BY <1>2, ContinuePreserves
  <2>2. \A g \in Handlers \ {h} : calls'[g] = calls[g]
    BY <1>2, OneHandlerMoves DEF TenantsInv, TablesTyped
  <2> QED BY <2>1, <2>2 DEF Proper
<1> QED BY <1>1, <1>2 DEF TenantsNext

(* A super-admin stays one, although requests save what they read long     *)
(* before: an update never writes a role, and create asks again.           *)
THEOREM SuperAdminsStay == TenantsSpec => SuperAdminStays
<1>1. TenantsInv /\ [TenantsNext]_tenantVars
        => [\A u \in Users :
              HasUser(u) /\ IsSuperAdmin(u) /\ users'[u] # None =>
                users'[u].role = "super-admin"]_users
  BY StepIsProper DEF StaysSuper, tenantVars
<1> QED BY <1>1, TenantsInvariant, PTL DEF TenantsSpec, SuperAdminStays

(* Users and contracts are assigned to a seller once: create of sellers    *)
(* takes nobody from another seller, unless requests with the same row in  *)
(* hand overlap.                                                           *)
THEOREM OnceAssigned == TenantsSpec => AssignedOnce
<1>1. TenantsInv /\ [TenantsNext]_tenantVars
        => [/\ \A u \in Users \ raced' :
                 HasUser(u) /\ ~IsSuperAdmin(u) /\ users[u].seller # None /\ users'[u] # None =>
                   users'[u].seller = users[u].seller
            /\ \A c \in Contracts \ raced' :
                 HasContract(c) /\ contracts[c].seller # None /\ contracts'[c] # None =>
                   contracts'[c].seller = contracts[c].seller]_<<users, contracts>>
  BY StepIsProper DEF StaysAssigned, tenantVars
<1> QED BY <1>1, TenantsInvariant, PTL DEF TenantsSpec, AssignedOnce

(* What a request of a seller's user writes belongs to that seller before  *)
(* and after, unless requests with the same row in hand overlap.           *)
THEOREM SellersApart == TenantsSpec => SellersKeepApart
<1>1. TenantsInv /\ [TenantsNext]_tenantVars
        => [\A h \in Handlers :
              calls[h] # Idle /\ calls'[h] = Idle /\ calls[h].scope # Super =>
                /\ \A u \in Users \ raced' :
                     users'[u] # users[u] =>
                       Ours(users[u], calls[h].scope) /\ Ours(users'[u], calls[h].scope)
                /\ \A c \in Contracts \ raced' :
                     contracts'[c] # contracts[c] =>
                       Ours(contracts[c], calls[h].scope) /\ Ours(contracts'[c], calls[h].scope)
                /\ \A r \in RoleIds \ raced' :
                     roles'[r] # roles[r] =>
                       \A row \in {roles[r], roles'[r]} :
                         Ours(row, calls[h].scope) \/ row.seller = None]_tenantVars
  BY StepIsProper DEF StaysApart
<1> QED BY <1>1, TenantsInvariant, PTL DEF TenantsSpec, SellersKeepApart
=============================================================================
