----------------------------- MODULE Reference -----------------------------
(***************************************************************************)
(* LocationsService, BannersService, SettingsService, ContactMessages-     *)
(* Service and NewsletterService on the same tables, and the requests of   *)
(* the catalogue beside them.                                              *)
(***************************************************************************)
EXTENDS Catalog

CONSTANT HomeSections  \* places of a banner on the home page

ASSUME ReferenceAssumption == HomeSections \subseteq Names

(* The rows at the start are rows that these services may have left: what  *)
(* no index guards is there once, every product has its stock, and levels  *)
(* agree.                                                                  *)
ASSUME CatalogAtStart ==
  /\ \A t \in {"attribute", "product"} : \A x, y \in FirstIn(t) :
       x # y => FirstAt(x).key # FirstAt(y).key
  /\ \A x, y \in FirstIn("link") :
       x # y /\ FirstAt(x).flag /\ FirstAt(y).flag =>
         FirstAt(x).refs.product # FirstAt(y).refs.product
  /\ \A product \in FirstIn("product") :
       \E id \in FirstIn("stock") : FirstAt(id).refs.product = product
  /\ \A id \in FirstIn("link") :
       FirstAt(id).refs.sub # None =>
         FirstAt(id).refs.category = FirstAt(FirstAt(id).refs.sub).refs.category
  /\ \A id \in FirstIn("city") :
       FirstAt(id).refs.country # None /\ FirstAt(id).refs.state # None =>
         FirstAt(id).refs.country = FirstAt(FirstAt(id).refs.state).refs.country

Country(code) == Plain(code, NoRefs)

State(code, country) == Plain(code, [country |-> country])

City(country, state) == Plain(None, [country |-> country, state |-> state])

CreateCountry(h, code) ==
  LET id == NewId("country")
  IN  /\ WithKey("country", code) = {}
      /\ AcceptNew(h, id, <<Save(id, Country(code))>>)

UpdateCountry(h, id, code) ==
  /\ Has(id)
  /\ Renamed(id, code)
  /\ AcceptOld(h, <<Save(id, Country(code))>>)

RemoveCountry(h, id) == Has(id) /\ AcceptOld(h, <<Drop(id)>>)

StatesWith(country, code) == {id \in WithKey("state", code) : At(id).refs.country = country}

CreateState(h, country, code) ==
  LET id == NewId("state")
  IN  /\ Has(country)
      /\ StatesWith(country, code) = {}
      /\ AcceptNew(h, id, <<Save(id, State(code, country))>>)

(* findById loads the country: another countryId is looked up, and lost.   *)
UpdateState(h, id, country, code) ==
  /\ Has(id) /\ Has(country)
  /\ StatesWith(country, code) \subseteq {id}
  /\ AcceptOld(h, <<Save(id, State(code, Kept(At(id).refs.country, country)))>>)

RemoveState(h, id) == Has(id) /\ AcceptOld(h, <<Drop(id)>>)

(* validateRelations                                                       *)
ValidCity(country, state) ==
  country # None /\ state # None => At(state).refs.country = country

CreateCity(h, country, state) ==
  LET id == NewId("city")
  IN  /\ ValidCity(country, state)
      /\ AcceptNew(h, id, <<Save(id, City(country, state))>>)

(* findById loads country and state: each arrives where there was none.    *)
UpdateCity(h, id, country, state) ==
  LET old == At(id).refs
  IN  /\ Has(id)
      /\ ValidCity(country, state)
      /\ Accept(h, <<Save(id, City(Kept(old.country, country), Kept(old.state, state)))>>)
      /\ moved' = moved \cup {x \in {id} : country # old.country \/ state # old.state}
      /\ UNCHANGED <<used, approvals>>

RemoveCity(h, id) == Has(id) /\ AcceptOld(h, <<Drop(id)>>)

-----------------------------------------------------------------------------
(* validatePlacement: a section of the home page, or the sidebar of a      *)
(* category that exists.                                                   *)
Places ==
  {[key |-> section, category |-> None] : section \in HomeSections}
  \cup {[key |-> None, category |-> c] : c \in RowsIn("category")}

Banner(place) == Plain(place.key, [category |-> place.category])

CreateBanner(h, place) ==
  LET id == NewId("banner")
  IN  AcceptNew(h, id, <<Save(id, Banner(place))>>)

UpdateBanner(h, id, place) ==
  /\ Has(id)
  /\ AcceptOld(h, <<Save(id, Banner(place))>>)

RemoveBanner(h, id) == AcceptOld(h, <<Drop(id)>>)

-----------------------------------------------------------------------------
(* Footer, header, about us and contact are tables of one row with id 1.   *)
SettingsPages == IdsOf("settings")

(* flag: changed since.                                                   *)
Settings(changed) == [Plain(None, NoRefs) EXCEPT !.flag = changed]

CreateSettings(h, page) ==
  /\ AcceptOld(h, <<Insert(page, Settings(FALSE))>>)

Updated(page, row) == Change(page, row)

UpdateSettings(h, page) ==
  /\ Has(page)
  /\ AcceptOld(h, <<Updated(page, Settings(TRUE))>>)

RemoveSettings(h, page) == AcceptOld(h, <<Drop(page)>>)

-----------------------------------------------------------------------------
ContactMessage(isRead) == [Plain(None, NoRefs) EXCEPT !.flag = isRead]

CreateMessage(h) ==
  LET id == NewId("message")
  IN  AcceptNew(h, id, <<Save(id, ContactMessage(FALSE))>>)

UpdateMessage(h, id, isRead) ==
  /\ Has(id)
  /\ AcceptOld(h, <<Save(id, ContactMessage(isRead))>>)

RemoveMessage(h, id) == Has(id) /\ AcceptOld(h, <<Drop(id)>>)

SubscriptionsOf(user) == {id \in RowsIn("subscription") : At(id).refs.user = user}

Subscription(user, active) == [Plain(None, [user |-> user]) EXCEPT !.flag = active]

(* A subscription the user has is made active again.                       *)
Subscribe(h, user) ==
  LET mine == SubscriptionsOf(user)
      id == IF mine = {} THEN NewId("subscription") ELSE CHOOSE x \in mine : TRUE
  IN  /\ Has(user)
      /\ mine = {} => HasRoom("subscription")
      /\ Accept(h, <<Save(id, Subscription(user, TRUE))>>)
      /\ used' = IF mine = {} THEN WithUsed("subscription") ELSE used
      /\ UNCHANGED <<moved, approvals>>

Unsubscribe(h, user) ==
  /\ \E id \in SubscriptionsOf(user) : AcceptOld(h, <<Save(id, Subscription(user, FALSE))>>)

(* UsersService.remove.                                                    *)
RemoveUser(h, user) == Has(user) /\ AcceptOld(h, <<Drop(user)>>)

-----------------------------------------------------------------------------
LocationRequest(h) ==
  \/ \E code \in Names :
       \/ CreateCountry(h, code)
       \/ \E country \in RowsIn("country") :
            \/ UpdateCountry(h, country, code)
            \/ CreateState(h, country, code)
            \/ \E id \in RowsIn("state") : UpdateState(h, id, country, code)
  \/ \E country \in RowsIn("country") \cup {None}, state \in RowsIn("state") \cup {None} :
       CreateCity(h, country, state) \/ \E id \in RowsIn("city") : UpdateCity(h, id, country, state)
  \/ \E id \in RowsIn("country") : RemoveCountry(h, id)
  \/ \E id \in RowsIn("state") : RemoveState(h, id)
  \/ \E id \in RowsIn("city") : RemoveCity(h, id)

PageRequest(h) ==
  \/ \E place \in Places :
       CreateBanner(h, place) \/ \E id \in RowsIn("banner") : UpdateBanner(h, id, place)
  \/ \E id \in RowsIn("banner") : RemoveBanner(h, id)
  \/ \E page \in SettingsPages :
       CreateSettings(h, page) \/ UpdateSettings(h, page) \/ RemoveSettings(h, page)
  \/ CreateMessage(h)
  \/ \E id \in RowsIn("message") :
       RemoveMessage(h, id) \/ \E isRead \in BOOLEAN : UpdateMessage(h, id, isRead)
  \/ \E user \in RowsIn("user") : Subscribe(h, user) \/ Unsubscribe(h, user) \/ RemoveUser(h, user)

Continue(h) ==
  \/ SelectStep(h) \/ UpdateStep(h) \/ InsertStep(h) \/ ChangeStep(h) \/ DropStep(h)
  \/ ClearStep(h) \/ StockStep(h) \/ AssignStep(h)
  \/ CutOff(h)

CatalogNext ==
  \E h \in Handlers :
    \/ /\ Free(h)
       /\ \/ CategoryRequest(h) \/ ProductRequest(h) \/ ReferenceRequest(h)
          \/ LocationRequest(h) \/ PageRequest(h)
    \/ Continue(h)

CatalogSpec == TablesInit /\ [][CatalogNext]_tableVars

-----------------------------------------------------------------------------
(* Where a row names two levels they agree: the category of a link is the  *)
(* one its sub-category is in, and a city with a state is in the country   *)
(* of the state; except for rows that were to move to another one: there   *)
(* half of it arrives.                                                     *)
LevelsAgree ==
  /\ \A id \in RowsIn("link") \ moved :
       At(id).refs.sub # None =>
         At(id).refs.category = At(At(id).refs.sub).refs.category
  /\ \A id \in RowsIn("city") \ moved :
       At(id).refs.country # None /\ At(id).refs.state # None =>
         At(id).refs.country = At(At(id).refs.state).refs.country
=============================================================================
