# A formal model of the didnegar shop backend

The repository is the backend of an online shop with many sellers: a NestJS
application (TypeScript, TypeORM, MySQL 8) with a wallet, payment gateways,
orders, a cart, seller offers, a product catalogue, a media gallery and the
accounts of customers, sellers and admins. This directory holds TLA+ models of
the parts where order, concurrency and failure matter, the TLC runs that check
them, and TLAPS proofs.

The application is one or more Node processes over one database. Nothing is
shared in memory but the SFTP connection. Requests interleave at every `await`,
transactions run at MySQL's default isolation, and the code relies on three
tools: `SELECT ... FOR UPDATE`, updates guarded by their `WHERE` clause, and
unique indexes. Most mistakes this code can make are of one form: something read
before one of these is used after it. The models are built around that, with
an action per piece of a handler that runs without letting others in, and a
variable `calls` that holds what each request carries from one piece to the next.

## The system: parts, state, operations

| part | state | operations | hard because |
|---|---|---|---|
| Credit wallet (`credit/`) | `user_credits`: spendable and locked balance per user | increment, decrement, lock, unlock: one guarded UPDATE each | concurrent spending, balance at zero |
| Transactions ledger (`deposits/transaction.service.ts`) | `transactions`: rows pending, executed, rejected | add, find the pending one of a source, change state | must agree with the wallet, across separate statements |
| Withdrawals (`wallet/`) | `withdraws` | create, review (approve, reject) | two admins, money locked and released |
| Deposits and payment (`deposits/`) | `deposits`, the session at the gateway | pay through a gateway, pay from the wallet, top up, callbacks | callbacks lost, replayed, early, racing; crash between verify and settle |
| Orders (`orders/`) | `orders`, `order_items` | create, check out the cart, admin edit | stale reads before the transaction |
| Cart (`shopping-cart/`) | `shopping_carts`, `shopping_cart_items` | add, update, remove, clear | read-modify-write, rows deleted by a checkout |
| Offers (`offers/`) | `seller_offers`: price, stock, stock status, approval | create, edit, review, delete, decrement for a purchase | edits that save stale columns, the last unit |
| Product stock (`products/repositories/product-stock.repository.ts`) | `product_stocks` | guarded decrement, overwrite | shared by all offers of a product |
| Media (`media/`) | `media_assets`, files under two roots | upload, review, attach, detach, remove, nightly cleanup | row and file change separately; cleanup against requests |
| SFTP client (`media/media.sftp.service.ts`) | one shared connection | connect once, retry, end | one operation's retry ends another's connection |
| Authentication (`utils/auth/`) | one-time codes, passwords, refresh tokens | sign up, verify, log in, refresh | check-then-act on accounts and tokens; tokens outlive what they were signed from |
| Users, admins, roles, sellers, contracts | `users`, `roles`, `admins`, `sellers`, `seller_contracts` | tenant-scoped create, edit, remove | links checked before the transaction that makes them |
| Categories, attributes, brands, locations | trees and lists with slugs and codes | create, edit, remove | check-then-insert, one primary category, rows that move |
| Products, shipping | `products`, stock and category links, methods | create, edit, review, remove | several tables without a transaction |
| Settings, banners, contact, newsletter | one row per page, lists | create, edit, remove | find, then write |
| Schema and seeds (`database/`, `*.seed.service.ts`) | tables, keys, indexes; roles, methods, a catalogue | migrate, seed, at every start | a start cut off at any statement, rows people have renamed |
| Scripts (`scripts/migration-scripts/`) | none of their own | six imports, in batches | stale reads before the transaction, a second run |

How they meet: a checkout (cart, offers, product stock, orders) creates an order;
a payment (orders, deposits, wallet, ledger, gateway) pays it; a withdrawal moves
money out of the same wallet through the same ledger; an admin's order edit
writes the row a payment locks. Offers and reviews write the rows a checkout
reads. Media hangs off products and sellers. All requests draw on one pool of
database connections, and all file operations on one SFTP connection. A start of the
server changes the schema and the rows under everything else.

## Modules

| module | models |
|---|---|
| `RowSums` | column sums over table rows, as a recursive function |
| `CreditLedger` | wallets and transactions, the operations on them, `LedgerReconciles` |
| `Withdrawals` | `WalletService`, extends `CreditLedger` |
| `PayoutPromise` | what payouts promise, with no tables: the abstract specification |
| `Payments` | `DepositsService`, the gateways and order edits, next to `Withdrawals` |
| `CreditStatements` | the same handlers statement by statement: `CreditService.apply`, the credit log, row locks, snapshots, the connection pool |
| `MediaSftp` | the shared SFTP connection |
| `Resources` | `CreditStatements` and `MediaSftp`: what requests wait for |
| `Checkout` | cart, checkout, offers and product stock |
| `Media` | gallery, storage and cleanup |
| `Accounts` | sign-up, login, refresh, and what an admin does to an account |
| `Tenants` | users, roles, sellers, contracts, admins |
| `Tables` | rows, foreign keys, unique indexes and the statements of TypeORM, for the next two |
| `Catalog`, `Reference` | categories, products, brands, attributes, shipping; locations, banners, settings, messages, newsletter |
| `Migrations` | the thirty migrations as data, and what a statement does to a schema |
| `Content`, `Imports` | what the seeds and the six import scripts do to rows |
| `Installation` | the life of a database, over the three modules above |
| `RowSumTheorems` | lemmas about sums |
| `PaymentProofs` (`Withdrawals` and `Payments`), `CheckoutProofs`, `ResourcesProofs`, `MediaProofs`, `AccountsProofs`, `TenantsProofs`, `CatalogProofs` (`Catalog` and `Reference`) | theorems about the specification of each |
| `MC...` | the instances TLC checks |

**CreditLedger.** `wallets[u]` is the row of `user_credits`; `transactions` is the
table in insertion order. `CreditService.apply` is one UPDATE with a WHERE clause
and an affected-rows test: the SET clause is an operator on a wallet (`Increment`,
`Decrement`, `Lock`, `Unlock`), the WHERE clause a predicate (`CanSpend`,
`CanUnlock`) that the actions take as guards, because a miss throws and rolls the
transaction back. Amounts are whole numbers (`assertPositiveWholeAmount`).

**Withdrawals.** `createWithdraw` and `reviewWithdraw` are single transactions; the
review locks its row, so each is an action. `Promise` maps requests by status to
the sets `held`, `paid` and `returned` of `PayoutPromise`.

**Payments.** A handler that calls a gateway holds no transaction while it does.
`ReadForGateway`, `InsertGatewayDeposit`, `Callback`, `VerifyAtGateway`,
`SettleDeposit` are the pieces of opening and settling a deposit, `ReadForCredit`
and `PayWithCredit` of paying from the wallet, `CancelDeposit` of a failed
callback, `LoadForEdit` and `SaveEdit` of an admin's edit. A transaction is one
action because every row it decides on is locked or tested by the UPDATE; where
the code does not test again (`CancelDeposit`, the order in `SettleDeposit`) the
model does not either. `sessions[d]` is the gateway's memory of a payment, and
`Accepted` is what `ZibalService.verifyPayment` lets through (100 and 201). The verify
routes are public GETs and the outcome is a query parameter: a callback claiming
success, or failure, may come at any time and any number of times (`Callback`),
whatever the session is. A claimed success is asked at the gateway; a claimed failure is
written as it is, with the status read before. `overwritten[d]` counts the settlements of
a deposit that such a write marked failed. The
mock gateways, which accept anything, are test doubles and not modelled. `Abort`
ends any request between two pieces: an exception, a deadlock victim, a restart.

**Checkout.** A checkout reads the cart (`ReadCart`), then each offer at its own
time (`ResolveItem`), and takes stock, inserts the order and deletes the cart rows in
one transaction (`PlaceOrder`). `OffersWithout` and `ProductStocksWithout` are the
UPDATEs; `StillInstock` is the CASE of the first one as MySQL evaluates it,
from left to right, with the stock already decremented. `published` and `active`
sum up the flags `resolvePurchasable` asks for. A saved entity is written whole
(`SaveOffer`, `SaveReview`), since `save()` writes what differs from the stored row.
`save()` has a second read between load and write; what that could add here is an
edit that overwrites less, which is the same edit loaded later.

**Media.** A row of `media_assets` and the set of roots that hold the file are
separate, and every operation is its steps: load, file operation, and the two
statements of `save()` (`SelectRow`, then `InsertRow` or `UpdateRow`). Here the two
statements matter: merging columns makes rows nobody wrote. Dates are
numbers handed out in order, `past` the set of those that have passed.

**CreditStatements.** `Payments` takes a transaction as one step; this module shows why it
may, and what goes on inside. A handler is a list of statements (`Settle`,
`PayOrderWithCredit`, `CreateWithdraw`, `Approve`, `Reject`), each a step: the row lock
with its check of the status, the plain SELECT that takes the snapshot, `ensureWallet`,
the guarded UPDATE with its log row, the UPDATE of the order, and `getBalance`, which the
settlement of a top-up runs on a second connection of the pool. Row locks are held to the end of the
transaction; InnoDB's REPEATABLE READ is assumed (docker-compose runs `mysql:8.0` and
nothing sets another level): a plain SELECT reads the snapshot, an UPDATE the
committed row. A cycle of waits ends with a victim, any wait with a timeout. Every choice of
requests from `Menu` in `MCResources` is an initial state.

**MediaSftp.** `withClient` and `getClient` between their awaits: one operation opens the
connection, others join, a failure ends and forgets whatever connection is current and
tries once more. Faults are drops of the network, failed connects and refusals.
The message of a failed connect is one `isAuthError` recognizes, so connects are never tried twice; and
a rename whose answer is lost is not found again. Both are exceptions of `HealsAlone`.

**Accounts.** Each statement of `AuthService` and of the operations of `UsersService` on an
account is an action; a request can be cut off between any two (`CutOff`). A token is
what it is signed over, so two of one second are equal. A tick of the clock is the
life of an access token; `hadRole` and `wasOn` remember what was true in it, `wasOn` of the
accounts that sign-up or an admin had on. `verifyOtp` sets `isActive` without having looked at
it: an account it switches on that was off is in `reopened` until an admin edits it, and in
`wasReopened` for that tick. The SELECT and the UPDATE of a `save()` are one step here and in `Tenants`.
The rows merged from two requests that this leaves out differ from the modelled ones in the
combination of columns only: what one column gets is what one order of the two requests gives it, and
the properties speak of one column at a time, or leave out rows of overlapping requests.

**Tenants.** A request reads and checks at acceptance (`CreateUser`, `UpdateRole`,
`CreateSeller`...) and writes in later steps (`SaveUser`, `SaveRole`, `OpenShop`...), which
overwrite, or insert again, what others changed in between. Any role without a seller may be an extra
role of a user, the system roles included, as `resolveRoleIds` has it (`RoleLists`). Permissions are two:
what a seller may hand out, and what not. The role `super-seller`, which has the rights of `seller`, is left out.

**Tables, Catalog, Reference.** A row has a key (slug, code or name), a flag, a number
(`legacyId`) and references; `RefsOf`, `UniqueOn`, `Restricting`, `Nulling` are the schema's keys as the
migrations leave them. A request reads what it decides on at acceptance, as a guard; then its statements
(`Save`, `Drop`, ...) are queued in `calls[h]` and run one at a time between those of
other requests, or not at all (`cut`). A `save()` is two of them: `SelectStep` finds the stored row, and
`UpdateStep` writes the columns in which the entity differs from that row and leaves in the others what
is there by now (`MergedRow`), or `InsertStep` inserts when there was none. A product that
took columns of two requests this way is in `merged`. Requests that overlap on a row or a name put it
into `raced`; rows that were to move to another parent into `moved`: `save()` prefers the
relation it has loaded to the new id, so only half of a move arrives.

**Migrations, Content, Imports, Installation.** A database is a set of tables, columns,
keys, indexes and kinds of rows. A migration is a sequence of statements with what must be there (`with`),
must not (`without`), is needed, made and taken; MySQL commits each DDL statement by itself, and a
migration is recorded after its last one, so a cut-off migration runs again from its
beginning. Seeds and imports work on rows with a number, a key and an owner. `Installation` starts the
server, migrates, seeds, goes up, is edited, imported into and stopped, on a database that
is fresh, of the time of an older baseline, of the former ledger, of the legacy parent category,
or restored without the record of its migrations.

## Runs

Bounds are small on purpose and chosen so that each race needs no more.

| run | question | instance |
|---|---|---|
| `payments_money` | do wallet, ledger and gateway agree; do payouts keep their promise | 1 order, 1 deposit, overwritten once at most, 2 handlers, edits, 2 payouts, 4 transactions |
| `payments_once` | is a deposit settled once unless a failed callback overwrites it, an order paid from the wallet once; is a paid deposit credited in the end | 2 handlers, 1 gateway, 2 deposits, each overwritten once at most, top-ups, fairness |
| `payments_two_gateways` | *fails*: two deposits of one order, at two gateways, are both settled | 2 handlers, 2 deposits |
| `resources` | is the credit log true, does a request take effect once, does everyone come to an end, does a file operation heal | any 3 of 8 money requests on 2 connections; 2 file operations, 3 faults |
| `checkout` | is a unit sold twice, or lost | 1 customer with 2 requests, 2 offers of 2 units of a product of 3, one offer edited and reviewed, 3 orders |
| `checkout_twice` | *fails*: one cart row is ordered twice | 2 requests |
| `checkout_marked` | *fails*: an offer with stock left is marked sold out | 1 offer of 2 |
| `media` | is used media kept and approved, the file where the row says, does expired media go away | 2 assets, 1 request at a time and the cleanup, interruptions, fairness |
| `accounts` | is an account complete, do rights end with a token, is a session kept | 2 browsers, 1 admin, 1 number, 2 refresh tokens, 2 edits, 2 ticks |
| `tenants` | do roles stay limited, super-admins super, rows with their seller | 2 users with 1 extra role at most, 2 sellers, 2 contracts, 1 custom role, 2 handlers, 3 requests |
| `catalog` | do links, names, stock and approvals agree | 2 handlers, any 2 requests, 2 names |
| `installation` | does the server come up on a complete schema, is data kept, does a rerun add nothing | 5 origins, 3 events on a fresh database, 2 on the others |

Two requests show every race between two reads and a write. Three money requests are
what a pool of 2 needs: two that hold it and one that waits. Stock
of 3 shared by two offers of 2 is the least at which each offer has enough and the
product has not. Three requests in `tenants` are a creation, a change and a removal of one row.
`MCSource` has a brand by the name of a seed and one by its number, two users
with one telephone, a sub-category without a parent, a value twice: each way an import can meet what is there.
`MaxTransactions`, `MaxDeposits`, `MaxWithdraws`, `MaxOrders`,
`MaxItems`, `MaxDates`, `MaxTokens`, `MaxRequests`, `Slots` bound the tables; nothing in an
action depends on a row but by its own key, so more rows repeat what the first ones show. `MaxExtra`
bounds the extra roles of a user (the DTO has nine; each is tested by itself), and
`MaxOverwritten` how often a failed callback may overwrite one deposit: once is enough for a second
settlement. Deadlock checking is
off everywhere: a bounded table, or nobody asking for anything, ends a behaviour.

The failing runs are the findings listed in `PROJECT.json`, each with the sentence of
the repository it contradicts. The passing runs exclude, by name, what the code does not
exclude, and no more:

- `SettledOnceUnlessOverwritten` counts one more credit for each time a failed callback has
  overwritten a settled deposit (`overwritten`); the properties of `payments_money` hold with such
  callbacks and need no exclusion;
- `RightsEndUnlessReopened` leaves out users of accounts that were switched off and that a one-time code
  switched on again (`wasReopened`);
- `ApprovedAsRead` leaves out products whose row took columns of two requests between the SELECT and
  the UPDATE of one `save()` (`merged`);
- `SoldIsTaken` speaks of the offers nobody edits, while `ProductSoldIsTaken` counts all
  offers of the product, the edited ones included, and only leaves out that an admin writes
  the counter itself (`RestockProducts` is empty): the counter keeps the shop from
  overselling when an edit puts sold stock back. `RestockOffers` is empty as well: a
  stock the seller writes on purpose adds states and no new race;
- in `media`, one request, or the cleanup, at a time works on each asset in `Calm`, and
  `FileWhereRowSays` leaves out those on which something was cut short (`cut`);
- `AccountComplete` leaves out accounts whose creation by an admin was cut short, or which a late
  save inserted again (`made`);
- `AssignedOnce`, `SellersKeepApart`, `UniqueByCode`, `InUseStays` leave out rows and names that
  overlapping requests had in hand (`raced`), `ProductHasStock` also products whose creation
  stopped before the stock (`cut`), `LevelsAgree` only rows that were to move (`moved`): an
  overlap alone does not part the two levels of a row;
- `EndsUnlessStarved` leaves out a pool filled by settlements of top-ups: they wait for ever for a
  connection that only they can give back;
- `Spoilt` names what may keep a server down for good, `Fragile` the migrations that cannot be begun
  again after some of their statements, `LostTables` those whose foreign keys 1790000000011 drops
  and no migration makes again.

The typing invariants of `Media`, `Accounts`, `Tenants`, `Catalog`, `Installation`,
`CreditStatements` and `MediaSftp`, and `SoldOutIsMarked`, `ReviewNeverStuck` and `WithdrawTypeOK`,
are stated in the modules and in no run: all but the one of `Installation` are proved (add
one to a `.cfg` as an `INVARIANT` when changing its module).

Seen while modelling, besides the findings:

- `deposits.service.ts:379` marks a deposit failed that was not yet settled when line 362 looked at it: between
  the two another callback may settle it, and the next callback that the gateway confirms (Zibal answers 201)
  settles it again. `scripts/test-double-spend.mjs:5` ("Concurrent verify race → only one settlement")
  races successful callbacks only, and for these it holds;
- who has been switched off (`isActive` false) gets in again with a one-time code:
  `auth.service.ts:183` sets the flag, where the lines 118 to 124 refuse it for a password and 362 for a
  refresh token. Refresh tokens from before, which nothing revokes, are good again as well;
- an update that commits between the SELECT and the UPDATE of the `save()` of a review
  (`products.service.ts:295`, `offers.service.ts:379`) keeps its content under the status `approved`, and
  an update may set that status itself, while `products.controller.ts:139` says that every change
  goes back to `pending` until an admin approves it;
- a user may be given system roles as extra roles (`users.service.ts:126`);
- a rejection, or a removal, that has read an asset before it was attached leaves it
  rejected, or deleted, while attached; and an offer withdrawn after
  `resolvePurchasable` is sold all the same;
- the balance before in the credit log is stale exactly when another operation
  commits between snapshot and UPDATE, and a top-up is answered with the balance before the credit
  (`getBalance` reads outside the transaction);
- two first credits of a user without a wallet row: the second one fails, because the SELECT after its
  duplicate key reads the snapshot from before;
- a late failing file operation ends the connection another one uses, and two that fail side by
  side can leave an open connection nobody holds;
- the stock and the roles of the seeds are reset at every start (`SEED_ON_STARTUP` is true unless set, in
  the code; `README.md`, `.env.example` and `docker-compose.yml` set it to false), and a seeded row
  that was renamed, or an import that brought its number, makes the next start fail;
- a users import overwrites seller and admin of users it matches, and chooses roles by
  slug whatever seller they belong to;
- `approvalStatus` is taken from the body of a product's creation and update
  (`products.service.ts`), where the text of `products.controller.ts:102` has it pending.

## Fairness

`PaymentFairSpec` assumes strong fairness of verification and settlement, per handler and
deposit. A handler may die at each attempt (`Abort`); the assumption is that it
does not die at all of infinitely many: the gateway answers sometimes, and a database
transaction commits sometimes. Nothing is assumed of customers: that the
callback keeps coming (the customer reloads the page) is the premise of
`RetriedCallbackRecovers`, since the code has no retry of its own. `MediaFairSpec` assumes
weak fairness of a request that is under way (it goes on or dies), and strong fairness of what the
nightly job does, which a cron starts, and which may be interrupted each night, but not every night.
`ResourcesSpec` assumes that the database goes on while it can run some statement, and that
the SFTP server answers or the library reports the loss of the connection. `Installation`
assumes that whatever ends is started again (`restart: unless-stopped`), that a start goes
on, and that a script ends.

## Proofs

Every theorem is about all values of the constants that the named assumptions allow: any
users, orders, offers, amounts, any number of requests at a time, any size of the tables. The
pattern is one throughout: an inductive invariant (`...Inv`), a lemma for each action or
kind of step that it preserves it, and short theorems from it, one per property. TLC
has checked each such invariant on the instance of its run.

What the proofs had to add to the properties is nearly always the same thing, and says what the
code relies on: *what a request carries between two of its steps is still true of the
tables, or somebody has been recorded as having made it false.*

| theorem | property | for |
|---|---|---|
| **`PaymentProofs`** `WithdrawTypes`, `ReviewsSucceed` | `WithdrawTypeOK`, `ReviewNeverStuck` | payouts alone |
| `LockedMoney`, `LedgerOfPayouts`, `RequestAndTransaction` | `LockedIsPending`, `LedgerReconciles`, `WithdrawsMatchTransactions` | payouts alone |
| `PayoutsKeepPromise` | `Promise!PromiseSpec` (refinement) | payouts alone |
| `PaymentTypes` | `PaymentTypeOK` | |
| `LockedMoneyNextToPayments`, `LedgerOfTheShop`, `RequestsNextToPayments`, `ReviewsSucceedNextToPayments` | the four of the payouts | payments and payouts together |
| `CreditsAreBacked`, `InThenOut` | `CreditBackedByGateway`, `GatewayMoneyInThenOut` | overwriting callbacks and edits included |
| `SettlesOnceUnlessOverwritten` | `SettledOnceUnlessOverwritten` | any callbacks |
| `PaysOnceFromWallet` | `CreditPaidOnce` | `~AdminEdits` |
| `PromiseNextToPayments` | `KeepsPayoutPromise` (refinement) | |
| **`CheckoutProofs`** `CheckoutTypes`, `OneCartRowPerOffer` | `CheckoutTypeOK`, `OneRowEach` | |
| `NoUnitSoldTwice`, `SoldOutMarked` | `SoldIsTaken`, `SoldOutIsMarked` | offers nobody edits |
| `NoProductOversold` | `ProductSoldIsTaken` | `RestockProducts = {}` |
| **`ResourcesProofs`** `TakesEffectOnce` | `EffectOnce` | |
| `LogAccounts`, `BeforeIsHeld` | `LogIsChained`, `BeforeWasHeld` | |
| `SecondTryHeals` | `HealsAlone` | |
| `StatementsTypes`, `SftpTypes` | `StatementsTypeOK`, `SftpTypeOK` | |
| **`MediaProofs`** `MediaTypes`, `FilesAreThere`, `UsedAreApproved`, `UsedAreKept` | `MediaTypeOK`, `FileWhereRowSays`, `UsedIsApproved`, `UsedIsKept` | the assets in `Calm` |
| **`AccountsProofs`** `AccountsTypes`, `AccountsComplete`, `RightsEnd`, `SessionsKept` | `AccountsTypeOK`, `AccountComplete`, `RightsEndUnlessReopened`, `SessionKept` | |
| **`TenantsProofs`** `TenantsTypes`, `PermissionsAreLimited` | `TenantsTypeOK`, `RolesAreLimited` | |
| `SuperAdminsStay`, `OnceAssigned`, `SellersApart` | `SuperAdminStays`, `AssignedOnce`, `SellersKeepApart` | |
| **`CatalogProofs`** `CatalogTypes` | `CatalogTypeOK` | first rows that agree with each other (below) |
| `ApprovedProducts`, `StockOfProducts`, `OnceByCode` | `ApprovedAsRead`, `ProductHasStock`, `UniqueByCode` | the same |
| `LevelsOfRows`, `InUseIsKept` | `LevelsAgree`, `InUseStays` | the same |

The hypotheses of `PaysOnceFromWallet` and `NoProductOversold` are those under
which the properties are checked, and the properties fail without them: an edit loaded
earlier opens a paid order again, an admin who writes a counter takes it out of the account.

**Assumptions.** What each `ASSUME` says is read off the code or is bookkeeping of the
model. Of the code: amounts are positive and balances at the start not
negative (`LedgerAssumption`, `StatementsAssumption`), an order is paid for by one user and a
user without a wallet has no order, prices and quantities are positive, keys of different
tables differ, clients are not admins, the system roles are there and the first users have
them (`FirstRowsAssumption`), and the rows a catalogue starts with are rows that MySQL and
these services may have left: in their columns, with their foreign keys and unique indexes
(`TablesAssumption`, `SchemaAtStart`), with names there once, a stock for each product, one
primary link, and levels that agree (`CatalogAtStart`). Of the model: `NoRow`, `NoUser`, `NoToken`, `NoWallet`,
`NoView`, `None` and the like are no rows; `Offers` and `Clients` are finite, since
sums and counts range over them.

**Payouts and payments.** `LockedIsPending` alone is not inductive: a review must find
the money locked, so the amount of a request must be one summand of a sum of naturals
(`RowSumTheorems`: a summand is at most the sum, a row that changes changes the sum by
the difference, an appended row adds itself). `LedgerReconciles` needs
`WithdrawsMatchTransactions`, since a review marks one transaction executed and deducts
the amount of the request: they must be the same amount, of the same user, and exactly
one row. And that needs `SourcesExist`: no row may already name the request being
created. `PaymentInv` keeps all this next to the payments, because a step of a
payment adds or changes only rows of its own source (`OnlyRowsOf`, `MoneyMoved`), and
moves the wallet by what its rows say (`MoneyFollowsRows`). For deposits it adds
`DepositRowsAgree` (a row that names a deposit has its user and amount, and is executed
only after the gateway verified it) and `CallsOfDeposits` (who is about to settle has seen
the verification). That a deposit is settled once needs `SettledInv`, with the count of
overwritten settlements: only a settlement adds credits, it adds them to a deposit that is not
successful, and only a failed callback makes a successful one anything else. The
refinement maps requests to what is held, paid and returned: a creation is `Hold`, an approval
`PayOut`, a rejection `Return`, and a payment that moves a wallet `EarnOrSpend`.

**Checkout.** `CheckoutInv` adds the types of what a request carries between two steps
(`ContextTypes`), and `EditsInProgress`: a request that will save an offer has one that is
edited at all. Without the latter nothing keeps `SaveOffer` from the other offers' stock.
An order adds its quantity to the sum of what is sold (`SoldGrows`, from `SumAppend`) and
the UPDATE takes it from the stock (`OfferTaken`). What is sold of a product is a fold
over its offers; `FoldExists` and `FoldOfNone` give the fold a recursive function to be equal to, by
induction on the number of offers, and the sums then add up like any others.

**Requests and locks.** `EffectOnce` speaks of commits only; `RowInv` says why: a request
past its first statement holds the lock of its row and found the row open
(`WorkersHoldLock`), and who committed has closed it (`CommittedCloses`). The first
statement being the lock (`FirstLocks`) is the only fact about the handlers it needs.
`MoneyInv` is about the credit log: what a wallet was after the first n rows of the log is what
the log says (`HeldAfter`), for the wallet now and for the snapshot of every open
transaction; a transaction that has written holds the wallet's lock, so what it has not
committed continues the log, and its rows follow one another (`HasWritten`). Its fact about the
handlers is that `ensureWallet` and the UPDATE come in pairs (`Paired`).

**SFTP.** `HealInv` counts: an operation that runs by itself has met a fault for
every try before this one, and one more if it is using a dead connection (`FaultsCounted`).

**Media.** `RowCallFits` says, for each step between load and save, what the request knows
of row and file: that the new row says where the file is, that the selected row is
still the stored one. `OneAtATime` carries it past the steps of others, and is
what the guard about `Calm` gives.

**Accounts.** Three layers, each from the one before. `TablesInv`: an id is given to one account
(a sign-up in progress has it alone), so the wallet and cart made in that transaction are
the account's. `RightsInv`: what a request knows of a role or of an active account was so in
this tick, by sign-up, an admin or a one-time code. `RowsInv`
counts: for each refresh token at least as many valid rows as clients that rely on
it; a client about to revoke has a row of its own token, or one already revoked (`RowInHand`).

**Tenants.** Each kind of request has a predicate on the rows in its hands (`UserInHand`,
`ContractInHand`, `ShopInHand`, ...): the row is in `raced`, or gone, or belongs to the seller it
belonged to when it was read. Whether an id is a super-admin's is decided once, when it is created;
`TenantsInv` says there is a set of such ids that rows, rows in flight and the lists
in shop openings agree with, raced or not, and that is why a late save cannot undo it.

**Catalogue.** A request decides when it is accepted and writes later, so none of the properties of
the rows is inductive: each has a counterpart about what is queued in `calls`, and holds
together with it. `BaseInv` has the types, the schema (every enforced foreign key leads to a row and no
unique index is violated, which each statement tests again, however stale it is) and the shapes
of queues (`Follows`: a stock right behind its product, a primary link right behind the clearing of the
others). On top of it, `ApprovedNext` (what is saved next as approved has been approved; what an
UPDATE mixes is in `merged`), `UnusedNext` (a
method about to be removed is still unused, or an order raced), `NameNext` and `PrimaryNext` (the name, or the
primary link, saved next is still free, or raced), `StockNext` (behind a new product comes its
stock). `LevelsAgree` is about chains of references, and needs most: the parent of a sub-category or a
state is the same in its row and in everything queued for it (`OneParent`), also in rows that have
been removed and are inserted again by a late save, which is why ids must not be given
out twice (`OnlyUsed`), and what is queued for a link or a city names levels that agreed with these
(`LevelsKnown`). What the requests and statements do to rows and queues is first reduced to a few kinds of step
(`EveryStep`: a request begins, a statement finds what it was looking for, `save()` selects its row, writes it, or
misses it, rows go or lose a reference, a request stops), and each invariant is proved for those. Since the UPDATE of a `save()` may leave columns of the row it finds, a row that is written is
either the one that was queued, or one with columns of it and of the row before (`RowsSaved`): what is known of
queued and stored rows is therefore stated of any two of the rows borne for one id (`Borne`), so that any
mixture of their columns has it too. For the categories of links this needs a conjunct of its own
(`HighOnce`): all rows borne for a link that no request wanted to move name one category.

**What the proofs found in the models.** `RightsEndUnlessReopened` is not inductive, and with
two admins not true, when `InitWallet` forgets that a save had inserted the account again
(`made`); one admin, as in the run, does not show it. The rule of `Media` for assets in `Calm` was that no
request works on them while the cleanup does; with two requests that is not enough, and it
is now one worker at a time. `LevelsAgree` left out rows in `raced`, and need not. The typing of
a row in `Tables` allowed references that the schema has NOT NULL, and `NextNumber` took the largest
of numbers that may be NULL. All five are corrected. `MaxClients` is a guard of `Connected`
and no part of a type.

**Only model-checked.** Liveness (`RetriedCallbackRecovers`, `EndsUnlessStarved`,
`OperationsEnd`, `ExpiredIsCollected`, `ComesUp`): it rests on fairness, which the
provers do not reason about. The invariants of `installation`
(`SchemaComplete`, `DataKept`, `RerunAddsNothing`, `SourceArrived`): the first two speak of the thirty
migrations, a few hundred statements of data that TLC runs through and that hold for no other
value of a constant, the other two of folds over the batches of an import, whose result for every
source only an induction over data would give. The findings, which are
counterexamples.

## Plan

Every safety property of a run but those of `installation` is proved. What is left, in order of
what matters most:

1. `Pricing`: product pricing and shipping quotes as operators against reference
   definitions.
2. The half of `RerunAddsNothing` about the seeds as a property of its own: while a start is seeding, the
   seeds it has run stay settled, for any rows of the site.
3. Creating and deleting offers in `Checkout`.

## Not modelled

- Product pricing (`product-pricing.service.ts`): sequential arithmetic on decimal strings, and an
  import from a spreadsheet; planned as operators.
- HTTP decorators, guards, response shapes, Swagger, configuration, the public pages: they keep no state.
- `down()` of migrations and changes of column widths: nothing in the repository runs the first,
  and no property tells the second apart.
- `migrate-pg-to-mysql.mjs`, which reads another kind of database and empties a table that
  1790000000022 has renamed; the scripts that create one account; the test scripts.
- Creating and deleting offers; the address, the amounts and the shipping choice of an order; the
  mock gateways; the end of the SFTP connection at shutdown; two scripts at a time, and a start of the
  server while a script runs.
