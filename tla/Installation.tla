---------------------------- MODULE Installation ----------------------------
(***************************************************************************)
(* The life of a database: the server starts on it, migrates it, seeds it  *)
(* and goes up; people edit it; scripts import the former shop into it;    *)
(* the server stops or is cut off at any statement, and starts again.      *)
(*                                                                         *)
(* A migration is recorded as done after its last statement.  The process  *)
(* is started again whenever it ends.                                      *)
(***************************************************************************)
EXTENDS Migrations, Imports

CONSTANTS
  Origins,          \* which databases the server is started on
  SeedOnStartup,    \* the setting of that name
  MaxEvents         \* how many stops, edits and runs of scripts, by origin

VARIABLES
  origin,           \* where the database comes from
  db,               \* tables, columns, keys, indexes and rows entered before
  done,             \* how many migrations are recorded
  at,               \* the next statement, or the next seed
  phase,            \* "down", "migrating", "seeding" or "up"
  failed,           \* whether the last start ended by itself
  half,             \* history: migrations that ended between two statements
  site,             \* the rows of the site
  edited,           \* history: the tables that were edited or imported into
  complete,         \* history: the seeds and scripts that went through and
                    \* were not followed by any change
  script,           \* the script that is running
  events            \* how many stops, edits and runs there were

database == <<origin, db, done, half>>
vars == <<origin, db, done, at, phase, failed, half, site, edited, complete, script, events>>

Idle == [name |-> "none", at |-> 1, read |-> FALSE, seen |-> {}, ids |-> {}, clean |-> TRUE]
Beginning == [step |-> 1, inner |-> 0]

-----------------------------------------------------------------------------
(* Where a database comes from.                                            *)
Installed == AfterMigrations(Len(Migrations))

RowsOfAll(things) == {Rows(x[2]) : x \in {y \in things : y[1] = "table"}}

(* The baseline of an earlier time, as the guards of migrations tell.      *)
Older ==
  LET since == {x \in AfterMigrations(1) :
                  \/ x[2] = "parent_categories"
                  \/ x[3] \in {"parentCategoryId", "nameEn", "logoUrl", "seoDescription", "icon",
                               "image", "logoText", "menuLinks", "enamadUrls", "aboutUs",
                               "shippingMethodId"}
                  \/ x = Unique("seller_offers", "sku")}
      before == {Unique("seller_offers", "sellerId, sku"), Column("brands", "description"),
                 Column("products", "shippingMethod"), These("brands", "description"),
                 Table("offer_products")}
  IN  (AfterMigrations(1) \ since) \cup before

(* With the wallet and the ledger of that time.                            *)
WithLedger ==
  (AfterMigrations(23) \ {Table("credit_logs"), ForeignKey("credit_logs", "userId"),
                              Column("user_credits", "amount"),
                              Column("user_credits", "lockedAmount")})
  \cup {Table("credit_ledger"), ForeignKey("credit_ledger", "userId"),
        Column("user_credits", "balance")}

WithLegacyParent ==
  AfterMigrations(16)
  \cup {LegacyParent, BelowLegacy("categories"), BelowLegacy("sub_categories"),
        BelowLegacy("product_categories")}

(* All tables, and no record of the migrations that made them.             *)
Restored == Installed

DatabaseOf(o) ==
  CASE o = "fresh" -> {}
    [] o = "older" -> Older \cup RowsOfAll(Older)
    [] o = "ledger" -> WithLedger \cup RowsOfAll(WithLedger)
    [] o = "legacy parent" -> WithLegacyParent \cup RowsOfAll(WithLegacyParent)
    [] o = "restored" -> Restored \cup RowsOfAll(Restored)
DoneOf(o) ==
  CASE o \in {"fresh", "restored"} -> 0 [] o = "older" -> 1 [] o = "ledger" -> 23
    [] o = "legacy parent" -> 16

Init ==
  /\ origin \in Origins
  /\ db = DatabaseOf(origin)
  /\ done = DoneOf(origin)
  /\ at = Beginning
  /\ phase = "down"
  /\ failed = FALSE
  /\ half = {}
  /\ site = {}
  /\ edited = {}
  /\ complete = {}
  /\ script = Idle
  /\ events = 0

-----------------------------------------------------------------------------
(* The start.                                                              *)
NoScript == script = Idle

(* Migrations that are not safe to begin again after some statements.      *)
Fragile == {1, 17, 18, 20, 21, 24, 26, 27, 28}
CutOff ==
  IF phase = "migrating" /\ at # Beginning /\ done + 1 \in Fragile THEN half \cup {done + 1}
  ELSE half

(* All pending migrations, then the seeds.                                 *)
Begin ==
  /\ phase = "down"
  /\ NoScript
  /\ phase' = IF done < Len(Migrations) THEN "migrating" ELSE "seeding"
  /\ at' = Beginning
  /\ UNCHANGED <<database, failed, site, edited, complete, script, events>>

Migration == Migrations[done + 1]
StepNow ==
  IF at.inner = 0 THEN Migration[at.step] ELSE Migration[at.step].steps[at.inner]

NextStep ==
  IF at.inner = 0 \/ at.inner = Len(Migration[at.step].steps)
  THEN [step |-> at.step + 1, inner |-> 0]
  ELSE [at EXCEPT !.inner = @ + 1]

Migrating == phase = "migrating" /\ at.step <= Len(Migration)

RunStatement ==
  /\ Migrating
  /\ LET step == StepNow
         fails == Fails(step, db)
     IN  /\ fails => step.soft
         /\ db' = IF fails THEN db ELSE Done(step, db)
         /\ at' = IF step.op = "block" /\ Runs(step, db) THEN [at EXCEPT !.inner = 1]
                  ELSE NextStep
  /\ UNCHANGED <<origin, done, half, phase, failed, site, edited, complete, script, events>>

FailStatement ==
  /\ Migrating
  /\ Fails(StepNow, db) /\ ~StepNow.soft
  /\ phase' = "down"
  /\ failed' = TRUE
  /\ half' = CutOff
  /\ UNCHANGED <<origin, db, done, at, site, edited, complete, script, events>>

RecordMigration ==
  /\ phase = "migrating"
  /\ at.step > Len(Migration)
  /\ done' = done + 1
  /\ phase' = IF done' < Len(Migrations) THEN "migrating" ELSE "seeding"
  /\ at' = Beginning
  /\ UNCHANGED <<origin, db, half, failed, site, edited, complete, script, events>>

StillComplete(rows) == IF rows = site THEN complete ELSE {}

Seeding == phase = "seeding" /\ SeedOnStartup /\ at.step <= Len(Seeds)

RunSeed ==
  /\ Seeding
  /\ \E outcome \in Seeded(Seeds[at.step], site) :
       /\ outcome.ok
       /\ site' = outcome.rows
       /\ complete' = StillComplete(outcome.rows)
  /\ at' = [at EXCEPT !.step = @ + 1]
  /\ UNCHANGED <<database, phase, failed, edited, script, events>>

FailSeed ==
  /\ Seeding
  /\ \E outcome \in Seeded(Seeds[at.step], site) : ~outcome.ok
  /\ phase' = "down"
  /\ failed' = TRUE
  /\ UNCHANGED <<database, at, site, edited, complete, script, events>>

GoUp ==
  /\ phase = "seeding"
  /\ SeedOnStartup => at.step > Len(Seeds)
  /\ phase' = "up"
  /\ failed' = FALSE
  /\ complete' = IF SeedOnStartup THEN complete \cup {"seeds"} ELSE complete
  /\ UNCHANGED <<database, at, site, edited, script, events>>

StartStep == RunStatement \/ FailStatement \/ RecordMigration \/ RunSeed \/ FailSeed \/ GoUp

-----------------------------------------------------------------------------
Event == events < MaxEvents[origin] /\ events' = events + 1

(* The process ends, by itself or not, at any statement.                   *)
Stop ==
  /\ Event
  /\ phase # "down"
  /\ phase' = "down"
  /\ half' = CutOff
  /\ at' = Beginning
  /\ UNCHANGED <<origin, db, done, failed, site, edited, complete, script>>

(* People edit the rows of the site.                                       *)
Edited(t, rows) ==
  /\ Event
  /\ phase = "up"
  /\ site' = rows
  /\ edited' = edited \cup {t}
  /\ complete' = {}
  /\ script' = IF NoScript THEN script ELSE [script EXCEPT !.clean = FALSE]
  /\ UNCHANGED <<database, at, phase, failed>>

RenameRow ==
  \E r \in site :
    LET row == [r EXCEPT !.key = "renamed"]
    IN  /\ r.t \in {"attribute", "brand", "product", "category"}
        /\ Allowed(row, site)
        /\ Edited(r.t, Put1(row, site))

RemoveRow ==
  \E r \in site :
    /\ r.t \in {"attribute", "brand", "product", "category", "sub", "link"}
    /\ ~Held(r.id, site)
    /\ Edited(r.t, Removed(r.id, site))

NewRow(t, key) == OwnRow(t, key, Used(Acc(site, script.seen, script.ids)), site)

AddRow ==
  \E row \in {NewRow("attribute", "own"), NewRow("brand", "own"), NewRow("seller", ShopOfSeeds),
              [NewRow("user", "anna") EXCEPT
                 !.val = [role |-> "user", seller |-> None, admin |-> None]]} :
    /\ Allowed(row, site)
    /\ Edited(row.t, site \cup {row})

SellProduct ==
  \E r \in RowsIn("stock", site) :
    /\ r.val > 0
    /\ Edited("stock", Put1([r EXCEPT !.val = @ - 1], site))

ChangeRole ==
  \E r \in RowsIn("role", site) :
    /\ r.val = "of the system"
    /\ Edited("role", Put1([r EXCEPT !.val = "changed"], site))

-----------------------------------------------------------------------------
(* The scripts.                                                            *)
RunScript ==
  /\ Event
  /\ NoScript
  /\ phase \in {"up", "down"} /\ done = Len(Migrations)
  /\ \E s \in Scripts :
       /\ MayStart(s, site)
       /\ script' = [Idle EXCEPT !.name = s]
  /\ UNCHANGED <<database, at, phase, failed, site, edited, complete>>

PassNow == PassesOf(script.name)[script.at]
Running == ~NoScript /\ script.at <= Len(PassesOf(script.name))

(* What the target has is read before the transaction.                     *)
ReadTarget ==
  /\ Running
  /\ ReadsBefore(PassNow) /\ ~script.read
  /\ script' = [script EXCEPT !.read = TRUE, !.seen = Loaded(PassNow, script.ids, site)]
  /\ UNCHANGED <<database, at, phase, failed, site, edited, complete, events>>

Outcome == Passed(PassNow, Acc(site, script.seen, script.ids))

WriteBatch ==
  /\ Running
  /\ ReadsBefore(PassNow) => script.read
  /\ LET acc == Outcome
     IN  /\ acc.ok
         /\ site' = acc.rows
         /\ complete' = StillComplete(acc.rows)
         /\ edited' = edited \cup {r.t : r \in acc.rows \ site}
         /\ script' = [script EXCEPT !.at = @ + 1, !.read = FALSE, !.seen = {}, !.ids = acc.ids]
  /\ UNCHANGED <<database, at, phase, failed, events>>

RollBack ==
  /\ Running
  /\ ReadsBefore(PassNow) => script.read
  /\ ~Outcome.ok
  /\ script' = Idle
  /\ UNCHANGED <<database, at, phase, failed, site, edited, complete, events>>

CompleteScript ==
  /\ ~NoScript /\ ~Running
  /\ complete' = IF script.clean THEN complete \cup {script.name} ELSE complete
  /\ script' = Idle
  /\ UNCHANGED <<database, at, phase, failed, site, edited, events>>

StopScript ==
  /\ Event
  /\ ~NoScript
  /\ script' = Idle
  /\ UNCHANGED <<database, at, phase, failed, site, edited, complete>>

ScriptStep == ReadTarget \/ WriteBatch \/ RollBack \/ CompleteScript

Next ==
  \/ Begin \/ StartStep \/ Stop
  \/ RenameRow \/ RemoveRow \/ AddRow \/ SellProduct \/ ChangeRole
  \/ RunScript \/ ScriptStep \/ StopScript

(* Whatever ends is started again, a start goes on, and no script runs for *)
(* ever.                                                                   *)
ScriptEnds == ~NoScript /\ script' = Idle
Spec == Init /\ [][Next]_vars /\ WF_vars(Begin) /\ WF_vars(StartStep) /\ WF_script(ScriptEnds)

-----------------------------------------------------------------------------
InstallationTypeOK ==
  /\ origin \in Origins
  /\ done \in 0..Len(Migrations)
  /\ phase \in {"down", "migrating", "seeding", "up"}
  /\ phase \in {"seeding", "up"} => done = Len(Migrations)
  /\ phase = "migrating" => done < Len(Migrations) /\ at.step \in 1..Len(Migration) + 1
  /\ failed \in BOOLEAN /\ (phase = "up" => ~failed)
  /\ half \subseteq Fragile
  /\ \A r \in site : ~Clashes(r, site)
  /\ script.name \in Scripts \cup {"none"}
  /\ events \in 0..MaxEvents[origin]

Structure(things) == {x \in things : x[1] \in {"table", "column", "unique"}}
MadeBy(step) == step.makes \cup UNION {step.steps[i].makes : i \in DOMAIN step.steps}
References ==
  LET steps == UNION {{Migrations[n][i] : i \in DOMAIN Migrations[n]} : n \in DOMAIN Migrations}
      made == ForeignKeysIn(UNION {MadeBy(step) : step \in steps})
  IN  {x \in {Renamed(y) : y \in made} : Table(x[2]) \in Installed}
LostTables == {"attribute_values", "media_assets", "shopping_carts", "shopping_cart_items"}

(* The server is up on all tables, columns and unique indexes that the     *)
(* migrations of a fresh database end with (app.module.ts:48), however     *)
(* often they were cut off; but for a baseline that was.  And on every     *)
(* foreign key that some migration makes, but for those that 1790000000011 *)
(* drops in every database and does not make again, of values, media and   *)
(* carts, and for those that a cut-off loses: orders.addressId             *)
(* (1790000000016) and the references of deposits (1790000000023).         *)
SchemaComplete ==
  phase = "up" =>
    /\ 1 \notin half => Structure(Installed) \subseteq db
    /\ half \cap {1, 18, 28} = {} =>
         \A x \in References : x \in db \/ x[2] \in LostTables

(* What was entered before is there, where it was put or where a migration *)
(* moved it: all but what 1790000000011 empties for a database that has    *)
(* not run it, and what a cut-off of the copy of the ledger loses.         *)
Became(x) ==
  CASE x[1] # "rows" -> x
    [] x[2] = "payments" -> <<x[1], "deposits", x[3]>>
    [] x = Rows("credit_ledger") -> Rows("credit_logs")
    [] x = BelowLegacy("categories") -> Moved("parent_categories")
    [] x = BelowLegacy("sub_categories") -> Moved("categories")
    [] x = BelowLegacy("product_categories") -> Moved("product_categories")
    [] OTHER -> x
Emptied == {TablesToTruncate[i] : i \in DOMAIN TablesToTruncate} \cup {"offer_products"}
EnteredBefore ==
  {x \in DatabaseOf(origin) : x[1] = "rows" /\ x # LegacyParent}
DataKept ==
  \A x \in EnteredBefore :
    \/ x \in db \/ Became(x) \in db
    \/ DoneOf(origin) < 13 /\ x[2] \in Emptied
    \/ 24 \in half /\ x[2] = "credit_ledger"
    \/ 17 \in half /\ x[3] = "legacy-import"

(* What may keep the server down: a migration that is not safe to begin    *)
(* again was cut off, the tables came without the record of their          *)
(* migrations, or people or an import changed the brands, products and     *)
(* attributes whose numbers the seeds give out                             *)
(* (attributes.seed.service.ts:44, products.seed.service.ts:316).          *)
Spoilt ==
  \/ half \cap {1, 20, 21, 26, 27} # {}
  \/ origin = "restored"
  \/ edited \cap {"attribute", "value", "brand", "product"} # {}

(* No start fails for another reason, and where none of them holds the     *)
(* server comes up again, whatever has stopped it.                         *)
ComesUp ==
  [](Spoilt \/ (~failed /\ <>(phase = "up" \/ Spoilt)))

(* What went through has left nothing for another run to do: every role,   *)
(* category, product, its stock and its link are there, whatever people    *)
(* had done before, and a script that is run again adds no row and fails   *)
(* on none: what it brought is found again, also what was renamed for it.  *)
RerunAddsNothing ==
  /\ "seeds" \in complete =>
       \A i \in DOMAIN Seeds : \E outcome \in Seeded(Seeds[i], site) : outcome = Unchanged(site)
  /\ \A s \in complete \ {"seeds"} :
       LET again == Rerun(s, site) IN again.ok /\ IdsIn(again.rows) = IdsIn(site)

(* Of a script that went through, every row of the source is there, under  *)
(* the row that its own owner became.                                      *)
SourceOf(t, id) == CHOOSE src \in SourceRows(t) : src.id = id
Became1(t, src, r) == r.t = t /\ (IF t = "country" THEN HasKey(r, src) ELSE HasNumber(r, src))
UnderOwner(t, src, r) == \E o \in site : o.id = r.of /\ Became1(t, SourceOf(t, src.of), o)
Arrived(t, src) ==
  CASE t \in {"user", "brand", "attribute", "category"} ->
         \E r \in RowsIn(t, site) : HasNumber(r, src)
    [] t = "value" -> \E r \in RowsIn(t, site) : HasKey(r, src) /\ UnderOwner("attribute", src, r)
    [] t = "sub" -> \E r \in RowsIn(t, site) :
                      HasNumber(r, src) /\ (src.of # None => UnderOwner("category", src, r))
    [] t = "state" -> \E r \in RowsIn(t, site) : HasKey(r, src) /\ UnderOwner("country", src, r)
    [] t = "city" -> \E r \in RowsIn(t, site) : r.id = src.id /\ UnderOwner("country", src, r)
    [] t = "product" -> \E r \in RowsIn(t, site) :
                          /\ HasNumber(r, src) /\ HasKey(r, src)
                          /\ \E s \in RowsIn("stock", site) : s.of = r.id /\ s.val = src.val
    [] OTHER -> TRUE
SourceArrived ==
  \A s \in complete \ {"seeds"} :
    \A i \in DOMAIN PassesOf(s) :
      LET pass == PassesOf(s)[i] IN \A src \in OfBatch(pass.rows) : Arrived(pass.t, src)
=============================================================================
