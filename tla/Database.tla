------------------------------ MODULE Database ------------------------------
(***************************************************************************)
(* The tables of the welder's SQLite database that a weld and a recipe     *)
(* touch, and the operations of DBAccess_l20_db on them, as operators from *)
(* a database to a database.  A row is a record with the ID that SQLite    *)
(* gave it (AUTOINCREMENT: one more than any ID the table ever had).  The  *)
(* schema is the one of test/sample_l20_base.db:                           *)
(*                                                                         *)
(*   WeldResultSignature.WeldResultID  UNIQUE, references WeldResult,      *)
(*                                     ON DELETE CASCADE                   *)
(*   ActiveRecipe.RecipeID             references WeldRecipe,              *)
(*                                     ON DELETE CASCADE                   *)
(*                                                                         *)
(* and SQLiteDB switches foreign keys on.  A transaction that SQLite       *)
(* refuses leaves the database as it was; whether it does is the argument  *)
(* `ok' of an operation.                                                   *)
(***************************************************************************)
EXTENDS Naturals, FiniteSets

CONSTANTS
  ResultLimit,     \* DB_RECORDS_STORAGE_WELD_RESULT_LIMIT, of results and of alarms
  SignatureLimit,  \* DB_RECORDS_STORAGE_WELD_SIGNAT_LIMIT
  RecipeLimit,     \* DB_RECORDS_STORAGE_WELD_RECIPE_LIMIT
  Names            \* names of recipes

ASSUME LimitsAllowed == /\ ResultLimit \in Nat \ {0}
                        /\ SignatureLimit \in Nat \ {0}
                        /\ RecipeLimit \in Nat \ {0}

-----------------------------------------------------------------------------
(* Rows.                                                                   *)

\* A value that is no ID: what WeldResultID and m_RecipeID are before a row
\* has given them one.
NoRow == 0

Ids(rows) == {row.id : row \in rows}

WithId(rows, id) == {row \in rows : row.id = id}

\* select ID from table order by ID asc limit 1
Oldest(rows) == {row \in rows : \A other \in rows : row.id <= other.id}

\* How many rows are newer than this one: its offset in `order by ID DESC'.
Offset(row, rows) == Cardinality({other \in rows : other.id > row.id})

\* ... order by ID DESC limit first, size
Page(rows, first, size) ==
  {row.id : row \in {r \in rows : Offset(r, rows) \in first .. (first + size - 1)}}

-----------------------------------------------------------------------------
(* A database.                                                             *)

\* The rows of each table and the last ID it gave.  `weld' and `owner' are
\* for the properties: no column holds them.
Databases ==
  [results : SUBSET [id : Nat, weld : Nat, recipe : Nat, cycle : Nat], resultSeq : Nat,
   signatures : SUBSET [id : Nat, result : Nat, curve : SUBSET Nat, owner : Nat],
   signatureSeq : Nat,
   alarms : SUBSET [id : Nat, weld : Nat, result : Nat], alarmSeq : Nat,
   recipes : SUBSET [id : Nat, name : Names], recipeSeq : Nat,
   active : SUBSET [recipe : Nat, cycle : Nat]]

\* AUTOINCREMENT has given every ID.
Numbered(db) ==
  /\ Ids(db.results) \subseteq 1 .. db.resultSeq
  /\ Ids(db.signatures) \subseteq 1 .. db.signatureSeq
  /\ Ids(db.alarms) \subseteq 1 .. db.alarmSeq
  /\ Ids(db.recipes) \subseteq 1 .. db.recipeSeq

\* The foreign keys.
Referring(db) ==
  /\ \A s \in db.signatures : s.result \in Ids(db.results)
  /\ \A a \in db.active : a.recipe \in Ids(db.recipes)

-----------------------------------------------------------------------------
(* Deleting, with what the foreign keys take along.                        *)

\* Slip: the foreign keys do not cascade.
DeleteResultsSlip(db, rows) == [db EXCEPT !.results = @ \ rows]

DeleteResults(db, rows) ==
  [db EXCEPT !.results = @ \ rows,
             !.signatures = {s \in @ : s.result \notin Ids(rows)}]

DeleteRecipes(db, rows) ==
  [db EXCEPT !.recipes = @ \ rows,
             !.active = {a \in @ : a.recipe \notin Ids(rows)}]

\* DeleteOldest ignores the outcome of its transaction.
DeleteOldestResult(db, ok) ==
  IF ok THEN DeleteResults(db, Oldest(db.results)) ELSE db

DeleteOldestSignature(db, ok) ==
  IF ok THEN [db EXCEPT !.signatures = @ \ Oldest(db.signatures)] ELSE db

DeleteOldestAlarm(db, ok) ==
  IF ok THEN [db EXCEPT !.alarms = @ \ Oldest(db.alarms)] ELSE db

DeleteOldestRecipe(db, ok) ==
  IF ok THEN DeleteRecipes(db, Oldest(db.recipes)) ELSE db

-----------------------------------------------------------------------------
(* Weld results and signatures.                                            *)

\* The insert of StoreWeldResult, and the deletion its new ID calls for.
\* `result' holds what the row says: its weld, its recipe, the cycle count.
InsertResult(db, result) ==
  [db EXCEPT !.resultSeq = @ + 1,
             !.results = @ \cup {[id |-> db.resultSeq + 1, weld |-> result.weld,
                                  recipe |-> result.recipe, cycle |-> result.cycle]}]

\* Slip: one row more.
ResultsFullSlip(db) == db.resultSeq > ResultLimit

ResultsFull(db) == db.resultSeq + 1 > ResultLimit
SignaturesFull(db) == db.signatureSeq + 1 > SignatureLimit
AlarmsFull(db) == db.alarmSeq + 1 > ResultLimit

StoreWeldResult(db, result, ok, deleted) ==
  IF ~ok THEN db
  ELSE IF ResultsFull(db)
       THEN DeleteOldestResult(InsertResult(db, result), deleted)
       ELSE InsertResult(db, result)

\* A result has one signature, and an empty graph is not stored.
SignatureAllowed(db, result, curve) ==
  /\ \A s \in db.signatures : s.result # result
  /\ WithId(db.results, result) # {}
  /\ curve # {}

\* `owner' is the weld the signature was sent for.
InsertSignature(db, result, curve, owner) ==
  [db EXCEPT !.signatureSeq = @ + 1,
             !.signatures = @ \cup {[id |-> db.signatureSeq + 1, result |-> result,
                                     curve |-> curve, owner |-> owner]}]

StoreWeldSignature(db, result, curve, owner, ok, deleted) ==
  IF ~(ok /\ SignatureAllowed(db, result, curve)) THEN db
  ELSE IF SignaturesFull(db)
       THEN DeleteOldestSignature(InsertSignature(db, result, curve, owner), deleted)
       ELSE InsertSignature(db, result, curve, owner)

\* The alarm log keeps the ID of a result; no foreign key binds it.
InsertAlarm(db, weld, result) ==
  [db EXCEPT !.alarmSeq = @ + 1,
             !.alarms = @ \cup {[id |-> db.alarmSeq + 1, weld |-> weld, result |-> result]}]

StoreAlarmLog(db, weld, result, ok, deleted) ==
  IF ~ok THEN db
  ELSE IF AlarmsFull(db)
       THEN DeleteOldestAlarm(InsertAlarm(db, weld, result), deleted)
       ELSE InsertAlarm(db, weld, result)

-----------------------------------------------------------------------------
(* Recipes and the single row of ActiveRecipe.                             *)

NameTaken(db, name) == \E row \in db.recipes : row.name = name

InsertRecipe(db, name) ==
  [db EXCEPT !.recipeSeq = @ + 1,
             !.recipes = @ \cup {[id |-> db.recipeSeq + 1, name |-> name]}]

\* The oldest recipe goes as soon as the new ID reaches the limit, however
\* few recipes there are, and whether or not it is the active one.
StoreWeldRecipe(db, name, ok, deleted) ==
  IF NameTaken(db, name) \/ ~ok THEN db
  ELSE IF db.recipeSeq + 1 >= RecipeLimit
       THEN DeleteOldestRecipe(InsertRecipe(db, name), deleted)
       ELSE InsertRecipe(db, name)

\* Slip: any recipe is deleted.
DeleteSpecificRecipeSlip(db, id, ok) ==
  IF ~ok THEN db ELSE DeleteRecipes(db, WithId(db.recipes, id))

\* The active recipe is not deleted by request.
DeleteSpecificRecipe(db, id, ok) ==
  IF ~ok \/ \E a \in db.active : a.recipe = id THEN db
  ELSE DeleteRecipes(db, WithId(db.recipes, id))

\* update ActiveRecipe set CycleNumber, RecipeID: every row it has, if the
\* foreign key holds.
ActiveUpdatable(db, recipe) == db.active = {} \/ WithId(db.recipes, recipe) # {}

UpdateActiveRecipe(db, recipe, cycle, ok) ==
  IF ok /\ ActiveUpdatable(db, recipe)
  THEN [db EXCEPT !.active = {[recipe |-> recipe, cycle |-> cycle] : a \in @}]
  ELSE db
=============================================================================
