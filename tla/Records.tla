------------------------------- MODULE Records -------------------------------
(***************************************************************************)
(* What becomes of a weld after the sonics, and of the active recipe: the  *)
(* interrupt that runs the SC fills the global weld result and curve, the  *)
(* control task answers with three messages to the data task, the data     *)
(* task stores what the globals hold when it comes to a message, the UI    *)
(* task changes the same globals for the HMI, and the external manager     *)
(* recalls recipes.  The tasks share memory without a lock: a message only *)
(* says what to do, its data are read later.                               *)
(*                                                                         *)
(* Messages whose handler only shows or sends what the globals hold         *)
(* (LAST_WELD_RESULT, AFTER_WELD_REQ, the answers to the HMI other than a   *)
(* page of results) change none of this state and are left out.             *)
(*                                                                         *)
(* A weld is a number, a curve is the set of welds whose samples it holds, *)
(* a recipe is its ID.  A message carries the weld it is about: the code's *)
(* message does not, and no action reads it but to record the history.     *)
(***************************************************************************)
EXTENDS Database, Sequences

CONSTANTS
  QueueMax,   \* messages a queue of the data task holds
  ResultPage, \* ONE_RESULT_PAGE_NUM
  OtherPage,  \* ONE_PAGE_NUM, FIRST_SEND_DATA_NUM: recipes and alarms
  DefaultName,\* the name of a recipe as it is created
  Starts,     \* the databases the program may find
  Works       \* what the environment may do: the number of times, for each Kind

\* The tables whose oldest row goes when the newest ID exceeds the limit.
Limited == {"results", "signatures", "alarms"}

Kinds == {"weld", "set", "info", "clear", "recall", "insert", "default", "delete",
          "latest", "next", "other", "curve", "fail", "restart"}

\* Welds count from 1; this number stands for all the welds of earlier runs.
NoWeld == 0

ASSUME RecordsAssumption == /\ QueueMax \in Nat \ {0}
                            /\ ResultPage \in Nat \ {0}
                            /\ OtherPage \in Nat \ {0}
                            /\ DefaultName \in Names
                            /\ Works \subseteq [Kinds -> Nat]

\* What the databases that the program may find have in common: no ID was
\* given twice, no table is beyond its limit, one recipe is active, and what
\* it says of welds it says of earlier ones.
ASSUME StartsAllowed ==
  \A d \in Starts :
    /\ d \in Databases /\ Numbered(d) /\ Referring(d)
    /\ IsFiniteSet(d.results) /\ IsFiniteSet(d.signatures) /\ IsFiniteSet(d.alarms)
    /\ Cardinality(d.results) <= ResultLimit /\ Cardinality(d.results) <= d.resultSeq
    /\ Cardinality(d.signatures) <= SignatureLimit
    /\ Cardinality(d.signatures) <= d.signatureSeq
    /\ Cardinality(d.alarms) <= ResultLimit /\ Cardinality(d.alarms) <= d.alarmSeq
    /\ \E a \in d.active : d.active = {a}
    /\ \A row \in d.results \cup d.alarms : row.weld = NoWeld
    /\ \A s \in d.signatures : s.owner = NoWeld /\ s.curve = {NoWeld}

VARIABLES
  weld,     \* the SC: [number, phase, outcome] of the last weld
  globals,  \* the shared memory: WeldResults, _OrignalSignature, ActiveRecipeSC, RecipeSC
  queues,   \* the Control, Data and Request queues of the data task
  loading,  \* the active row QueryActiveRecipe has read and not yet assigned
  naming,   \* ... and then the recipe it has found, not yet assigned either
  ui,       \* the UI task: [queue, rows, sending]
  ext,      \* the answers to recalls that wait for the external manager
  db,       \* the database
  cursor,   \* sendDataNum, the one offset of all libraries
  work,     \* what the environment may still do
  history   \* what happened, for the properties

vars == <<weld, globals, queues, loading, naming, ui, ext, db, cursor, work, history>>

-----------------------------------------------------------------------------
(* Messages and queues.                                                    *)

Msg(id, arg) == [id |-> id, arg |-> arg]

\* The message queues of the data task.
QueueNames == {"Control", "Data", "Request"}

InQueue(q) == {q[i] : i \in DOMAIN q}

\* SendToMsgQ: msgQSend with NO_WAIT.  A full queue loses the message.
Fits(q) == Len(q) < QueueMax
Send(q, m) == IF Fits(q) THEN Append(q, m) ELSE q

\* Data_Task drains Control before Data before Request, a message at a time.
Source == IF queues["Control"] # <<>> THEN "Control"
          ELSE IF queues["Data"] # <<>> THEN "Data" ELSE "Request"

Receives(id) == /\ loading = {} /\ naming = {}
                /\ queues[Source] # <<>>
                /\ Head(queues[Source]).id = id

Arg == Head(queues[Source]).arg
Rest == [queues EXCEPT ![Source] = Tail(@)]

Queued == UNION {InQueue(queues[name]) : name \in QueueNames}
ActiveUpdates == {m \in Queued : m.id = "ACTIVE_RECIPE_UPDATE"}

-----------------------------------------------------------------------------
(* The environment's share.                                                *)

Spend(kind) == work' = [work EXCEPT ![kind] = @ - 1]
May(kind) == work[kind] > 0

\* Whether SQLite refuses the insert (or update) or the deletion after it.
Faults == IF May("fail") THEN {"none", "insert", "delete"} ELSE {"none"}
SpendFault(fault) == IF fault = "none" THEN UNCHANGED work ELSE Spend("fail")

\* A refused deletion leaves a row too many.
Kept(table, full) == IF full /\ db' # db THEN [history.kept EXCEPT ![table] = @ + 1]
                     ELSE history.kept

\* The welds whose result or signature the data task has still to store.
Waiting == {m.arg : m \in {n \in InQueue(queues["Control"]) :
                             n.id \in {"WELD_RESULT_INSERT", "WELD_SIGN_INSERT"}}}

\* The weld under way, from its start to the control task's answer.
Current == IF weld.phase \in {"sonics", "sampled", "answer"} THEN {weld.number} ELSE {}

-----------------------------------------------------------------------------
(* Start of the program.  InitData does not load the active recipe: until  *)
(* the HMI asks for it m_RecipeID is whatever the memory held.             *)

BootGlobals(d, recipeId) ==
  [values |-> NoWeld, curve |-> {}, resultId |-> NoRow, recipeId |-> recipeId,
   recipe |-> NoRow, edit |-> DefaultName,
   \* QueryLatestWeldResult
   cycle |-> IF d.results = {} THEN 0
             ELSE (CHOOSE r \in d.results : \A s \in d.results : s.id <= r.id).cycle]

Init == /\ db \in Starts
        /\ work \in Works
        /\ \E id \in Ids(db.recipes) \cup {NoRow} : globals = BootGlobals(db, id)
        /\ weld = [number |-> NoWeld, phase |-> "rest", outcome |-> "good"]
        /\ queues = [name \in QueueNames |-> <<>>]
        /\ loading = {} /\ naming = {}
        /\ ui = [queue |-> <<>>, rows |-> {}, sending |-> FALSE]
        /\ ext = <<>>
        /\ cursor = 0
        /\ history = [ran |-> [w \in 1 .. work["weld"] |-> NoRow],
                      disturbed |-> {}, reloaded |-> {},
                      chosen |-> {a.recipe : a \in db.active}, overridden |-> FALSE,
                      unsaved |-> TRUE, kept |-> [table \in Limited |-> 0],
                      fetched |-> {}, shown |-> {}, torn |-> TRUE]

\* A loss of power, at any moment: the database stays.
Restart ==
  /\ May("restart") /\ Spend("restart")
  /\ \E id \in Ids(db.recipes) \cup {NoRow} : globals' = BootGlobals(db, id)
  /\ weld' = [weld EXCEPT !.phase = "rest", !.outcome = "good"]
  /\ queues' = [name \in QueueNames |-> <<>>]
  /\ loading' = {} /\ naming' = {} /\ ext' = <<>> /\ cursor' = 0
  /\ ui' = [queue |-> <<>>, rows |-> {}, sending |-> FALSE]
  /\ history' = [history EXCEPT !.chosen = {a.recipe : a \in db.active}, !.overridden = FALSE,
                                !.unsaved = TRUE, !.torn = TRUE]
  /\ UNCHANGED db

-----------------------------------------------------------------------------
(* The interrupt: WeldSonicOn.                                             *)

\* Enter clears the curve and the weld data, and may miss the pre-height.
WeldStart ==
  /\ May("weld") /\ Spend("weld")
  /\ weld.phase = "rest"
  /\ \E outcome \in {"good", "preheight"} :
       weld' = [number |-> weld.number + 1, phase |-> "sonics", outcome |-> outcome]
  /\ globals' = [globals EXCEPT !.curve = {}, !.values = NoWeld]
  /\ history' = [history EXCEPT !.ran[weld.number + 1] = globals.recipe,
                                !.disturbed = @ \cup Waiting]
  /\ UNCHANGED <<queues, loading, naming, ui, ext, db, cursor>>

\* Loop appends a sample to whatever the curve holds.
WeldSample ==
  /\ weld.phase = "sonics" /\ weld.outcome # "preheight"
  /\ weld' = [weld EXCEPT !.phase = "sampled"]
  /\ globals' = [globals EXCEPT !.curve = @ \cup {weld.number}]
  /\ UNCHANGED <<queues, loading, naming, ui, ext, db, cursor, work, history>>

\* Exit fills the weld result, unless the pre-height was missed, and sends
\* TO_CTRL_SC_RESPONSE.  CheckWeldAlarm may have found a limit missed.
WeldEnd ==
  /\ weld.phase = (IF weld.outcome = "preheight" THEN "sonics" ELSE "sampled")
  /\ IF weld.outcome = "preheight"
     THEN weld' = [weld EXCEPT !.phase = "answer"] /\ UNCHANGED globals
     ELSE /\ \E outcome \in {"good", "alarm"} :
               weld' = [weld EXCEPT !.phase = "answer", !.outcome = outcome]
          /\ globals' = [globals EXCEPT !.values = weld.number]
  /\ UNCHANGED <<queues, loading, naming, ui, ext, db, cursor, work, history>>

-----------------------------------------------------------------------------
(* The control task, in the mode BATCH_WELD.                               *)

\* Slip: the signature goes before its result.
AnswersSlip == <<Msg("WELD_SIGN_INSERT", weld.number), Msg("WELD_RESULT_INSERT", weld.number),
                 Msg("ACTIVE_RECIPE_UPDATE", globals.recipeId)>>

\* What the answer to a weld sends to the data task.
Answers == <<Msg("WELD_RESULT_INSERT", weld.number), Msg("WELD_SIGN_INSERT", weld.number),
             Msg("ACTIVE_RECIPE_UPDATE", globals.recipeId)>>

SendAnswers == [queues EXCEPT !["Control"] = Send(Send(Send(@, Answers[1]), Answers[2]), Answers[3])]

Dropped(m) == m \notin InQueue(SendAnswers["Control"])

\* responseStateMachineProcess, with RunProcess: the next weld may come
\* before the data task has stored this one, but not before this answer.
ControlRespond ==
  /\ weld.phase = "answer"
  /\ weld' = [weld EXCEPT !.phase = IF weld.outcome = "good" THEN "rest" ELSE "alarm"]
  /\ IF weld.outcome = "preheight"
     THEN UNCHANGED <<globals, queues, history>>
     ELSE /\ globals' = [globals EXCEPT !.cycle = IF weld.outcome = "good" THEN @ + 1 ELSE @]
          /\ queues' = SendAnswers
          /\ history' = [history EXCEPT
               !.disturbed = IF Dropped(Answers[1]) THEN @ \cup {weld.number} ELSE @,
               !.overridden = @ \/ {globals.recipeId} # history.chosen,
               !.unsaved = @ \/ Dropped(Answers[3])]
  /\ UNCHANGED <<loading, naming, ui, ext, db, cursor, work>>

\* TO_CTRL_ALARM_EVENT: the state Alarm comes after the weld's answer.  The
\* alarm of a missed pre-height counts no cycle and names no weld.
ControlAlarm ==
  /\ weld.phase = "alarm"
  /\ weld' = [weld EXCEPT !.phase = "rest"]
  /\ queues' = [queues EXCEPT !["Control"] =
       Send(@, Msg("ALARM_LOG_INSERT", IF weld.outcome = "alarm" THEN weld.number ELSE NoWeld))]
  /\ UNCHANGED <<globals, loading, naming, ui, ext, db, cursor, work, history>>

-----------------------------------------------------------------------------
(* The HMI asks; the UI task handles its queue in order.                   *)

\* What the HMI may ask for, with the budget it draws on.
Requests ==
  {[id |-> "set", arg |-> id] : id \in Ids(db.recipes)} \cup
  {[id |-> "delete", arg |-> id] : id \in Ids(db.recipes)} \cup
  {[id |-> "curve", arg |-> id] : id \in Ids(db.results)} \cup
  {[id |-> "insert", arg |-> name] : name \in Names \ {DefaultName}} \cup
  {[id |-> kind, arg |-> NoRow] : kind \in {"info", "clear", "default", "latest", "next", "other"}}

HmiRequest ==
  \E m \in Requests :
    /\ May(m.id) /\ Spend(m.id)
    /\ ui' = [ui EXCEPT !.queue = Append(@, m)]
    /\ UNCHANGED <<weld, globals, queues, loading, naming, ext, db, cursor, history>>

UIReceives(id) == /\ ~ui.sending
                  /\ ui.queue # <<>>
                  /\ Head(ui.queue).id = id

UIArg == Head(ui.queue).arg
UIRest == [ui EXCEPT !.queue = Tail(@)]

\* The requests the UI task only passes on, and the data task's name of each.
Forwarded == [info |-> "ACTIVE_RECIPE_QUERY", delete |-> "WELD_RECIPE_DELETE_SPECIFIC",
              curve |-> "READ_WELDRESULTHISTORY", latest |-> "WELD_RESULT_QUERY_LATEST_PAGE",
              next |-> "WELD_RESULT_QUERY_NEXT_PAGE", other |-> "QUERY_OTHER_PAGE"]

UIForward ==
  \E id \in DOMAIN Forwarded :
    /\ UIReceives(id)
    /\ ui' = UIRest
    /\ queues' = [queues EXCEPT !["Data"] = Send(@, Msg(Forwarded[id], UIArg))]
    /\ UNCHANGED <<weld, globals, loading, naming, ext, db, cursor, work, history>>

\* TO_UI_SET_ACTIVE_RECIPE: the counter is reset at once, the active recipe
\* in memory stays until the HMI asks for the active recipe.  A recall that
\* waits in the Request queue will be stored after this choice.
UISetActive ==
  /\ UIReceives("set")
  /\ ui' = UIRest
  /\ globals' = [globals EXCEPT !.cycle = 0]
  /\ queues' = [queues EXCEPT !["Data"] = Send(@, Msg("ACTIVE_RECIPE_UPDATE", UIArg))]
  /\ history' = [history EXCEPT
       !.chosen = IF Fits(queues["Data"]) THEN {UIArg} ELSE @,
       !.overridden = IF Fits(queues["Data"])
                      THEN \E m \in InQueue(queues["Request"]) : m.id = "ACTIVE_RECIPE_UPDATE"
                      ELSE @,
       !.unsaved = @ \/ ~Fits(queues["Data"])]
  /\ UNCHANGED <<weld, loading, naming, ext, db, cursor, work>>

\* Slip: the counter is reset in memory only.
UIClearCounterSlip ==
  /\ UIReceives("clear")
  /\ ui' = UIRest
  /\ globals' = [globals EXCEPT !.cycle = 0]
  /\ UNCHANGED <<weld, queues, loading, naming, ext, db, cursor, work, history>>

\* TO_UI_TASK_CLEAR_WELD_COUNTER_IDX
UIClearCounter ==
  /\ UIReceives("clear")
  /\ ui' = UIRest
  /\ globals' = [globals EXCEPT !.cycle = 0]
  /\ queues' = [queues EXCEPT !["Data"] = Send(@, Msg("ACTIVE_RECIPE_UPDATE", globals.recipeId))]
  /\ history' = [history EXCEPT !.overridden = @ \/ {globals.recipeId} # history.chosen,
                                !.unsaved = @ \/ ~Fits(queues["Data"])]
  /\ UNCHANGED <<weld, loading, naming, ext, db, cursor, work>>

\* TO_UI_INSERT_RECIPE_WRITE: RecipeSC is the one recipe under edit.
UIInsertRecipe ==
  /\ UIReceives("insert")
  /\ ui' = UIRest
  /\ globals' = [globals EXCEPT !.edit = UIArg]
  /\ queues' = [queues EXCEPT !["Data"] = Send(@, Msg("WELD_RECIPE_INSERT", UIArg))]
  /\ UNCHANGED <<weld, loading, naming, ext, db, cursor, work, history>>

\* responseWeldRecipeData makes a recipe with the defaults the one under edit.
UIDefaultRecipe ==
  /\ UIReceives("default")
  /\ ui' = UIRest
  /\ globals' = [globals EXCEPT !.edit = DefaultName]
  /\ UNCHANGED <<weld, queues, loading, naming, ext, db, cursor, work, history>>

\* responseWeldResultLib copies the rows and sends them, which may block,
UISendRows ==
  /\ UIReceives("RESULT_LIBRARY_DATA_RESPONSE")
  /\ ui' = [UIRest EXCEPT !.sending = TRUE]
  /\ history' = [history EXCEPT !.shown = @ \cup ui.rows]
  /\ UNCHANGED <<weld, globals, queues, loading, naming, ext, db, cursor, work>>

\* ... and then clears the vector, with what has come to it since.
UIRowsSent ==
  /\ ui.sending
  /\ ui' = [ui EXCEPT !.sending = FALSE, !.rows = {}]
  /\ UNCHANGED <<weld, globals, queues, loading, naming, ext, db, cursor, work, history>>

-----------------------------------------------------------------------------
(* The external link recalls a recipe by its name.                         *)

ExtRecall ==
  /\ May("recall") /\ Spend("recall")
  /\ \E name \in Names :
       queues' = [queues EXCEPT !["Request"] = Send(@, Msg("WELD_RECIPE_QUERY_BY_NAME", name))]
  /\ UNCHANGED <<weld, globals, loading, naming, ui, ext, db, cursor, history>>

\* Slip: the recipe is loaded at once.
ExtAnswerSlip ==
  /\ ext # <<>>
  /\ ext' = Tail(ext)
  /\ IF Head(ext) \in {NoRow, globals.recipeId}
     THEN UNCHANGED <<globals, queues>>
     ELSE /\ globals' = [globals EXCEPT !.recipeId = Head(ext), !.recipe = Head(ext), !.cycle = 0]
          /\ queues' = [queues EXCEPT !["Request"] = Send(@, Msg("ACTIVE_RECIPE_UPDATE", Head(ext)))]
  /\ UNCHANGED <<weld, loading, naming, ui, db, cursor, work, history>>

\* TO_EXT_TASK_RECALL_RECIPE_RESPONSE: a recipe that was found becomes the
\* active one, by its ID alone: its parameters are not loaded.
ExtAnswer ==
  /\ ext # <<>>
  /\ ext' = Tail(ext)
  /\ IF Head(ext) \in {NoRow, globals.recipeId}
     THEN UNCHANGED <<globals, queues, history>>
     ELSE /\ globals' = [globals EXCEPT !.recipeId = Head(ext), !.cycle = 0]
          /\ queues' = [queues EXCEPT !["Request"] = Send(@, Msg("ACTIVE_RECIPE_UPDATE", Head(ext)))]
          /\ history' = [history EXCEPT
               !.chosen = IF Fits(queues["Request"]) THEN {Head(ext)} ELSE @,
               !.overridden = IF Fits(queues["Request"]) THEN FALSE ELSE TRUE,
               !.unsaved = @ \/ ~Fits(queues["Request"])]
  /\ UNCHANGED <<weld, loading, naming, ui, db, cursor, work>>

-----------------------------------------------------------------------------
(* The data task.                                                          *)

\* Slip: the latest ID is read before the insert.
DataStoreResultSlip ==
  /\ Receives("WELD_RESULT_INSERT")
  /\ queues' = Rest
  /\ db' = StoreWeldResult(db, [weld |-> globals.values, recipe |-> globals.recipe,
                                cycle |-> globals.cycle], TRUE, TRUE)
  /\ globals' = [globals EXCEPT !.resultId = db.resultSeq]
  /\ history' = [history EXCEPT !.torn = TRUE]
  /\ UNCHANGED <<weld, loading, naming, ui, ext, cursor, work>>

\* StoreWeldResult: the values and the name of the recipe are those of now;
\* WeldResultID becomes the latest ID even when the insert was refused.
DataStoreResult ==
  /\ Receives("WELD_RESULT_INSERT")
  /\ queues' = Rest
  /\ \E fault \in Faults :
       /\ SpendFault(fault)
       /\ db' = StoreWeldResult(db, [weld |-> globals.values, recipe |-> globals.recipe,
                                     cycle |-> globals.cycle],
                                fault # "insert", fault # "delete")
       /\ history' = [history EXCEPT
            !.disturbed = IF fault = "insert" THEN @ \cup {Arg} ELSE @,
            !.kept = Kept("results", fault = "delete" /\ ResultsFull(db)),
            !.torn = @ \/ fault # "insert"]
  /\ globals' = [globals EXCEPT !.resultId = db'.resultSeq]
  /\ UNCHANGED <<weld, loading, naming, ui, ext, cursor>>

\* StoreWeldSignature: the curve of now, under the latest result.
DataStoreSignature ==
  /\ Receives("WELD_SIGN_INSERT")
  /\ queues' = Rest
  /\ \E fault \in Faults :
       /\ SpendFault(fault)
       /\ db' = StoreWeldSignature(db, globals.resultId, globals.curve, Arg,
                                   fault # "insert", fault # "delete")
       /\ history' = [history EXCEPT !.kept = Kept("signatures", fault = "delete" /\ SignaturesFull(db))]
  /\ UNCHANGED <<weld, globals, loading, naming, ui, ext, cursor>>

\* StoreAlarmLog: an alarm that counts cycles is logged under the latest
\* result.
DataStoreAlarm ==
  /\ Receives("ALARM_LOG_INSERT")
  /\ queues' = Rest
  /\ \E fault \in Faults :
       /\ SpendFault(fault)
       /\ db' = StoreAlarmLog(db, Arg, IF Arg = NoWeld THEN NoRow ELSE globals.resultId,
                              fault # "insert", fault # "delete")
       /\ history' = [history EXCEPT !.kept = Kept("alarms", fault = "delete" /\ AlarmsFull(db))]
  /\ UNCHANGED <<weld, globals, loading, naming, ui, ext, cursor>>

\* Slip: the recipe is the one in memory.
DataUpdateActiveSlip ==
  /\ Receives("ACTIVE_RECIPE_UPDATE")
  /\ queues' = Rest
  /\ db' = UpdateActiveRecipe(db, globals.recipeId, globals.cycle, TRUE)
  /\ history' = [history EXCEPT !.unsaved = FALSE]
  /\ UNCHANGED <<weld, globals, loading, naming, ui, ext, cursor, work>>

\* UpdateActiveRecipe: the recipe is the message's, the counter that of now.
DataUpdateActive ==
  /\ Receives("ACTIVE_RECIPE_UPDATE")
  /\ queues' = Rest
  /\ \E fault \in Faults \ {"delete"} :
       /\ SpendFault(fault)
       /\ db' = UpdateActiveRecipe(db, Arg, globals.cycle, fault # "insert")
       /\ LET failed == fault = "insert" \/ ~ActiveUpdatable(db, Arg)
          IN  history' = [history EXCEPT !.unsaved = failed, !.overridden = @ \/ failed]
  /\ UNCHANGED <<weld, globals, loading, naming, ui, ext, cursor>>

\* QueryActiveRecipe reads the row,
DataReadActive ==
  /\ Receives("ACTIVE_RECIPE_QUERY")
  /\ queues' = Rest
  /\ loading' = db.active
  /\ UNCHANGED <<weld, globals, naming, ui, ext, db, cursor, work, history>>

\* ... assigns the count and the ID, and looks for the recipe with that ID,
DataAssignActive ==
  /\ loading # {}
  /\ loading' = {}
  /\ \E row \in loading :
       /\ globals' = [globals EXCEPT !.cycle = row.cycle, !.recipeId = row.recipe]
       /\ naming' = {row.recipe}
  /\ history' = [history EXCEPT !.unsaved = FALSE]
  /\ UNCHANGED <<weld, queues, ui, ext, db, cursor, work>>

\* ... and assigns its ID, again, with its name and parameters.  Between these steps
\* tasks of a higher priority may run, and any task while this one waits for the disk.
DataAssignRecipe ==
  /\ naming # {}
  /\ naming' = {}
  /\ \E id \in naming : globals' = [globals EXCEPT !.recipeId = id, !.recipe = id]
  /\ history' = [history EXCEPT !.reloaded = @ \cup Waiting \cup Current]
  /\ UNCHANGED <<weld, queues, loading, ui, ext, db, cursor, work>>

\* StoreWeldRecipe stores the recipe under edit now.
DataStoreRecipe ==
  /\ Receives("WELD_RECIPE_INSERT")
  /\ queues' = Rest
  /\ \E fault \in Faults :
       /\ SpendFault(fault)
       /\ db' = StoreWeldRecipe(db, globals.edit, fault # "insert", fault # "delete")
  /\ UNCHANGED <<weld, globals, loading, naming, ui, ext, cursor, history>>

DataDeleteRecipe ==
  /\ Receives("WELD_RECIPE_DELETE_SPECIFIC")
  /\ queues' = Rest
  /\ \E fault \in Faults \ {"insert"} :
       /\ SpendFault(fault)
       /\ db' = DeleteSpecificRecipe(db, Arg, fault # "delete")
  /\ UNCHANGED <<weld, globals, loading, naming, ui, ext, cursor, history>>

\* The rows of a page go to the vector the UI task sends from, and the UI
\* task is told so, if there are any.
Fetch(rows) ==
  ui' = IF rows = {} THEN ui
        ELSE [ui EXCEPT !.rows = @ \cup rows,
                        !.queue = Append(@, Msg("RESULT_LIBRARY_DATA_RESPONSE", NoRow))]

\* Slip: the offset is not put back.
DataLatestPageSlip ==
  /\ Receives("WELD_RESULT_QUERY_LATEST_PAGE")
  /\ queues' = Rest
  /\ Fetch(Page(db.results, 0, ResultPage))
  /\ history' = [history EXCEPT !.fetched = Page(db.results, 0, ResultPage), !.shown = {},
                                !.torn = ui.sending \/ ui.rows # {}]
  /\ UNCHANGED <<weld, globals, loading, naming, ext, db, cursor, work>>

\* QueryWeldResultLatestPage
DataLatestPage ==
  /\ Receives("WELD_RESULT_QUERY_LATEST_PAGE")
  /\ queues' = Rest
  /\ cursor' = ResultPage
  /\ Fetch(Page(db.results, 0, ResultPage))
  /\ history' = [history EXCEPT !.fetched = Page(db.results, 0, ResultPage), !.shown = {},
                                !.torn = ui.sending \/ ui.rows # {}]
  /\ UNCHANGED <<weld, globals, loading, naming, ext, db, work>>

\* QueryWeldResultNextPage advances the offset only when it found rows.
DataNextPage ==
  /\ Receives("WELD_RESULT_QUERY_NEXT_PAGE")
  /\ queues' = Rest
  /\ LET rows == Page(db.results, cursor, ResultPage)
     IN  /\ cursor' = IF rows = {} THEN cursor ELSE cursor + ResultPage
         /\ Fetch(rows)
         /\ history' = [history EXCEPT !.fetched = @ \cup rows,
                                       !.torn = @ \/ (ui.sending /\ rows # {})]
  /\ UNCHANGED <<weld, globals, loading, naming, ext, db, work>>

\* A page of the recipe or the alarm library moves the same offset; its rows
\* have a vector of their own.
DataOtherPage ==
  /\ Receives("QUERY_OTHER_PAGE")
  /\ queues' = Rest
  /\ cursor' \in {OtherPage, cursor, cursor + OtherPage}
  /\ history' = [history EXCEPT !.torn = TRUE]
  /\ UNCHANGED <<weld, globals, loading, naming, ui, ext, db, work>>

\* QueryWeldSignature puts the stored curve where the next one is measured;
\* without a row it leaves what is there.
DataHistoryCurve ==
  /\ Receives("READ_WELDRESULTHISTORY")
  /\ queues' = Rest
  /\ LET found == {s \in db.signatures : s.result = Arg}
     IN  IF found = {} THEN UNCHANGED <<globals, history>>
         ELSE /\ globals' = [globals EXCEPT !.curve = UNION {s.curve : s \in found}]
              /\ history' = [history EXCEPT !.disturbed = @ \cup Waiting \cup Current]
  /\ UNCHANGED <<weld, loading, naming, ui, ext, db, cursor, work>>

\* QueryWeldRecipeByName
DataQueryByName ==
  /\ Receives("WELD_RECIPE_QUERY_BY_NAME")
  /\ queues' = Rest
  /\ \E id \in IF NameTaken(db, Arg) THEN {r.id : r \in {r \in db.recipes : r.name = Arg}}
               ELSE {NoRow} :
       ext' = Append(ext, id)
  /\ UNCHANGED <<weld, globals, loading, naming, ui, db, cursor, work, history>>

Welding == WeldStart \/ WeldSample \/ WeldEnd \/ ControlRespond \/ ControlAlarm

UITask == \/ UIForward \/ UISetActive \/ UIClearCounter \/ UIInsertRecipe \/ UIDefaultRecipe
          \/ UISendRows \/ UIRowsSent

DataTask == \/ DataStoreResult \/ DataStoreSignature \/ DataStoreAlarm
            \/ DataUpdateActive \/ DataReadActive \/ DataAssignActive
            \/ DataAssignRecipe
            \/ DataStoreRecipe \/ DataDeleteRecipe
            \/ DataLatestPage \/ DataNextPage \/ DataOtherPage
            \/ DataHistoryCurve \/ DataQueryByName

Next == Welding \/ HmiRequest \/ UITask \/ ExtRecall \/ ExtAnswer \/ DataTask \/ Restart

Spec == Init /\ [][Next]_vars

-----------------------------------------------------------------------------
(* Properties.                                                             *)

\* The type invariant of the shared memory, the queues and the tables, with
\* what the schema enforces: a row refers to a row.
RecordsTypeOK ==
  /\ weld.phase \in {"rest", "sonics", "sampled", "answer", "alarm"}
  /\ weld.outcome \in {"good", "alarm", "preheight"}
  /\ \A name \in DOMAIN queues : Len(queues[name]) <= QueueMax
  /\ globals.cycle \in Nat /\ globals.edit \in Names
  /\ db \in Databases /\ Numbered(db) /\ Referring(db)
  /\ loading \subseteq [recipe : Nat, cycle : Nat] /\ naming \subseteq Nat

\* The signature stored for a weld is its own curve and hangs on its own
\* result (StoreWeldSignature takes both from globals), unless between the
\* weld and its storing the next weld began, a curve of the history was
\* loaded into the same vector, or the result was refused or lost.
SignatureOfWeld ==
  \A s \in db.signatures :
    s.owner \notin history.disturbed =>
      /\ s.curve = {s.owner}
      /\ \A r \in WithId(db.results, s.result) : r.weld = s.owner

\* An alarm of a weld is logged under the result of that weld, although the
\* state Alarm and the weld's answer send their messages apart, but for
\* the same disturbances.
AlarmOfWeld ==
  \A a \in db.alarms :
    a.weld \notin history.disturbed \cup {NoWeld} =>
      \A r \in WithId(db.results, a.result) : r.weld = a.weld

\* A result names the recipe the weld ran with, unless the active recipe was
\* loaded while the weld or its result was under way.
ResultNamesRecipe ==
  \A r \in db.results :
    r.weld \in DOMAIN history.ran \ (history.disturbed \cup history.reloaded) =>
      r.recipe = history.ran[r.weld]

\* The tables of results, signatures and alarms stay within their limits, but
\* for the deletions that SQLite refused: DeleteOldest is called by the ID, not
\* by the number of rows, and its outcome is ignored.
ResultsBounded ==
  /\ Cardinality(db.results) <= ResultLimit + history.kept["results"]
  /\ Cardinality(db.signatures) <= SignatureLimit + history.kept["signatures"]
  /\ Cardinality(db.alarms) <= ResultLimit + history.kept["alarms"]

\* The recipe last chosen, by the HMI or by a recall, is the active one of
\* the database once its message is handled, unless a weld or a reset of the
\* counter was answered with another recipe in memory, a recall waited in
\* the Request queue, or an update was refused or lost.
SelectionKept ==
  ActiveUpdates = {} /\ ~history.overridden =>
    \A a \in db.active : {a.recipe} = history.chosen

\* The count of the batch in memory is the one a loss of power leaves in the
\* database, once no update is under way, unless an update was refused or
\* lost, or the active recipe was never loaded.
CountPersisted ==
  ActiveUpdates = {} /\ ~history.unsaved =>
    \A a \in db.active : a.cycle = globals.cycle

\* The single row of ActiveRecipe goes only with the oldest recipe at the
\* limit: the request to delete the active recipe is refused.
ActiveRowKept == db.active = {} => db.recipeSeq >= RecipeLimit

\* UpdateActiveRecipe ("Update the unique record to ActiveRecipe") has a
\* record to update.
ActiveRecipeUnique == Cardinality(db.active) = 1

\* While the HMI pages through the results and nothing else moves them or
\* the shared offset, the pages it was sent are the newest results, without
\* a gap.
PagesComplete ==
  ~history.torn =>
    /\ history.fetched = Page(db.results, 0, cursor)
    /\ history.shown \subseteq history.fetched
    /\ history.fetched = history.shown \cup ui.rows
=============================================================================
