------------------------ MODULE RecordsHistory_proofs ------------------------
(***************************************************************************)
(* What the database says of the welds that were made, of the recipe that  *)
(* was chosen and of the results the HMI was sent, for every length of the *)
(* queues and pages, every limit of the tables and any number of welds,    *)
(* requests, faults and restarts.                                          *)
(***************************************************************************)
EXTENDS Records_proofs

LEMMA AlwaysShaped == Spec => []HistoryShaped
<1>1. Init => HistoryShaped
  BY DEF Init, HistoryShaped
<1>. QED BY <1>1, StepShaped, PTL DEF Spec

-----------------------------------------------------------------------------
(* The pages of the library of results.                                    *)

\* The rows that are being sent, and will be cleared, have been shown.
PagesInv ==
  /\ cursor \in Nat
  /\ ~history.torn /\ ui.sending => ui.rows \subseteq history.shown
  /\ PagesComplete

\* The next page begins where the last one ended.
LEMMA PageJoined ==
  ASSUME NEW rows, NEW n \in Nat, NEW size \in Nat \ {0}
  PROVE  Page(rows, 0, n) \cup Page(rows, n, size) = Page(rows, 0, n + size)
<1>1. \A k : k \in 0 .. (n + size - 1) <=> k \in 0 .. (n - 1) \/ k \in n .. (n + size - 1)
  OBVIOUS
<1>. DEFINE Rows(first, length) == {r \in rows : Offset(r, rows) \in first .. (first + length - 1)}
<1>2. Rows(0, n + size) = Rows(0, n) \cup Rows(n, size)
  <2>1. 0 + (n + size) - 1 = n + size - 1 /\ 0 + n - 1 = n - 1
    OBVIOUS
  <2>. QED BY <1>1, <2>1
<1>3. \A first, length : Page(rows, first, length) = {row.id : row \in Rows(first, length)}
  BY DEF Page
<1>. HIDE DEF Rows
<1>. QED BY <1>2, <1>3

\* A step that leaves the results, the cursor and the rows, and what was
\* fetched and shown of them.
PagesKept == /\ db'.results = db.results /\ cursor' = cursor
             /\ ui'.rows = ui.rows /\ ui'.sending = ui.sending
             /\ history'.fetched = history.fetched /\ history'.shown = history.shown
             /\ history.torn => history'.torn

LEMMA OthersPages ==
  ASSUME Typed, HistoryShaped,
         Welding \/ HmiRequest \/ ExtRecall \/ ExtAnswer \/ UNCHANGED vars
           \/ UIForward \/ UISetActive \/ UIClearCounter \/ UIInsertRecipe \/ UIDefaultRecipe
  PROVE  PagesKept
<1>. USE DEF PagesKept, Typed, UITyped, HistoryShaped
<1>1. CASE WeldStart
  BY <1>1 DEF WeldStart
<1>2. CASE WeldSample \/ WeldEnd \/ ControlAlarm
  BY <1>2 DEF WeldSample, WeldEnd, ControlAlarm
<1>3. CASE ControlRespond
  BY <1>3 DEF ControlRespond
<1>4. CASE HmiRequest \/ ExtRecall \/ UNCHANGED vars
  BY <1>4 DEF HmiRequest, ExtRecall, vars
<1>5. CASE ExtAnswer
  BY <1>5 DEF ExtAnswer
<1>6. CASE UIForward \/ UIInsertRecipe \/ UIDefaultRecipe
  BY <1>6 DEF UIForward, UIInsertRecipe, UIDefaultRecipe, UIRest
<1>7. CASE UISetActive
  BY <1>7 DEF UISetActive, UIRest
<1>8. CASE UIClearCounter
  BY <1>8 DEF UIClearCounter, UIRest
<1>. QED BY <1>1, <1>2, <1>3, <1>4, <1>5, <1>6, <1>7, <1>8 DEF Welding

LEMMA DataPages ==
  ASSUME Typed, HistoryShaped, DataTask, ~DataLatestPage, ~DataNextPage
  PROVE  \/ PagesKept
         \/ history'.torn /\ cursor' \in {cursor, OtherPage, cursor + OtherPage}
<1>. USE DEF PagesKept, HistoryShaped
<1>1. CASE DataStoreResult
  <2>1. PICK fault \in Faults :
          /\ db' = StoreWeldResult(db, [weld |-> globals.values, recipe |-> globals.recipe,
                                        cycle |-> globals.cycle],
                                   fault # "insert", fault # "delete")
          /\ history' = [history EXCEPT
               !.disturbed = IF fault = "insert" THEN @ \cup {Arg} ELSE @,
               !.kept = Kept("results", fault = "delete" /\ ResultsFull(db)),
               !.torn = @ \/ fault # "insert"]
    BY <1>1 DEF DataStoreResult
  <2>2. UNCHANGED <<ui, cursor>>
    BY <1>1 DEF DataStoreResult
  <2>3. CASE fault = "insert"
    <3>1. db' = db
      BY <2>1, <2>3, Zenon DEF StoreWeldResult
    <3>. QED BY <2>1, <2>2, <2>3, <3>1
  <2>4. CASE fault # "insert"
    BY <2>1, <2>2, <2>4
  <2>. QED BY <2>3, <2>4
<1>2. CASE DataStoreSignature
  BY <1>2, SignatureStep DEF DataStoreSignature
<1>3. CASE DataStoreAlarm
  BY <1>3, AlarmStep DEF DataStoreAlarm
<1>4. CASE DataUpdateActive
  <2>1. db'.results = db.results
    BY <1>4, UpdateStep DEF TablesKept
  <2>. QED BY <1>4, <2>1 DEF DataUpdateActive
<1>5. CASE DataStoreRecipe \/ DataDeleteRecipe
  <2>1. db'.results = db.results
    BY <1>5, StoreRecipeStep, DeleteStep DEF TablesKept
  <2>. QED BY <1>5, <2>1 DEF DataStoreRecipe, DataDeleteRecipe
<1>6. CASE DataReadActive \/ DataQueryByName
  BY <1>6 DEF DataReadActive, DataQueryByName
<1>7. CASE DataAssignActive \/ DataAssignRecipe
  BY <1>7 DEF DataAssignActive, DataAssignRecipe
<1>8. CASE DataHistoryCurve
  BY <1>8 DEF DataHistoryCurve
<1>9. CASE DataOtherPage
  BY <1>9 DEF DataOtherPage
<1>. QED BY <1>1, <1>2, <1>3, <1>4, <1>5, <1>6, <1>7, <1>8, <1>9 DEF DataTask

\* The property of the run `records': the offset of the next page and the
\* vector of rows are shared by three tasks, and as long as nothing else moves
\* them the HMI has been sent, or is still to be sent, each of the newest
\* results.
THEOREM PagesStayComplete == Spec => []PagesComplete
<1>1. ASSUME Init PROVE PagesInv
  BY <1>1 DEF Init, PagesInv, PagesComplete
<1>2. ASSUME Typed, HistoryShaped, PagesInv, [Next]_vars
      PROVE  PagesInv'
  <2>. USE DEF PagesInv, PagesComplete
  <2>0. HistoryShaped'
    BY <1>2, StepShaped
  <2>1. CASE PagesKept
    BY <1>2, <2>1 DEF PagesKept
  <2>2. CASE history'.torn /\ cursor' \in {cursor, OtherPage, cursor + OtherPage, 0}
    BY <1>2, <2>2, RecordsAssumption
  <2>3. CASE UISendRows
    <3>1. /\ UNCHANGED <<db, cursor>>
          /\ ui'.rows = ui.rows /\ history'.fetched = history.fetched
          /\ history'.torn = history.torn /\ history'.shown = history.shown \cup ui.rows
      BY <1>2, <2>3 DEF UISendRows, UIRest, HistoryShaped, Typed, UITyped
    <3>. QED BY <1>2, <3>1
  <2>4. CASE UIRowsSent
    <3>1. /\ UNCHANGED <<db, cursor, history>> /\ ui.sending
          /\ ui'.rows = {} /\ ui'.sending = FALSE
      BY <1>2, <2>4 DEF UIRowsSent, Typed, UITyped
    <3>. QED BY <1>2, <3>1
  <2>5. CASE DataLatestPage
    <3>. DEFINE rows == Page(db.results, 0, ResultPage)
    <3>1. /\ UNCHANGED db /\ cursor' = ResultPage
          /\ history'.fetched = rows /\ history'.shown = {}
          /\ history'.torn = (ui.sending \/ ui.rows # {})
      BY <1>2, <2>5 DEF DataLatestPage, HistoryShaped
    <3>2. ui'.rows = ui.rows \cup rows /\ ui'.sending = ui.sending
      BY <1>2, <2>5 DEF DataLatestPage, Fetch, Typed, UITyped
    <3>. HIDE DEF rows
    <3>3. PagesComplete'
      BY <3>1, <3>2 DEF rows
    <3>. QED BY <3>1, <3>2, <3>3, RecordsAssumption
  <2>6. CASE DataNextPage
    <3>. DEFINE rows == Page(db.results, cursor, ResultPage)
    <3>1. /\ UNCHANGED db
          /\ cursor' = IF rows = {} THEN cursor ELSE cursor + ResultPage
          /\ history'.fetched = history.fetched \cup rows /\ history'.shown = history.shown
          /\ history'.torn = (history.torn \/ (ui.sending /\ rows # {}))
      BY <1>2, <2>6 DEF DataNextPage, HistoryShaped
    <3>2. ui'.rows = ui.rows \cup rows /\ ui'.sending = ui.sending
      BY <1>2, <2>6 DEF DataNextPage, Fetch, Typed, UITyped
    <3>3. Page(db.results, 0, cursor) \cup rows = Page(db.results, 0, cursor + ResultPage)
      <4>1. cursor \in Nat /\ ResultPage \in Nat \ {0}
        BY <1>2, RecordsAssumption
      <4>. QED BY <4>1, PageJoined
    <3>. HIDE DEF rows
    <3>4. CASE rows = {}
      BY <1>2, <3>1, <3>2, <3>4
    <3>5. CASE rows # {}
      <4>1. cursor' \in Nat
        BY <1>2, <3>1, <3>5, RecordsAssumption
      <4>2. cursor' = cursor + ResultPage /\ db' = db
        BY <3>1, <3>5
      <4>. QED BY <1>2, <3>1, <3>2, <3>3, <3>5, <4>1, <4>2
    <3>. QED BY <3>4, <3>5
  <2>7. Restart => history'.torn /\ cursor' = 0
    BY <1>2 DEF Restart, HistoryShaped
  <2>. QED BY <1>2, <2>1, <2>2, <2>3, <2>4, <2>5, <2>6, <2>7, OthersPages, DataPages
           DEF Next, UITask
<1>. QED BY <1>1, <1>2, AlwaysTyped, AlwaysShaped, PTL DEF Spec, PagesInv

-----------------------------------------------------------------------------
(* The recipe that was chosen.                                             *)

Updates(q) == {i \in DOMAIN q : q[i].id = "ACTIVE_RECIPE_UPDATE"}

\* The last update of the active recipe that waits in a queue, if any does,
\* is for this recipe.
LastUpdate(q, recipes) ==
  \A i \in Updates(q) : (\A j \in Updates(q) : j <= i) => {q[i].arg} = recipes

\* Control is drained before Data before Request: the update that is handled
\* last is for the recipe that was chosen last.
SelectionInv ==
  ~history.overridden =>
    /\ LastUpdate(queues["Request"], history.chosen)
    /\ Updates(queues["Request"]) = {} => LastUpdate(queues["Data"], history.chosen)
    /\ Updates(queues["Request"]) = {} /\ Updates(queues["Data"]) = {} =>
         LastUpdate(queues["Control"], history.chosen)

LEMMA NoUpdates == ActiveUpdates = {} <=> \A name \in QueueNames : Updates(queues[name]) = {}
<1>1. ASSUME NEW name \in QueueNames
      PROVE  Updates(queues[name]) = {}
               <=> \A m \in InQueue(queues[name]) : m.id # "ACTIVE_RECIPE_UPDATE"
  BY DEF Updates, InQueue
<1>2. ActiveUpdates = {} <=> \A m \in Queued : m.id # "ACTIVE_RECIPE_UPDATE"
  BY DEF ActiveUpdates
<1>3. (\A m \in Queued : m.id # "ACTIVE_RECIPE_UPDATE")
        <=> \A name \in QueueNames : \A m \in InQueue(queues[name]) :
              m.id # "ACTIVE_RECIPE_UPDATE"
  BY DEF Queued
<1>. QED BY <1>1, <1>2, <1>3

LEMMA UpdateAppended ==
  ASSUME NEW S, NEW q \in Seq(S), NEW m \in S, NEW recipes
  PROVE  LET r == Append(q, m)
         IN  /\ m.id # "ACTIVE_RECIPE_UPDATE" =>
                  /\ Updates(r) = Updates(q)
                  /\ LastUpdate(q, recipes) => LastUpdate(r, recipes)
             /\ m.id = "ACTIVE_RECIPE_UPDATE" =>
                  /\ Updates(r) # {}
                  /\ {m.arg} = recipes => LastUpdate(r, recipes)
<1>. DEFINE r == Append(q, m)
<1>1. /\ DOMAIN q = 1 .. Len(q) /\ DOMAIN r = 1 .. (Len(q) + 1) /\ Len(q) \in Nat
      /\ \A i \in 1 .. Len(q) : r[i] = q[i]
      /\ r[Len(q) + 1] = m
  OBVIOUS
<1>. HIDE DEF r
<1>2. ASSUME m.id # "ACTIVE_RECIPE_UPDATE"
      PROVE  Updates(r) = Updates(q)
  BY <1>1, <1>2 DEF Updates
<1>3. ASSUME m.id # "ACTIVE_RECIPE_UPDATE", LastUpdate(q, recipes)
      PROVE  LastUpdate(r, recipes)
  BY <1>1, <1>2, <1>3 DEF LastUpdate, Updates
<1>4. ASSUME m.id = "ACTIVE_RECIPE_UPDATE"
      PROVE  /\ Len(q) + 1 \in Updates(r)
             /\ \A i \in Updates(r) : i <= Len(q) + 1 /\ i \in Int
  BY <1>1, <1>4 DEF Updates
<1>5. ASSUME m.id = "ACTIVE_RECIPE_UPDATE", {m.arg} = recipes
      PROVE  LastUpdate(r, recipes)
  <2>1. \A i \in Updates(r) : (\A j \in Updates(r) : j <= i) => i = Len(q) + 1
    BY <1>1, <1>4, <1>5
  <2>. QED BY <1>1, <1>5, <2>1 DEF LastUpdate
<1>. QED BY <1>2, <1>3, <1>4, <1>5 DEF r

LEMMA UpdateTaken ==
  ASSUME NEW S, NEW q \in Seq(S), q # <<>>, NEW recipes
  PROVE  /\ LastUpdate(q, recipes) => LastUpdate(Tail(q), recipes)
         /\ Head(q).id # "ACTIVE_RECIPE_UPDATE" /\ Updates(Tail(q)) = {} => Updates(q) = {}
         /\ Head(q).id = "ACTIVE_RECIPE_UPDATE" /\ Updates(Tail(q)) = {}
              /\ LastUpdate(q, recipes) => {Head(q).arg} = recipes
<1>. DEFINE r == Tail(q)
<1>1. /\ Len(q) \in Nat /\ Len(q) # 0
      /\ DOMAIN q = 1 .. Len(q) /\ DOMAIN r = 1 .. (Len(q) - 1)
      /\ \A i \in 1 .. (Len(q) - 1) : r[i] = q[i + 1]
      /\ Head(q) = q[1]
  OBVIOUS
<1>. HIDE DEF r
<1>2. \A i \in 1 .. (Len(q) - 1) : i \in Updates(r) <=> i + 1 \in Updates(q)
  BY <1>1 DEF Updates
<1>3. Updates(r) \subseteq 1 .. (Len(q) - 1) /\ Updates(q) \subseteq 1 .. Len(q)
  BY <1>1 DEF Updates
<1>4. \A i \in 1 .. Len(q) : i = 1 \/ (i - 1 \in 1 .. (Len(q) - 1) /\ (i - 1) + 1 = i)
  BY <1>1
<1>5. \A i \in Updates(q) : i = 1 \/ i - 1 \in Updates(r)
  BY <1>2, <1>3, <1>4
<1>6. ASSUME LastUpdate(q, recipes), NEW i \in Updates(r), \A j \in Updates(r) : j <= i
      PROVE  {r[i].arg} = recipes
  <2>1. i \in 1 .. (Len(q) - 1) /\ i + 1 \in Updates(q)
    BY <1>2, <1>3
  <2>2. \A j \in Updates(q) : j <= i + 1
    BY <1>1, <1>3, <1>5, <1>6, <2>1
  <2>. QED BY <1>1, <1>6, <2>1, <2>2 DEF LastUpdate
<1>7. ASSUME Head(q).id # "ACTIVE_RECIPE_UPDATE", Updates(r) = {}
      PROVE  Updates(q) = {}
  <2>1. 1 \notin Updates(q)
    BY <1>1, <1>7 DEF Updates
  <2>. QED BY <1>5, <1>7, <2>1
<1>8. ASSUME Head(q).id = "ACTIVE_RECIPE_UPDATE", Updates(r) = {}, LastUpdate(q, recipes)
      PROVE  {Head(q).arg} = recipes
  <2>1. 1 \in Updates(q)
    BY <1>1, <1>8 DEF Updates
  <2>2. \A j \in Updates(q) : j <= 1
    BY <1>5, <1>8
  <2>. QED BY <1>1, <1>8, <2>1, <2>2 DEF LastUpdate
<1>9. LastUpdate(q, recipes) => LastUpdate(r, recipes)
  BY <1>6 DEF LastUpdate
<1>. QED BY <1>7, <1>8, <1>9 DEF r

\* A queue that still holds its updates, or has one more for the recipe that
\* was chosen.
UpdatesKept(q, r) ==
  /\ Updates(r) = {} => Updates(q) = {}
  /\ LastUpdate(q, history.chosen) => LastUpdate(r, history.chosen)

LEMMA SentKept ==
  ASSUME NEW S, NEW q \in Seq(S), NEW m \in S,
         m.id = "ACTIVE_RECIPE_UPDATE" => {m.arg} = history.chosen
  PROVE  UpdatesKept(q, Send(q, m))
<1>1. CASE Fits(q)
  <2>1. Send(q, m) = Append(q, m)
    BY <1>1 DEF Send
  <2>2. CASE m.id = "ACTIVE_RECIPE_UPDATE"
    BY <2>1, <2>2, UpdateAppended DEF UpdatesKept
  <2>3. CASE m.id # "ACTIVE_RECIPE_UPDATE"
    BY <2>1, <2>3, UpdateAppended DEF UpdatesKept
  <2>. QED BY <2>2, <2>3
<1>2. CASE ~Fits(q)
  BY <1>2 DEF Send, UpdatesKept
<1>. QED BY <1>1, <1>2

SelectionUntouched ==
  /\ history'.chosen = history.chosen /\ (history.overridden => history'.overridden)
  /\ \A name \in QueueNames : UpdatesKept(queues[name], queues'[name])
  /\ db'.active \subseteq db.active

LEMMA SelectionStays ==
  ASSUME SelectionInv, SelectionKept, SelectionUntouched PROVE SelectionInv' /\ SelectionKept'
<1>1. "Request" \in QueueNames /\ "Data" \in QueueNames /\ "Control" \in QueueNames
  BY DEF QueueNames
<1>2. SelectionInv'
  BY <1>1 DEF SelectionInv, SelectionUntouched, UpdatesKept
<1>3. ActiveUpdates' = {} => ActiveUpdates = {}
  <2>1. ActiveUpdates' = {} => \A name \in QueueNames : Updates(queues'[name]) = {}
    <3>1. (ActiveUpdates = {} <=> \A name \in QueueNames : Updates(queues[name]) = {})'
      BY NoUpdates, PTL
    <3>. QED BY <3>1 DEF Updates
  <2>. QED BY <2>1, NoUpdates DEF SelectionUntouched, UpdatesKept
<1>. QED BY <1>2, <1>3 DEF SelectionKept, SelectionUntouched

LEMMA AllSentKept ==
  ASSUME QueuesTyped, NEW name \in QueueNames, NEW m \in DataMessages,
         m.id = "ACTIVE_RECIPE_UPDATE" => {m.arg} = history.chosen,
         queues' = [queues EXCEPT ![name] = Send(@, m)]
  PROVE  \A other \in QueueNames : UpdatesKept(queues[other], queues'[other])
<1>1. UpdatesKept(queues[name], Send(queues[name], m))
  BY SentKept DEF QueuesTyped
<1>2. \A q : UpdatesKept(q, q)
  BY DEF UpdatesKept
<1>3. /\ queues'[name] = Send(queues[name], m)
      /\ \A other \in QueueNames \ {name} : queues'[other] = queues[other]
  BY DEF QueuesTyped
<1>. QED BY <1>1, <1>2, <1>3

LEMMA AllTakenKept ==
  ASSUME QueuesTyped, NEW id, id # "ACTIVE_RECIPE_UPDATE", Receives(id), queues' = Rest
  PROVE  \A other \in QueueNames : UpdatesKept(queues[other], queues'[other])
<1>. DEFINE q == queues[Source]
<1>1. Source \in QueueNames
  BY DEF Source, QueueNames
<1>2. q \in Seq(DataMessages) /\ q # <<>> /\ Head(q).id # "ACTIVE_RECIPE_UPDATE"
  BY <1>1 DEF QueuesTyped, Receives
<1>3. UpdatesKept(q, Tail(q))
  BY <1>2, UpdateTaken DEF UpdatesKept
<1>4. \A r : UpdatesKept(r, r)
  BY DEF UpdatesKept
<1>5. /\ queues'[Source] = Tail(q)
      /\ \A other \in QueueNames \ {Source} : queues'[other] = queues[other]
  BY <1>1 DEF QueuesTyped, Rest
<1>. QED BY <1>3, <1>4, <1>5

\* The same queues.
LEMMA SameKept == UNCHANGED queues =>
                    \A name \in QueueNames : UpdatesKept(queues[name], queues'[name])
BY DEF UpdatesKept

LEMMA WeldingSelects ==
  ASSUME Typed, HistoryShaped, Welding PROVE SelectionUntouched \/ history'.overridden
<1>. USE DEF SelectionUntouched
<1>1. CASE WeldStart
  BY <1>1, SameKept DEF WeldStart, HistoryShaped
<1>2. CASE WeldSample \/ WeldEnd
  BY <1>2, SameKept DEF WeldSample, WeldEnd
<1>3. CASE ControlRespond
  <2>1. CASE weld.outcome = "preheight"
    BY <1>3, <2>1, SameKept DEF ControlRespond
  <2>2. CASE weld.outcome # "preheight"
    <3>1. /\ queues' = SendAnswers /\ db' = db /\ history'.chosen = history.chosen
          /\ history'.overridden = (history.overridden \/ {globals.recipeId} # history.chosen)
      BY <1>3, <2>2 DEF ControlRespond, HistoryShaped
    <3>2. CASE {globals.recipeId} = history.chosen
      <4>. DEFINE q == queues["Control"]
                  q1 == Send(q, Answers[1])
                  q2 == Send(q1, Answers[2])
                  q3 == Send(q2, Answers[3])
      <4>1. q \in Seq(DataMessages) /\ Len(q) <= QueueMax
        BY DEF Typed, QueuesTyped, QueueNames
      <4>2. /\ Answers[1] \in DataMessages /\ Answers[2] \in DataMessages
            /\ Answers[3] \in DataMessages
            /\ Answers[1].id # "ACTIVE_RECIPE_UPDATE" /\ Answers[2].id # "ACTIVE_RECIPE_UPDATE"
            /\ {Answers[3].arg} = history.chosen
        BY <3>2 DEF Answers, Msg, DataMessages, NumberMessages, Typed, WeldTyped, GlobalsTyped
      <4>3. q1 \in Seq(DataMessages) /\ Len(q1) <= QueueMax /\ UpdatesKept(q, q1)
        BY <4>1, <4>2, Sent, SentKept
      <4>. HIDE DEF q1
      <4>4. q2 \in Seq(DataMessages) /\ Len(q2) <= QueueMax /\ UpdatesKept(q1, q2)
        <5>1. UpdatesKept(q1, q2)
          BY <4>2, <4>3, SentKept
        <5>. QED BY <4>2, <4>3, <5>1, Sent
      <4>. HIDE DEF q2
      <4>5. UpdatesKept(q2, q3)
        BY <4>2, <4>4, Sent, SentKept
      <4>6. UpdatesKept(q, q3)
        BY <4>3, <4>4, <4>5 DEF UpdatesKept
      <4>7. /\ queues'["Control"] = q3
            /\ \A name \in QueueNames \ {"Control"} : queues'[name] = queues[name]
        BY <3>1 DEF SendAnswers, Typed, QueuesTyped, QueueNames, q1, q2
      <4>. QED BY <3>1, <4>6, <4>7 DEF UpdatesKept
    <3>. QED BY <3>1, <3>2
  <2>. QED BY <2>1, <2>2
<1>4. CASE ControlAlarm
  <2>. DEFINE m == Msg("ALARM_LOG_INSERT", IF weld.outcome = "alarm" THEN weld.number ELSE NoWeld)
  <2>1. m \in DataMessages /\ "Control" \in QueueNames /\ m.id # "ACTIVE_RECIPE_UPDATE"
    BY DEF Msg, DataMessages, NumberMessages, Typed, WeldTyped, NoWeld, QueueNames
  <2>2. /\ queues' = [queues EXCEPT !["Control"] = Send(@, m)]
        /\ UNCHANGED <<db, history>>
    BY <1>4 DEF ControlAlarm
  <2>. HIDE DEF m
  <2>. QED BY <2>1, <2>2, AllSentKept DEF Typed
<1>. QED BY <1>1, <1>2, <1>3, <1>4 DEF Welding

LEMMA UISelects ==
  ASSUME Typed, HistoryShaped, UITask, SelectionInv, SelectionKept
  PROVE  SelectionUntouched \/ history'.overridden \/ (SelectionInv' /\ SelectionKept')
<1>. USE DEF Typed
<1>1. CASE UIForward
  <2>1. PICK id \in DOMAIN Forwarded :
          /\ UIReceives(id)
          /\ queues' = [queues EXCEPT !["Data"] = Send(@, Msg(Forwarded[id], UIArg))]
    BY <1>1 DEF UIForward
  <2>2. /\ Msg(Forwarded[id], UIArg) \in DataMessages /\ "Data" \in QueueNames
        /\ Msg(Forwarded[id], UIArg).id # "ACTIVE_RECIPE_UPDATE"
    <3>1. /\ UIArg \in Nat /\ Forwarded[id] \in NumberMessages
          /\ Forwarded[id] # "ACTIVE_RECIPE_UPDATE"
      BY <2>1, UIReceived DEF UIArg, UIMessages, Forwarded, NumberMessages
    <3>. QED BY <3>1 DEF Msg, DataMessages, QueueNames
  <2>3. \A name \in QueueNames : UpdatesKept(queues[name], queues'[name])
    BY <2>1, <2>2, AllSentKept
  <2>. QED BY <1>1, <2>3 DEF UIForward, SelectionUntouched
<1>2. CASE UISetActive
  <2>. DEFINE m == Msg("ACTIVE_RECIPE_UPDATE", UIArg)
              q == queues["Data"]
  <2>1. /\ m \in DataMessages /\ "Data" \in QueueNames /\ m.id = "ACTIVE_RECIPE_UPDATE"
        /\ m.arg = UIArg
    <3>1. UIArg \in Nat
      BY <1>2, UIReceived DEF UISetActive, UIArg, UIMessages
    <3>. QED BY <3>1 DEF Msg, DataMessages, NumberMessages, QueueNames
  <2>2. /\ queues' = [queues EXCEPT !["Data"] = Send(@, m)] /\ db' = db
        /\ history'.chosen = IF Fits(q) THEN {UIArg} ELSE history.chosen
        /\ history'.overridden =
             IF Fits(q) THEN \E n \in InQueue(queues["Request"]) : n.id = "ACTIVE_RECIPE_UPDATE"
             ELSE history.overridden
    BY <1>2 DEF UISetActive, HistoryShaped
  <2>. HIDE DEF m
  <2>3. CASE ~Fits(q)
    <3>1. queues' = queues
      BY <2>2, <2>3 DEF Send, QueuesTyped
    <3>. QED BY <2>2, <2>3, <3>1, SameKept DEF SelectionUntouched
  <2>4. CASE Fits(q) /\ ~history'.overridden
    <3>1. /\ queues'["Request"] = queues["Request"] /\ queues'["Data"] = Append(q, m)
          /\ q \in Seq(DataMessages)
      BY <2>2, <2>4 DEF Send, QueuesTyped, QueueNames
    <3>2. Updates(queues'["Request"]) = {}
      BY <2>2, <2>4, <3>1 DEF Updates, InQueue
    <3>3. Updates(queues'["Data"]) # {} /\ LastUpdate(queues'["Data"], history'.chosen)
      <4>1. {m.arg} = history'.chosen
        BY <2>1, <2>2, <2>4
      <4>2. Updates(Append(q, m)) # {} /\ LastUpdate(Append(q, m), history'.chosen)
        BY <2>1, <3>1, <4>1, UpdateAppended
      <4>. QED BY <3>1, <4>2
    <3>4. SelectionInv'
      BY <3>2, <3>3 DEF SelectionInv, LastUpdate
    <3>5. m \in Queued'
      BY <2>1, <2>2, <2>4, SentTo
    <3>6. SelectionKept'
      BY <2>1, <3>5 DEF SelectionKept, ActiveUpdates
    <3>. QED BY <3>4, <3>6
  <2>. QED BY <2>3, <2>4
<1>3. CASE UIClearCounter
  <2>. DEFINE m == Msg("ACTIVE_RECIPE_UPDATE", globals.recipeId)
  <2>1. m \in DataMessages /\ "Data" \in QueueNames /\ m.arg = globals.recipeId
    BY DEF Msg, DataMessages, NumberMessages, QueueNames, GlobalsTyped
  <2>2. /\ queues' = [queues EXCEPT !["Data"] = Send(@, m)] /\ db' = db
        /\ history'.chosen = history.chosen
        /\ history'.overridden = (history.overridden \/ {globals.recipeId} # history.chosen)
    BY <1>3 DEF UIClearCounter, HistoryShaped
  <2>. HIDE DEF m
  <2>. QED BY <2>1, <2>2, AllSentKept DEF SelectionUntouched
<1>4. CASE UIInsertRecipe
  <2>1. /\ Msg("WELD_RECIPE_INSERT", UIArg) \in DataMessages /\ "Data" \in QueueNames
        /\ Msg("WELD_RECIPE_INSERT", UIArg).id # "ACTIVE_RECIPE_UPDATE"
    <3>1. UIArg \in Names
      BY <1>4, UIReceived DEF UIInsertRecipe, UIArg, UIMessages
    <3>. QED BY <3>1 DEF Msg, DataMessages, NameMessages, QueueNames
  <2>2. \A name \in QueueNames : UpdatesKept(queues[name], queues'[name])
    BY <1>4, <2>1, AllSentKept DEF UIInsertRecipe
  <2>. QED BY <1>4, <2>2 DEF UIInsertRecipe, SelectionUntouched
<1>5. CASE UIDefaultRecipe \/ UIRowsSent
  BY <1>5, SameKept DEF UIDefaultRecipe, UIRowsSent, SelectionUntouched
<1>6. CASE UISendRows
  BY <1>6, SameKept DEF UISendRows, SelectionUntouched, HistoryShaped
<1>. QED BY <1>1, <1>2, <1>3, <1>4, <1>5, <1>6 DEF UITask

LEMMA ExternalSelects ==
  ASSUME Typed, HistoryShaped, ExtRecall \/ ExtAnswer, SelectionInv, SelectionKept
  PROVE  SelectionUntouched \/ history'.overridden \/ (SelectionInv' /\ SelectionKept')
<1>. USE DEF Typed
<1>1. CASE ExtRecall
  <2>1. PICK name \in Names :
          queues' = [queues EXCEPT !["Request"] = Send(@, Msg("WELD_RECIPE_QUERY_BY_NAME", name))]
    BY <1>1 DEF ExtRecall
  <2>2. /\ Msg("WELD_RECIPE_QUERY_BY_NAME", name) \in DataMessages
        /\ "Request" \in QueueNames
        /\ Msg("WELD_RECIPE_QUERY_BY_NAME", name).id # "ACTIVE_RECIPE_UPDATE"
    BY DEF Msg, DataMessages, NameMessages, QueueNames
  <2>3. \A other \in QueueNames : UpdatesKept(queues[other], queues'[other])
    BY <2>1, <2>2, AllSentKept
  <2>. QED BY <1>1, <2>3 DEF ExtRecall, SelectionUntouched
<1>2. CASE ExtAnswer /\ UNCHANGED <<queues, history>>
  BY <1>2, SameKept DEF ExtAnswer, SelectionUntouched
<1>3. CASE ExtAnswer /\ ~UNCHANGED <<queues, history>>
  <2>. DEFINE m == Msg("ACTIVE_RECIPE_UPDATE", Head(ext))
              q == queues["Request"]
  <2>1. /\ m \in DataMessages /\ "Request" \in QueueNames /\ m.id = "ACTIVE_RECIPE_UPDATE"
        /\ m.arg = Head(ext)
    BY <1>3 DEF Msg, DataMessages, NumberMessages, QueueNames, ExtAnswer, ExtTyped
  <2>2. /\ queues' = [queues EXCEPT !["Request"] = Send(@, m)]
        /\ history'.chosen = IF Fits(q) THEN {Head(ext)} ELSE history.chosen
        /\ history'.overridden = IF Fits(q) THEN FALSE ELSE TRUE
    BY <1>3 DEF ExtAnswer, HistoryShaped
  <2>. HIDE DEF m
  <2>3. CASE Fits(q)
    <3>1. queues'["Request"] = Append(q, m) /\ q \in Seq(DataMessages)
      BY <2>2, <2>3 DEF Send, QueuesTyped, QueueNames
    <3>2. Updates(queues'["Request"]) # {} /\ LastUpdate(queues'["Request"], history'.chosen)
      <4>1. {m.arg} = history'.chosen
        BY <2>1, <2>2, <2>3
      <4>2. Updates(Append(q, m)) # {} /\ LastUpdate(Append(q, m), history'.chosen)
        BY <2>1, <3>1, <4>1, UpdateAppended
      <4>. QED BY <3>1, <4>2
    <3>3. SelectionInv'
      BY <3>2 DEF SelectionInv, LastUpdate
    <3>4. m \in Queued'
      BY <2>1, <2>2, <2>3, SentTo
    <3>5. SelectionKept'
      BY <2>1, <3>4 DEF SelectionKept, ActiveUpdates
    <3>. QED BY <3>3, <3>5
  <2>. QED BY <2>2, <2>3
<1>. QED BY <1>2, <1>3, <1>1

LEMMA DataSelects ==
  ASSUME Typed, HistoryShaped, DataTask, SelectionInv, SelectionKept
  PROVE  SelectionUntouched \/ history'.overridden \/ (SelectionInv' /\ SelectionKept')
<1>. USE DEF Typed
<1>. DEFINE Taken == \A name \in QueueNames : UpdatesKept(queues[name], queues'[name])
<1>1. CASE DataStoreResult
  <2>1. Taken /\ db'.active = db.active
    BY <1>1, AllTakenKept, ResultStep DEF DataStoreResult, RecipesKept
  <2>2. history'.chosen = history.chosen /\ history'.overridden = history.overridden
    BY <1>1 DEF DataStoreResult, HistoryShaped
  <2>. QED BY <2>1, <2>2 DEF SelectionUntouched
<1>2. CASE DataStoreSignature
  <2>1. Taken /\ db'.active = db.active
    BY <1>2, AllTakenKept, SignatureStep DEF DataStoreSignature, RecipesKept
  <2>2. history'.chosen = history.chosen /\ history'.overridden = history.overridden
    BY <1>2 DEF DataStoreSignature, HistoryShaped
  <2>. QED BY <2>1, <2>2 DEF SelectionUntouched
<1>3. CASE DataStoreAlarm
  <2>1. Taken /\ db'.active = db.active
    BY <1>3, AllTakenKept, AlarmStep DEF DataStoreAlarm, RecipesKept
  <2>2. history'.chosen = history.chosen /\ history'.overridden = history.overridden
    BY <1>3 DEF DataStoreAlarm, HistoryShaped
  <2>. QED BY <2>1, <2>2 DEF SelectionUntouched
<1>4. CASE DataUpdateActive
  <2>. DEFINE q == queues[Source]
  <2>1. PICK fault \in Faults \ {"delete"} :
          /\ db' = UpdateActiveRecipe(db, Arg, globals.cycle, fault # "insert")
          /\ LET failed == fault = "insert" \/ ~ActiveUpdatable(db, Arg)
             IN  history' = [history EXCEPT !.unsaved = failed, !.overridden = @ \/ failed]
    BY <1>4 DEF DataUpdateActive
  <2>2. /\ Source \in QueueNames /\ q \in Seq(DataMessages) /\ q # <<>>
        /\ Head(q).id = "ACTIVE_RECIPE_UPDATE" /\ Arg = Head(q).arg
        /\ queues'[Source] = Tail(q)
        /\ \A other \in QueueNames \ {Source} : queues'[other] = queues[other]
    BY <1>4 DEF DataUpdateActive, Receives, Source, QueueNames, QueuesTyped, Rest, Arg
  <2>. HIDE DEF q
  <2>3. CASE ~history'.overridden
    <3>1. /\ ~history.overridden /\ history'.chosen = history.chosen
          /\ fault # "insert" /\ ActiveUpdatable(db, Arg)
      BY <2>1, <2>3 DEF HistoryShaped
    <3>2. \A name \in QueueNames :
            LastUpdate(queues[name], history.chosen) => LastUpdate(queues'[name], history.chosen)
      BY <2>2, UpdateTaken DEF q
    <3>3. Updates(queues["Control"]) # {} => Source = "Control"
      BY DEF Source, Updates
    <3>4. Source = "Request" => queues["Data"] = <<>> /\ queues["Control"] = <<>>
      BY DEF Source
    <3>5. Source = "Data" => queues["Control"] = <<>>
      BY DEF Source
    <3>6. Updates(<<>>) = {}
      BY DEF Updates
    <3>7. LastUpdate(<<>>, history.chosen)
      BY <3>6 DEF LastUpdate
    <3>8. SelectionInv'
      BY <2>2, <3>1, <3>2, <3>4, <3>5, <3>7 DEF SelectionInv, QueueNames
    <3>9. ASSUME ActiveUpdates' = {}
          PROVE  {Arg} = history.chosen
      <4>1. \A name \in QueueNames : Updates(queues'[name]) = {}
        <5>1. (ActiveUpdates = {} <=> \A name \in QueueNames : Updates(queues[name]) = {})'
          BY NoUpdates, PTL
        <5>. QED BY <3>9, <5>1 DEF Updates
      <4>2. LastUpdate(q, history.chosen)
        BY <2>2, <3>1, <4>1 DEF SelectionInv, QueueNames, q
      <4>. QED BY <2>2, <4>1, <4>2, UpdateTaken
    <3>10. \A a \in db'.active : a.recipe = Arg
      <4>. DEFINE ok == fault # "insert"
      <4>. HIDE DEF ok
      <4>1. db' = UpdateActiveRecipe(db, Arg, globals.cycle, ok) /\ ok
        BY <2>1, <3>1 DEF ok
      <4>2. WellFormed(db) /\ Arg \in Nat /\ globals.cycle \in Nat
        BY <1>4, ArgTyped
           DEF DbTyped, WellFormed, DataUpdateActive, NumberMessages, GlobalsTyped
      <4>3. \A a \in db'.active : a = [recipe |-> Arg, cycle |-> globals.cycle]
        BY <3>1, <4>1, <4>2, ActiveUpdated
      <4>. QED BY <4>3
    <3>11. SelectionKept'
      BY <3>1, <3>9, <3>10 DEF SelectionKept
    <3>. QED BY <3>8, <3>11
  <2>. QED BY <2>3
<1>5. CASE DataReadActive \/ DataQueryByName
  <2>1. Taken
    BY <1>5, AllTakenKept DEF DataReadActive, DataQueryByName
  <2>. QED BY <1>5, <2>1 DEF DataReadActive, DataQueryByName, SelectionUntouched
<1>6. CASE DataAssignActive \/ DataAssignRecipe
  BY <1>6, SameKept DEF DataAssignActive, DataAssignRecipe, SelectionUntouched, HistoryShaped
<1>7. CASE DataStoreRecipe
  <2>1. Taken
    BY <1>7, AllTakenKept DEF DataStoreRecipe
  <2>. QED BY <1>7, <2>1, StoreRecipeStep DEF DataStoreRecipe, SelectionUntouched
<1>8. CASE DataDeleteRecipe
  <2>1. Taken
    BY <1>8, AllTakenKept DEF DataDeleteRecipe
  <2>. QED BY <1>8, <2>1, DeleteStep DEF DataDeleteRecipe, SelectionUntouched
<1>9. CASE DataLatestPage \/ DataNextPage \/ DataOtherPage
  <2>1. Taken
    BY <1>9, AllTakenKept DEF DataLatestPage, DataNextPage, DataOtherPage
  <2>2. history'.chosen = history.chosen /\ history'.overridden = history.overridden
    BY <1>9 DEF DataLatestPage, DataNextPage, DataOtherPage, HistoryShaped
  <2>3. db' = db
    BY <1>9 DEF DataLatestPage, DataNextPage, DataOtherPage
  <2>. QED BY <2>1, <2>2, <2>3 DEF SelectionUntouched
<1>10. CASE DataHistoryCurve
  <2>1. Taken
    BY <1>10, AllTakenKept DEF DataHistoryCurve
  <2>2. /\ history'.chosen = history.chosen /\ history'.overridden = history.overridden
        /\ db' = db
    BY <1>10 DEF DataHistoryCurve, HistoryShaped
  <2>. QED BY <2>1, <2>2 DEF SelectionUntouched
<1>. QED BY <1>1, <1>2, <1>3, <1>4, <1>5, <1>6, <1>7, <1>8, <1>9, <1>10 DEF DataTask

\* The property of the run `records': the choice of a recipe travels through
\* three queues of different priority, and the one that is handled last is the
\* choice that was made last, but for the conflicts the code does not resolve.
THEOREM SelectionStaysKept == Spec => []SelectionKept
<1>. DEFINE IInv == SelectionInv /\ SelectionKept
<1>1. ASSUME Alike, history.chosen = {a.recipe : a \in db.active},
             queues = [name \in QueueNames |-> <<>>]
      PROVE  IInv
  <2>1. \A name \in QueueNames : LastUpdate(queues[name], history.chosen)
    BY <1>1 DEF LastUpdate, Updates
  <2>2. \A a \in db.active : {a.recipe} = history.chosen
    BY <1>1 DEF Alike
  <2>. QED BY <2>1, <2>2 DEF SelectionInv, SelectionKept, QueueNames
<1>2. ASSUME Init PROVE Alike /\ IInv
  <2>1. Alike
    BY <1>2, StartsAllowed DEF Init, Alike
  <2>. QED BY <1>1, <1>2, <2>1 DEF Init
<1>3. ASSUME Typed, HistoryShaped, Alike, IInv, [Next]_vars
      PROVE  Alike' /\ IInv'
  <2>1. Alike'
    BY <1>3, AlikeStep
  <2>2. CASE Restart
    <3>1. /\ Alike' /\ history'.chosen = {a.recipe : a \in db'.active}
          /\ queues' = [name \in QueueNames |-> <<>>]
      BY <1>3, <2>1, <2>2 DEF Restart, HistoryShaped
    <3>2. (Alike /\ history.chosen = {a.recipe : a \in db.active}
             /\ queues = [name \in QueueNames |-> <<>>] => IInv)'
      BY <1>1, PTL
    <3>. QED BY <2>1, <3>1, <3>2
  <2>3. CASE HmiRequest \/ UNCHANGED vars
    <3>1. SelectionUntouched
      BY <2>3, SameKept DEF HmiRequest, vars, SelectionUntouched
    <3>. QED BY <1>3, <2>1, <3>1, SelectionStays
  <2>4. CASE history'.overridden
    BY <2>1, <2>4 DEF SelectionInv, SelectionKept
  <2>5. CASE SelectionUntouched
    BY <1>3, <2>1, <2>5, SelectionStays
  <2>. QED BY <1>3, <2>1, <2>2, <2>3, <2>4, <2>5, WeldingSelects, UISelects, ExternalSelects,
              DataSelects DEF Next
<1>. QED BY <1>2, <1>3, AlwaysTyped, AlwaysShaped, PTL DEF Spec

-----------------------------------------------------------------------------
(* Which weld what is stored belongs to.                                   *)

WeldMessages == {"WELD_RESULT_INSERT", "WELD_SIGN_INSERT", "ALARM_LOG_INSERT"}

Control == queues["Control"]

ResultQueued == \E m \in InQueue(Control) : m.id = "WELD_RESULT_INSERT"

\* What is sent or marked is about welds that were started, and only the last
\* of those that wait can be undisturbed.
NumbersInv ==
  /\ history.disturbed \subseteq 0 .. weld.number
  /\ \A name \in QueueNames : \A m \in InQueue(queues[name]) :
       m.id \in WeldMessages => name = "Control" /\ m.arg \in 0 .. weld.number
  /\ Waiting \subseteq history.disturbed \cup {weld.number}
  /\ Current \cap Waiting = {} /\ NoWeld \notin Waiting \cup Current

Ended == weld.phase = "answer" /\ weld.outcome # "preheight"

\* The globals are the last weld's until its result and signature are stored.
GlobalsInv ==
  /\ globals.values \in {NoWeld, weld.number}
  /\ weld.phase \in {"sonics", "sampled"} \/ weld.outcome = "preheight" =>
       globals.values = NoWeld
  /\ Ended \/ weld.number \in Waiting \/ (weld.phase = "alarm" /\ weld.outcome = "alarm")
       => globals.values = weld.number
  /\ weld.number \notin history.disturbed =>
       /\ weld.phase = "sonics" => globals.curve = {}
       /\ weld.phase = "sampled" \/ Ended \/ weld.number \in Waiting
            => globals.curve = {weld.number}

\* No result comes before position i of a queue, or the last is that of the
\* weld.
NoResultBefore(q, i) == \A k \in 1 .. (i - 1) : q[k].id # "WELD_RESULT_INSERT"

ResultBefore(q, i, w) ==
  \E j \in 1 .. (i - 1) :
    /\ q[j].id = "WELD_RESULT_INSERT" /\ q[j].arg = w
    /\ \A k \in (j + 1) .. (i - 1) : q[k].id # "WELD_RESULT_INSERT"

\* The latest result is that of the weld.
Owned(w) == \A r \in WithId(db.results, globals.resultId) : r.weld = w

\* When position i of the queue is handled, the latest result will be that of
\* the weld.
Follows(q, i, w) == (NoResultBefore(q, i) /\ Owned(w)) \/ ResultBefore(q, i, w)

Ordered(q) ==
  \A i \in DOMAIN q :
    /\ q[i].id \in {"WELD_SIGN_INSERT", "ALARM_LOG_INSERT"}
    /\ q[i].arg \notin history.disturbed \cup {NoWeld}
    => Follows(q, i, q[i].arg)

\* The control task has sent what the last weld has left in the globals.
WeldAnswered == /\ weld.phase \in {"rest", "alarm"}
                /\ globals.values = weld.number
                /\ weld.number \notin history.disturbed \cup {NoWeld}

OrderInv == /\ Ordered(Control)
            /\ WeldAnswered => Follows(Control, Len(Control) + 1, weld.number)

\* No row is about a weld to come, or under an ID to come.
RowsInv ==
  /\ globals.resultId \in 0 .. db.resultSeq
  /\ \A r \in db.results : r.weld \in 0 .. weld.number
  /\ \A a \in db.alarms : a.weld # NoWeld => a.result \in 0 .. db.resultSeq

\* The recipe in memory is the one the weld ran with, as long as its result
\* may be stored and it was not loaded anew.
RecipeInv ==
  /\ NoWeld \notin DOMAIN history.ran
  /\ Current # {} /\ weld.number \in DOMAIN history.ran \ history.reloaded =>
       globals.recipe = history.ran[weld.number]
  /\ /\ ResultQueued
     /\ globals.values \in DOMAIN history.ran \ (history.disturbed \cup history.reloaded)
     => globals.recipe = history.ran[globals.values]

OwnersInv == /\ NumbersInv /\ GlobalsInv /\ OrderInv /\ RowsInv /\ RecipeInv
             /\ SignatureOfWeld /\ AlarmOfWeld /\ ResultNamesRecipe

-----------------------------------------------------------------------------
(* The order of the queue as messages come and go.                         *)

LEMMA BeforeTaken ==
  ASSUME NEW S, NEW q \in Seq(S), q # <<>>, NEW i \in 2 .. (Len(q) + 1), NEW w
  PROVE  /\ NoResultBefore(q, i) => /\ NoResultBefore(Tail(q), i - 1)
                                    /\ Head(q).id # "WELD_RESULT_INSERT"
         /\ ResultBefore(q, i, w) =>
              \/ ResultBefore(Tail(q), i - 1, w)
              \/ /\ Head(q).id = "WELD_RESULT_INSERT" /\ Head(q).arg = w
                 /\ NoResultBefore(Tail(q), i - 1)
<1>. DEFINE r == Tail(q)
<1>1. /\ Len(q) \in Nat /\ Len(q) # 0
      /\ \A k \in 1 .. (Len(q) - 1) : r[k] = q[k + 1]
      /\ Head(q) = q[1]
  OBVIOUS
<1>. HIDE DEF r
<1>2. \A k \in 1 .. (i - 2) : k \in 1 .. (Len(q) - 1) /\ k + 1 \in 2 .. (i - 1) /\ r[k] = q[k + 1]
  BY <1>1
<1>3. (i - 1) - 1 = i - 2 /\ 1 \in 1 .. (i - 1)
  OBVIOUS
<1>4. ASSUME NoResultBefore(q, i)
      PROVE  NoResultBefore(r, i - 1) /\ Head(q).id # "WELD_RESULT_INSERT"
  <2>1. \A k \in 1 .. (i - 2) : k + 1 \in 1 .. (i - 1)
    BY <1>2
  <2>. QED BY <1>1, <1>2, <1>3, <1>4, <2>1 DEF NoResultBefore
<1>5. ASSUME NEW j \in 1 .. (i - 1), q[j].id = "WELD_RESULT_INSERT", q[j].arg = w,
             \A k \in (j + 1) .. (i - 1) : q[k].id # "WELD_RESULT_INSERT"
      PROVE  \/ ResultBefore(r, i - 1, w)
             \/ /\ Head(q).id = "WELD_RESULT_INSERT" /\ Head(q).arg = w
                /\ NoResultBefore(r, i - 1)
  <2>1. CASE j = 1
    <3>1. \A k \in 1 .. (i - 2) : k + 1 \in (j + 1) .. (i - 1)
      BY <2>1
    <3>2. NoResultBefore(r, i - 1)
      BY <1>2, <1>3, <1>5, <3>1 DEF NoResultBefore
    <3>. QED BY <1>1, <1>5, <2>1, <3>2
  <2>2. CASE j # 1
    <3>1. j - 1 \in 1 .. (i - 2) /\ (j - 1) + 1 = j
      BY <2>2
    <3>2. r[j - 1] = q[j]
      BY <1>2, <3>1
    <3>3. \A k \in j .. (i - 2) : k \in 1 .. (i - 2) /\ k + 1 \in (j + 1) .. (i - 1)
      OBVIOUS
    <3>4. \A k \in j .. (i - 2) : r[k].id # "WELD_RESULT_INSERT"
      BY <1>2, <1>5, <3>3
    <3>5. ResultBefore(r, i - 1, w)
      BY <1>3, <1>5, <3>1, <3>2, <3>4 DEF ResultBefore
    <3>. QED BY <3>5
  <2>. QED BY <2>1, <2>2
<1>6. ResultBefore(q, i, w) =>
        \/ ResultBefore(r, i - 1, w)
        \/ /\ Head(q).id = "WELD_RESULT_INSERT" /\ Head(q).arg = w
           /\ NoResultBefore(r, i - 1)
  BY <1>5 DEF ResultBefore
<1>. QED BY <1>4, <1>6 DEF r

LEMMA BeforeAppended ==
  ASSUME NEW S, NEW q \in Seq(S), NEW m \in S, NEW w
  PROVE  /\ \A i \in DOMAIN q : Follows(q, i, w) => Follows(Append(q, m), i, w)
         /\ Follows(q, Len(q) + 1, w) => Follows(Append(q, m), Len(q) + 1, w)
         /\ m.id # "WELD_RESULT_INSERT" /\ Follows(q, Len(q) + 1, w) =>
              Follows(Append(q, m), Len(q) + 2, w)
         /\ m.id = "WELD_RESULT_INSERT" => Follows(Append(q, m), Len(q) + 2, m.arg)
<1>. DEFINE r == Append(q, m)
<1>1. /\ Len(q) \in Nat /\ DOMAIN q = 1 .. Len(q)
      /\ \A k \in 1 .. Len(q) : r[k] = q[k]
      /\ r[Len(q) + 1] = m
  OBVIOUS
<1>. HIDE DEF r
<1>2. ASSUME NEW i \in 1 .. (Len(q) + 1), Follows(q, i, w)
      PROVE  Follows(r, i, w)
  <2>1. \A k \in 1 .. (i - 1) : k \in 1 .. Len(q) /\ r[k] = q[k]
    BY <1>1
  <2>2. NoResultBefore(q, i) => NoResultBefore(r, i)
    BY <2>1 DEF NoResultBefore
  <2>3. ASSUME NEW j \in 1 .. (i - 1), q[j].id = "WELD_RESULT_INSERT", q[j].arg = w,
               \A k \in (j + 1) .. (i - 1) : q[k].id # "WELD_RESULT_INSERT"
        PROVE  ResultBefore(r, i, w)
    <3>1. \A k \in (j + 1) .. (i - 1) : k \in 1 .. (i - 1)
      OBVIOUS
    <3>2. \A k \in (j + 1) .. (i - 1) : r[k].id # "WELD_RESULT_INSERT"
      BY <2>1, <2>3, <3>1
    <3>. QED BY <2>1, <2>3, <3>2 DEF ResultBefore
  <2>. QED BY <1>2, <2>2, <2>3 DEF Follows, ResultBefore
<1>3. /\ (Len(q) + 2) - 1 = Len(q) + 1
      /\ (Len(q) + 1) - 1 = Len(q)
      /\ \A k \in 1 .. (Len(q) + 1) : k \in 1 .. Len(q) \/ k = Len(q) + 1
      /\ \A j \in 1 .. Len(q) : j \in 1 .. (Len(q) + 1)
  BY <1>1
<1>4. ASSUME m.id # "WELD_RESULT_INSERT", Follows(q, Len(q) + 1, w)
      PROVE  Follows(r, Len(q) + 2, w)
  <2>1. NoResultBefore(q, Len(q) + 1) => NoResultBefore(r, Len(q) + 2)
    BY <1>1, <1>3, <1>4 DEF NoResultBefore
  <2>2. ASSUME NEW j \in 1 .. Len(q), q[j].id = "WELD_RESULT_INSERT", q[j].arg = w,
               \A k \in (j + 1) .. Len(q) : q[k].id # "WELD_RESULT_INSERT"
        PROVE  ResultBefore(r, Len(q) + 2, w)
    <3>1. \A k \in (j + 1) .. (Len(q) + 1) :
            k \in 1 .. (Len(q) + 1) /\ (k \in (j + 1) .. Len(q) \/ k = Len(q) + 1)
      BY <1>1
    <3>2. \A k \in (j + 1) .. (Len(q) + 1) : r[k].id # "WELD_RESULT_INSERT"
      BY <1>1, <1>3, <1>4, <2>2, <3>1
    <3>. QED BY <1>1, <1>3, <2>2, <3>2 DEF ResultBefore
  <2>. QED BY <1>3, <1>4, <2>1, <2>2 DEF Follows, ResultBefore
<1>5. ASSUME m.id = "WELD_RESULT_INSERT"
      PROVE  Follows(r, Len(q) + 2, m.arg)
  <2>1. Len(q) + 1 \in 1 .. (Len(q) + 1) /\ ((Len(q) + 1) + 1) .. (Len(q) + 1) = {}
    BY <1>1
  <2>. QED BY <1>1, <1>3, <1>5, <2>1 DEF Follows, ResultBefore
<1>. QED BY <1>1, <1>2, <1>4, <1>5 DEF r

\* A message may be sent about a weld that the queue leads to.
LEMMA OrderedSent ==
  ASSUME NEW S, NEW q \in Seq(S), NEW m \in S, Ordered(q),
         m.id \in {"WELD_SIGN_INSERT", "ALARM_LOG_INSERT"}
           /\ m.arg \notin history.disturbed \cup {NoWeld} => Follows(q, Len(q) + 1, m.arg),
         NEW w
  PROVE  /\ Ordered(Send(q, m))
         /\ m.id # "WELD_RESULT_INSERT" /\ Follows(q, Len(q) + 1, w) =>
              Follows(Send(q, m), Len(Send(q, m)) + 1, w)
         /\ m.id = "WELD_RESULT_INSERT" /\ Fits(q) =>
              Follows(Send(q, m), Len(Send(q, m)) + 1, m.arg)
<1>1. CASE Fits(q)
  <2>. DEFINE r == Append(q, m)
  <2>1. /\ Len(q) \in Nat /\ DOMAIN q = 1 .. Len(q) /\ DOMAIN r = 1 .. (Len(q) + 1)
        /\ Len(r) = Len(q) + 1 /\ Len(r) + 1 = Len(q) + 2
        /\ \A k \in 1 .. Len(q) : r[k] = q[k]
        /\ r[Len(q) + 1] = m
    OBVIOUS
  <2>2. /\ \A v : \A i \in DOMAIN q : Follows(q, i, v) => Follows(r, i, v)
        /\ \A v : Follows(q, Len(q) + 1, v) => Follows(r, Len(q) + 1, v)
        /\ m.id # "WELD_RESULT_INSERT" /\ Follows(q, Len(q) + 1, w) =>
             Follows(r, Len(q) + 2, w)
        /\ m.id = "WELD_RESULT_INSERT" => Follows(r, Len(q) + 2, m.arg)
    BY BeforeAppended
  <2>. HIDE DEF r
  <2>3. Ordered(r)
    <3>1. ASSUME NEW i \in DOMAIN r, r[i].id \in {"WELD_SIGN_INSERT", "ALARM_LOG_INSERT"},
                 r[i].arg \notin history.disturbed \cup {NoWeld}
          PROVE  Follows(r, i, r[i].arg)
      <4>1. CASE i = Len(q) + 1
        BY <2>1, <2>2, <3>1, <4>1
      <4>2. CASE i \in DOMAIN q
        BY <2>1, <2>2, <3>1, <4>2 DEF Ordered
      <4>. QED BY <2>1, <4>1, <4>2
    <3>. QED BY <3>1 DEF Ordered
  <2>4. Send(q, m) = r
    BY <1>1 DEF Send, r
  <2>. QED BY <2>1, <2>2, <2>3, <2>4
<1>2. CASE ~Fits(q)
  BY <1>2 DEF Send
<1>. QED BY <1>1, <1>2

\* What stays of the order when the first message has been handled.
LEMMA OrderTaken ==
  ASSUME Typed, OrderInv, Control # <<>>, Control' = Tail(Control),
         weld'.number = weld.number, WeldAnswered' => WeldAnswered,
         history.disturbed \subseteq history'.disturbed,
         \A w : w \notin history'.disturbed \cup {NoWeld} =>
           IF Head(Control).id = "WELD_RESULT_INSERT"
           THEN Head(Control).arg = w => Owned(w)'
           ELSE Owned(w) => Owned(w)'
  PROVE  OrderInv'
<1>. PICK q, r : q = Control /\ r = Tail(q)
  OBVIOUS
<1>1. /\ q \in Seq(DataMessages) /\ q # <<>> /\ Len(q) \in Nat /\ Len(q) # 0
      /\ DOMAIN q = 1 .. Len(q) /\ DOMAIN r = 1 .. (Len(q) - 1) /\ Len(r) = Len(q) - 1
      /\ \A k \in 1 .. (Len(q) - 1) : r[k] = q[k + 1]
      /\ Control' = r
  BY DEF Typed, QueuesTyped, QueueNames, Control
<1>2. ASSUME NEW i \in 2 .. (Len(q) + 1), NEW w, w \notin history'.disturbed \cup {NoWeld},
             Follows(q, i, w)
      PROVE  Follows(r, i - 1, w)'
  <2>1. \/ NoResultBefore(r, i - 1) /\ Owned(w) /\ Head(q).id # "WELD_RESULT_INSERT"
        \/ ResultBefore(r, i - 1, w)
        \/ /\ Head(q).id = "WELD_RESULT_INSERT" /\ Head(q).arg = w
           /\ NoResultBefore(r, i - 1)
    BY <1>1, <1>2, BeforeTaken DEF Follows
  <2>2. (NoResultBefore(r, i - 1) /\ Owned(w)') \/ ResultBefore(r, i - 1, w)
    BY <1>2, <2>1
  <2>. QED BY <2>2 DEF Follows, NoResultBefore, ResultBefore
<1>3. Ordered(Control)'
  <2>1. ASSUME NEW i \in DOMAIN r, r[i].id \in {"WELD_SIGN_INSERT", "ALARM_LOG_INSERT"},
               r[i].arg \notin history'.disturbed \cup {NoWeld}
        PROVE  Follows(r, i, r[i].arg)'
    <3>1. i + 1 \in 2 .. (Len(q) + 1) /\ i + 1 \in DOMAIN q /\ (i + 1) - 1 = i /\ r[i] = q[i + 1]
      BY <1>1
    <3>2. Follows(q, i + 1, r[i].arg)
      BY <2>1, <3>1 DEF OrderInv, Ordered
    <3>. QED BY <1>2, <2>1, <3>1, <3>2
  <2>2. \A i \in DOMAIN r :
          /\ r[i].id \in {"WELD_SIGN_INSERT", "ALARM_LOG_INSERT"}
          /\ r[i].arg \notin history'.disturbed \cup {NoWeld}
          => Follows(r, i, r[i].arg)'
    BY <2>1
  <2>. QED BY <1>1, <2>2 DEF Ordered
<1>4. ASSUME WeldAnswered'
      PROVE  Follows(Control, Len(Control) + 1, weld.number)'
  <2>1. Follows(q, Len(q) + 1, weld.number)
    BY <1>4 DEF OrderInv
  <2>2. Len(q) + 1 \in 2 .. (Len(q) + 1) /\ (Len(q) + 1) - 1 = Len(r) + 1
    BY <1>1
  <2>3. weld.number \notin history'.disturbed \cup {NoWeld}
    BY <1>4 DEF WeldAnswered
  <2>4. Follows(r, Len(r) + 1, weld.number)'
    <3>1. ASSUME NEW w, w = weld.number PROVE Follows(r, Len(r) + 1, w)'
      BY <1>2, <2>1, <2>2, <2>3, <3>1
    <3>. QED BY <3>1 DEF Follows, ResultBefore, Owned
  <2>. QED BY <1>1, <2>4
<1>. QED BY <1>3, <1>4 DEF OrderInv

\* ... and when the queue is as it was.
LEMMA OrderSame ==
  ASSUME OrderInv, Control' = Control, weld'.number = weld.number, WeldAnswered' => WeldAnswered,
         history.disturbed \subseteq history'.disturbed, \A w : Owned(w) => Owned(w)'
  PROVE  OrderInv'
<1>1. \A q, i, w : Follows(q, i, w) => Follows(q, i, w)'
  BY DEF Follows, NoResultBefore, ResultBefore
<1>2. Ordered(Control)'
  <2>1. \A i \in DOMAIN Control :
          /\ Control[i].id \in {"WELD_SIGN_INSERT", "ALARM_LOG_INSERT"}
          /\ Control[i].arg \notin history'.disturbed \cup {NoWeld}
          => Follows(Control, i, Control[i].arg)
    BY DEF OrderInv, Ordered
  <2>. PICK q : q = Control
    OBVIOUS
  <2>2. \A i \in DOMAIN q :
          /\ q[i].id \in {"WELD_SIGN_INSERT", "ALARM_LOG_INSERT"}
          /\ q[i].arg \notin history'.disturbed \cup {NoWeld}
          => Follows(q, i, q[i].arg)'
    BY <1>1, <2>1
  <2>. QED BY <2>2 DEF Ordered
<1>3. ASSUME WeldAnswered'
      PROVE  Follows(Control, Len(Control) + 1, weld.number)'
  <2>. PICK q, w : q = Control /\ w = weld.number
    OBVIOUS
  <2>1. Follows(q, Len(q) + 1, w)'
    BY <1>1, <1>3 DEF OrderInv
  <2>. QED BY <2>1
<1>. QED BY <1>2, <1>3 DEF OrderInv

-----------------------------------------------------------------------------
(* Steps that are not about the welds.                                     *)

\* Queues that keep the messages about welds, in their order.
PassedOver ==
  /\ \/ Control' = Control
     \/ /\ Control # <<>> /\ Head(Control).id \notin WeldMessages
        /\ Control' = Tail(Control)
  /\ \A name \in QueueNames : \A m \in InQueue(queues'[name]) :
       m \in InQueue(queues[name]) \/ m.id \notin WeldMessages

WeldsUntouched ==
  /\ weld' = weld
  /\ globals'.values = globals.values /\ globals'.curve = globals.curve
  /\ globals'.resultId = globals.resultId /\ globals'.recipe = globals.recipe
  /\ TablesKept(db, db')
  /\ history'.ran = history.ran /\ history'.disturbed = history.disturbed
  /\ history'.reloaded = history.reloaded

LEMMA SentPasses ==
  ASSUME QueuesTyped, NEW name \in QueueNames \ {"Control"}, NEW m \in DataMessages,
         m.id \notin WeldMessages, queues' = [queues EXCEPT ![name] = Send(@, m)]
  PROVE  PassedOver
<1>1. InQueue(Send(queues[name], m)) \subseteq InQueue(queues[name]) \cup {m}
  BY Sent DEF QueuesTyped
<1>2. /\ queues'[name] = Send(queues[name], m) /\ "Control" \in QueueNames
      /\ \A other \in QueueNames \ {name} : queues'[other] = queues[other]
  BY DEF QueuesTyped, QueueNames
<1>. QED BY <1>1, <1>2 DEF PassedOver, Control

LEMMA TakenPasses ==
  ASSUME QueuesTyped, NEW id, id \notin WeldMessages, Receives(id), queues' = Rest
  PROVE  PassedOver
<1>. DEFINE q == queues[Source]
<1>1. Source \in QueueNames
  BY DEF Source, QueueNames
<1>2. q \in Seq(DataMessages) /\ q # <<>> /\ Head(q).id = id
  BY <1>1 DEF QueuesTyped, Receives
<1>3. InQueue(Tail(q)) \subseteq InQueue(q)
  BY <1>2, TakenFrom
<1>4. /\ queues'[Source] = Tail(q) /\ "Control" \in QueueNames
      /\ \A other \in QueueNames \ {Source} : queues'[other] = queues[other]
  BY <1>1 DEF QueuesTyped, Rest, QueueNames
<1>. QED BY <1>1, <1>2, <1>3, <1>4 DEF PassedOver, Control

LEMMA SamePasses == UNCHANGED queues => PassedOver
BY DEF PassedOver, Control

LEMMA OthersPass ==
  ASSUME Typed, HistoryShaped,
         HmiRequest \/ ExtRecall \/ ExtAnswer \/ UITask \/ UNCHANGED vars
  PROVE  PassedOver /\ WeldsUntouched
<1>. USE DEF WeldsUntouched, TablesKept
<1>1. CASE HmiRequest \/ UNCHANGED vars
  BY <1>1, SamePasses DEF HmiRequest, vars
<1>2. CASE ExtRecall
  <2>1. PICK name \in Names :
          queues' = [queues EXCEPT !["Request"] = Send(@, Msg("WELD_RECIPE_QUERY_BY_NAME", name))]
    BY <1>2 DEF ExtRecall
  <2>2. /\ Msg("WELD_RECIPE_QUERY_BY_NAME", name) \in DataMessages
        /\ "Request" \in QueueNames \ {"Control"}
        /\ Msg("WELD_RECIPE_QUERY_BY_NAME", name).id \notin WeldMessages
    BY DEF Msg, DataMessages, NameMessages, QueueNames, WeldMessages
  <2>3. PassedOver
    BY <2>1, <2>2, SentPasses DEF Typed
  <2>. QED BY <1>2, <2>3 DEF ExtRecall
<1>3. CASE ExtAnswer /\ UNCHANGED <<globals, queues, history>>
  BY <1>3, SamePasses DEF ExtAnswer
<1>4. CASE ExtAnswer /\ ~UNCHANGED <<globals, queues, history>>
  <2>1. /\ Msg("ACTIVE_RECIPE_UPDATE", Head(ext)) \in DataMessages
        /\ "Request" \in QueueNames \ {"Control"}
        /\ Msg("ACTIVE_RECIPE_UPDATE", Head(ext)).id \notin WeldMessages
    BY <1>4 DEF Msg, DataMessages, NumberMessages, QueueNames, ExtAnswer, Typed, ExtTyped,
                WeldMessages
  <2>2. queues' = [queues EXCEPT !["Request"] = Send(@, Msg("ACTIVE_RECIPE_UPDATE", Head(ext)))]
    BY <1>4 DEF ExtAnswer
  <2>3. PassedOver
    BY <2>1, <2>2, SentPasses DEF Typed
  <2>. QED BY <1>4, <2>3 DEF ExtAnswer, Typed, GlobalsTyped, HistoryShaped
<1>5. CASE UIForward
  <2>1. PICK id \in DOMAIN Forwarded :
          /\ UIReceives(id)
          /\ queues' = [queues EXCEPT !["Data"] = Send(@, Msg(Forwarded[id], UIArg))]
    BY <1>5 DEF UIForward
  <2>2. /\ Msg(Forwarded[id], UIArg) \in DataMessages /\ "Data" \in QueueNames \ {"Control"}
        /\ Msg(Forwarded[id], UIArg).id \notin WeldMessages
    <3>1. UIArg \in Nat /\ Forwarded[id] \in NumberMessages \ WeldMessages
      BY <2>1, UIReceived DEF UIArg, UIMessages, Forwarded, NumberMessages, WeldMessages, Typed
    <3>. QED BY <3>1 DEF Msg, DataMessages, QueueNames
  <2>3. PassedOver
    BY <2>1, <2>2, SentPasses DEF Typed
  <2>. QED BY <1>5, <2>3 DEF UIForward
<1>6. CASE UISetActive
  <2>1. /\ Msg("ACTIVE_RECIPE_UPDATE", UIArg) \in DataMessages
        /\ "Data" \in QueueNames \ {"Control"}
        /\ Msg("ACTIVE_RECIPE_UPDATE", UIArg).id \notin WeldMessages
    <3>1. UIArg \in Nat
      BY <1>6, UIReceived DEF UISetActive, UIArg, UIMessages, Typed
    <3>. QED BY <3>1 DEF Msg, DataMessages, NumberMessages, QueueNames, WeldMessages
  <2>2. PassedOver
    BY <1>6, <2>1, SentPasses DEF UISetActive, Typed
  <2>. QED BY <1>6, <2>2 DEF UISetActive, Typed, GlobalsTyped, HistoryShaped
<1>7. CASE UIClearCounter
  <2>1. /\ Msg("ACTIVE_RECIPE_UPDATE", globals.recipeId) \in DataMessages
        /\ "Data" \in QueueNames \ {"Control"}
        /\ Msg("ACTIVE_RECIPE_UPDATE", globals.recipeId).id \notin WeldMessages
    BY DEF Msg, DataMessages, NumberMessages, QueueNames, WeldMessages, Typed, GlobalsTyped
  <2>2. PassedOver
    BY <1>7, <2>1, SentPasses DEF UIClearCounter, Typed
  <2>. QED BY <1>7, <2>2 DEF UIClearCounter, Typed, GlobalsTyped, HistoryShaped
<1>8. CASE UIInsertRecipe
  <2>1. /\ Msg("WELD_RECIPE_INSERT", UIArg) \in DataMessages
        /\ "Data" \in QueueNames \ {"Control"}
        /\ Msg("WELD_RECIPE_INSERT", UIArg).id \notin WeldMessages
    <3>1. UIArg \in Names
      BY <1>8, UIReceived DEF UIInsertRecipe, UIArg, UIMessages, Typed
    <3>. QED BY <3>1 DEF Msg, DataMessages, NameMessages, QueueNames, WeldMessages
  <2>2. PassedOver
    BY <1>8, <2>1, SentPasses DEF UIInsertRecipe, Typed
  <2>. QED BY <1>8, <2>2 DEF UIInsertRecipe, Typed, GlobalsTyped
<1>9. CASE UIDefaultRecipe \/ UIRowsSent
  BY <1>9, SamePasses DEF UIDefaultRecipe, UIRowsSent, Typed, GlobalsTyped
<1>10. CASE UISendRows
  BY <1>10, SamePasses DEF UISendRows, HistoryShaped
<1>. QED BY <1>1, <1>2, <1>3, <1>4, <1>5, <1>6, <1>7, <1>8, <1>9, <1>10 DEF UITask

LEMMA DataPasses ==
  ASSUME Typed, HistoryShaped,
         DataUpdateActive \/ DataReadActive \/ DataStoreRecipe \/ DataDeleteRecipe
           \/ DataLatestPage \/ DataNextPage \/ DataOtherPage \/ DataQueryByName
  PROVE  PassedOver /\ WeldsUntouched
<1>. USE DEF WeldsUntouched
<1>1. PassedOver
  <2>. USE TakenPasses DEF Typed, WeldMessages
  <2>1. CASE DataUpdateActive \/ DataReadActive
    BY <2>1 DEF DataUpdateActive, DataReadActive
  <2>2. CASE DataStoreRecipe \/ DataDeleteRecipe
    BY <2>2 DEF DataStoreRecipe, DataDeleteRecipe
  <2>3. CASE DataLatestPage \/ DataNextPage
    BY <2>3 DEF DataLatestPage, DataNextPage
  <2>4. CASE DataOtherPage \/ DataQueryByName
    BY <2>4 DEF DataOtherPage, DataQueryByName
  <2>. QED BY <2>1, <2>2, <2>3, <2>4
<1>2. CASE DataUpdateActive
  <2>1. UNCHANGED <<weld, globals>>
    BY <1>2 DEF DataUpdateActive
  <2>2. /\ history'.ran = history.ran /\ history'.disturbed = history.disturbed
        /\ history'.reloaded = history.reloaded
    BY <1>2 DEF DataUpdateActive, HistoryShaped
  <2>. QED BY <1>1, <1>2, <2>1, <2>2, UpdateStep
<1>3. CASE DataStoreRecipe \/ DataDeleteRecipe
  BY <1>1, <1>3, StoreRecipeStep, DeleteStep DEF DataStoreRecipe, DataDeleteRecipe
<1>4. CASE DataReadActive \/ DataQueryByName
  BY <1>1, <1>4 DEF DataReadActive, DataQueryByName, TablesKept
<1>5. CASE DataLatestPage \/ DataNextPage \/ DataOtherPage
  <2>1. UNCHANGED <<weld, globals, db>>
    BY <1>5 DEF DataLatestPage, DataNextPage, DataOtherPage
  <2>2. /\ history'.ran = history.ran /\ history'.disturbed = history.disturbed
        /\ history'.reloaded = history.reloaded
    BY <1>5 DEF DataLatestPage, DataNextPage, DataOtherPage, HistoryShaped
  <2>. QED BY <1>1, <2>1, <2>2 DEF TablesKept
<1>. QED BY <1>2, <1>3, <1>4, <1>5

\* The messages about welds that are left are no new ones, but for an alarm.
LEMMA NumbersStay ==
  ASSUME NumbersInv, weld'.number = weld.number, Current' \subseteq Current,
         history.disturbed \subseteq history'.disturbed,
         history'.disturbed \subseteq 0 .. weld.number,
         \A name \in QueueNames : \A m \in InQueue(queues'[name]) :
           \/ m \in InQueue(queues[name]) \/ m.id \notin WeldMessages
           \/ /\ name = "Control" /\ m.id = "ALARM_LOG_INSERT"
              /\ m.arg \in 0 .. weld.number
  PROVE  NumbersInv' /\ Waiting' \subseteq Waiting /\ (ResultQueued' => ResultQueued)
<1>1. "Control" \in QueueNames
  BY DEF QueueNames
<1>2. \A m \in InQueue(queues'["Control"]) :
        m.id \in {"WELD_RESULT_INSERT", "WELD_SIGN_INSERT"} => m \in InQueue(queues["Control"])
  BY <1>1 DEF WeldMessages
<1>3. Waiting' \subseteq Waiting
  BY <1>2 DEF Waiting
<1>4. ResultQueued' => ResultQueued
  BY <1>2 DEF ResultQueued, Control
<1>5. \A name \in QueueNames : \A m \in InQueue(queues'[name]) :
        m.id \in WeldMessages => name = "Control" /\ m.arg \in 0 .. weld.number
  BY DEF NumbersInv
<1>. QED BY <1>3, <1>4, <1>5 DEF NumbersInv

LEMMA OrderPasses ==
  ASSUME Typed, OrderInv, PassedOver, weld' = weld, globals'.values = globals.values,
         globals'.resultId = globals.resultId, db'.results = db.results,
         history.disturbed \subseteq history'.disturbed
  PROVE  OrderInv'
<1>1. \A w : Owned(w) => Owned(w)'
  BY DEF Owned
<1>2. WeldAnswered' => WeldAnswered
  BY DEF WeldAnswered
<1>3. CASE Control' = Control
  BY <1>1, <1>2, <1>3, OrderSame
<1>4. CASE /\ Control # <<>> /\ Head(Control).id \notin WeldMessages
           /\ Control' = Tail(Control)
  BY <1>1, <1>2, <1>4, OrderTaken DEF WeldMessages
<1>. QED BY <1>3, <1>4 DEF PassedOver

\* What a step says of the welds by leaving their rows alone.
LEMMA RowsStay ==
  ASSUME SignatureOfWeld, AlarmOfWeld, ResultNamesRecipe, TablesKept(db, db'),
         history'.ran = history.ran, history.disturbed \subseteq history'.disturbed,
         history.reloaded \subseteq history'.reloaded
  PROVE  SignatureOfWeld' /\ AlarmOfWeld' /\ ResultNamesRecipe'
<1>1. SignatureOfWeld'
  BY DEF SignatureOfWeld, TablesKept
<1>2. AlarmOfWeld'
  BY DEF AlarmOfWeld, TablesKept
<1>3. ResultNamesRecipe'
  BY DEF ResultNamesRecipe, TablesKept
<1>. QED BY <1>1, <1>2, <1>3

LEMMA PassKeeps ==
  ASSUME Typed, OwnersInv, PassedOver, WeldsUntouched
  PROVE  OwnersInv'
<1>. USE DEF OwnersInv
<1>1. Current' = Current
  BY DEF WeldsUntouched, Current
<1>2. NumbersInv' /\ Waiting' \subseteq Waiting /\ (ResultQueued' => ResultQueued)
  <2>1. history.disturbed \subseteq 0 .. weld.number
    BY DEF NumbersInv
  <2>. QED BY <1>1, <2>1, NumbersStay DEF PassedOver, WeldsUntouched
<1>3. GlobalsInv'
  BY <1>2 DEF GlobalsInv, WeldsUntouched, Ended
<1>4. OrderInv'
  BY OrderPasses DEF WeldsUntouched, TablesKept
<1>5. RowsInv'
  BY DEF RowsInv, WeldsUntouched, TablesKept
<1>6. RecipeInv'
  BY <1>1, <1>2 DEF RecipeInv, WeldsUntouched
<1>7. SignatureOfWeld' /\ AlarmOfWeld' /\ ResultNamesRecipe'
  BY RowsStay DEF WeldsUntouched
<1>. QED BY <1>2, <1>3, <1>4, <1>5, <1>6, <1>7

\* The count and the ID of the active recipe, assigned before its parameters.
LEMMA AssignActivePasses ==
  ASSUME Typed, HistoryShaped, DataAssignActive
  PROVE  PassedOver /\ WeldsUntouched
<1>1. UNCHANGED <<weld, queues, db>>
  BY DEF DataAssignActive
<1>2. /\ globals'.values = globals.values /\ globals'.curve = globals.curve
      /\ globals'.resultId = globals.resultId /\ globals'.recipe = globals.recipe
  BY DEF DataAssignActive, Typed, GlobalsTyped
<1>3. /\ history'.ran = history.ran /\ history'.disturbed = history.disturbed
      /\ history'.reloaded = history.reloaded
  BY DEF DataAssignActive, HistoryShaped
<1>. QED BY <1>1, <1>2, <1>3, SamePasses DEF WeldsUntouched, TablesKept

\* The active recipe is loaded, or a curve of the history: both are noted.
LEMMA AssignKeeps ==
  ASSUME Typed, HistoryShaped, OwnersInv, DataAssignRecipe
  PROVE  OwnersInv'
<1>. USE DEF OwnersInv
<1>1. /\ weld' = weld /\ queues' = queues /\ db' = db
      /\ globals'.values = globals.values /\ globals'.curve = globals.curve
      /\ globals'.resultId = globals.resultId
      /\ history'.ran = history.ran /\ history'.disturbed = history.disturbed
      /\ history'.reloaded = history.reloaded \cup Waiting \cup Current
  BY DEF DataAssignRecipe, Typed, GlobalsTyped, HistoryShaped
<1>2. /\ Current' = Current /\ Waiting' = Waiting /\ Control' = Control
      /\ ResultQueued' = ResultQueued
  BY <1>1 DEF Current, Waiting, Control, ResultQueued
<1>3. NumbersInv'
  BY <1>1, <1>2 DEF NumbersInv
<1>4. GlobalsInv'
  BY <1>1, <1>2 DEF GlobalsInv, Ended
<1>5. OrderInv'
  BY <1>1, SamePasses, OrderPasses
<1>6. RowsInv'
  BY <1>1 DEF RowsInv
<1>7. RecipeInv'
  <2>1. Current # {} => Current = {weld.number}
    BY DEF Current
  <2>2. NoWeld \notin DOMAIN history'.ran
    BY <1>1 DEF RecipeInv
  <2>3. ASSUME ResultQueued,
               globals.values \in DOMAIN history'.ran
                                    \ (history'.disturbed \cup history'.reloaded)
        PROVE  FALSE
    <3>1. /\ globals.values # NoWeld /\ globals.values = weld.number
          /\ weld.number \notin history.disturbed \cup {NoWeld}
          /\ weld.number \notin Waiting \cup Current
      BY <1>1, <2>2, <2>3 DEF GlobalsInv
    <3>2. WeldAnswered
      BY <3>1 DEF WeldAnswered, Current, Typed, WeldTyped
    <3>3. PICK k \in DOMAIN Control : Control[k].id = "WELD_RESULT_INSERT"
      BY <2>3 DEF ResultQueued, InQueue
    <3>4. Control \in Seq(DataMessages)
      BY DEF Typed, QueuesTyped, QueueNames, Control
    <3>5. k \in 1 .. ((Len(Control) + 1) - 1) /\ ~NoResultBefore(Control, Len(Control) + 1)
      BY <3>3, <3>4 DEF NoResultBefore
    <3>6. PICK j \in 1 .. ((Len(Control) + 1) - 1) :
            Control[j].id = "WELD_RESULT_INSERT" /\ Control[j].arg = weld.number
      BY <3>2, <3>5 DEF OrderInv, Follows, ResultBefore
    <3>7. Control[j] \in InQueue(Control)
      BY <3>4, <3>6 DEF InQueue
    <3>8. weld.number \in Waiting
      BY <3>6, <3>7 DEF Waiting, Control
    <3>. QED BY <3>1, <3>8
  <2>. QED BY <1>1, <1>2, <2>1, <2>2, <2>3 DEF RecipeInv
<1>8. SignatureOfWeld' /\ AlarmOfWeld' /\ ResultNamesRecipe'
  BY <1>1, RowsStay DEF TablesKept
<1>. QED BY <1>3, <1>4, <1>5, <1>6, <1>7, <1>8

LEMMA CurveKeeps ==
  ASSUME Typed, HistoryShaped, OwnersInv, DataHistoryCurve
  PROVE  OwnersInv'
<1>. USE DEF OwnersInv
<1>1. PassedOver
  BY TakenPasses DEF DataHistoryCurve, Typed, WeldMessages
<1>2. weld' = weld /\ db' = db
  BY DEF DataHistoryCurve
<1>3. CASE UNCHANGED <<globals, history>>
  BY <1>1, <1>2, <1>3, PassKeeps DEF WeldsUntouched, TablesKept
<1>4. CASE ~UNCHANGED <<globals, history>>
  <2>1. /\ globals'.values = globals.values /\ globals'.resultId = globals.resultId
        /\ globals'.recipe = globals.recipe
        /\ history'.ran = history.ran /\ history'.reloaded = history.reloaded
        /\ history'.disturbed = history.disturbed \cup Waiting \cup Current
    BY <1>4 DEF DataHistoryCurve, Typed, GlobalsTyped, HistoryShaped
  <2>2. Current' = Current /\ Current \subseteq {weld.number}
    BY <1>2 DEF Current
  <2>3. history'.disturbed \subseteq 0 .. weld.number
    <3>1. weld.number \in 0 .. weld.number
      BY DEF Typed, WeldTyped
    <3>. QED BY <2>1, <2>2, <3>1 DEF NumbersInv
  <2>4. NumbersInv' /\ Waiting' \subseteq Waiting /\ (ResultQueued' => ResultQueued)
    BY <1>1, <1>2, <2>1, <2>2, <2>3, NumbersStay DEF PassedOver
  <2>5. GlobalsInv'
    <3>1. weld.number \notin history'.disturbed =>
            weld.number \notin Waiting /\ Current = {}
      BY <2>1 DEF Current
    <3>2. Current = {} => weld.phase \notin {"sonics", "sampled", "answer"}
      BY DEF Current
    <3>. QED BY <1>2, <2>1, <2>4, <3>1, <3>2 DEF GlobalsInv, Ended
  <2>6. OrderInv'
    BY <1>1, <1>2, <2>1, OrderPasses
  <2>7. RowsInv'
    BY <1>2, <2>1 DEF RowsInv
  <2>8. RecipeInv'
    BY <1>2, <2>1, <2>2, <2>4 DEF RecipeInv
  <2>9. SignatureOfWeld' /\ AlarmOfWeld' /\ ResultNamesRecipe'
    BY <1>2, <2>1, RowsStay DEF TablesKept
  <2>. QED BY <2>4, <2>5, <2>6, <2>7, <2>8, <2>9
<1>. QED BY <1>3, <1>4

-----------------------------------------------------------------------------
(* The weld, and the control task's answer.                                *)

LEMMA StartKeeps ==
  ASSUME Typed, HistoryShaped, OwnersInv, WeldStart
  PROVE  OwnersInv'
<1>. USE DEF OwnersInv
<1>. DEFINE n == weld.number
<1>1. /\ n \in Nat /\ weld'.number = n + 1 /\ weld'.phase = "sonics"
      /\ queues' = queues /\ db' = db
      /\ globals'.values = NoWeld /\ globals'.curve = {}
      /\ globals'.resultId = globals.resultId /\ globals'.recipe = globals.recipe
      /\ history'.ran = [history.ran EXCEPT ![n + 1] = globals.recipe]
      /\ history'.disturbed = history.disturbed \cup Waiting
      /\ history'.reloaded = history.reloaded
  BY DEF WeldStart, Typed, WeldTyped, GlobalsTyped, HistoryShaped
<1>2. /\ Waiting' = Waiting /\ Control' = Control /\ ResultQueued' = ResultQueued
      /\ Current' = {n + 1}
  BY <1>1 DEF Current, Waiting, Control, ResultQueued
<1>3. Waiting \subseteq 0 .. n
  <2>1. "Control" \in QueueNames
    BY DEF QueueNames
  <2>. QED BY <2>1 DEF Waiting, NumbersInv, WeldMessages
<1>4. n + 1 \notin 0 .. n /\ \A k \in 0 .. n : k \in 0 .. (n + 1)
  BY <1>1
<1>5. NumbersInv'
  <2>1. history'.disturbed \subseteq 0 .. (n + 1)
    BY <1>1, <1>3, <1>4 DEF NumbersInv
  <2>2. \A name \in QueueNames : \A m \in InQueue(queues[name]) :
          m.id \in WeldMessages => name = "Control" /\ m.arg \in 0 .. (n + 1)
    BY <1>4 DEF NumbersInv
  <2>3. Waiting \subseteq history'.disturbed /\ {n + 1} \cap Waiting = {}
    BY <1>1, <1>3, <1>4
  <2>4. n + 1 # NoWeld /\ NoWeld \notin Waiting
    BY <1>1 DEF NumbersInv, NoWeld
  <2>. QED BY <1>1, <1>2, <2>1, <2>2, <2>3, <2>4 DEF NumbersInv
<1>6. GlobalsInv'
  BY <1>1, <1>2, <1>3, <1>4 DEF GlobalsInv, Ended
<1>7. OrderInv'
  <2>1. ~WeldAnswered'
    BY <1>1 DEF WeldAnswered
  <2>. PICK q : q = Control
    OBVIOUS
  <2>2. Ordered(q)
    BY DEF OrderInv
  <2>3. \A i, w : Follows(q, i, w) => Follows(q, i, w)'
    BY <1>1 DEF Follows, NoResultBefore, ResultBefore, Owned
  <2>4. Ordered(q)'
    BY <1>1, <2>2, <2>3 DEF Ordered
  <2>. QED BY <1>2, <2>1, <2>4 DEF OrderInv
<1>8. RowsInv'
  BY <1>1, <1>4 DEF RowsInv
<1>9. RecipeInv'
  BY <1>1 DEF RecipeInv
<1>10. SignatureOfWeld' /\ AlarmOfWeld'
  BY <1>1 DEF SignatureOfWeld, AlarmOfWeld
<1>11. ResultNamesRecipe'
  <2>1. \A r \in db.results : r.weld # n + 1
    BY <1>4 DEF RowsInv
  <2>. QED BY <1>1, <2>1 DEF ResultNamesRecipe
<1>. QED BY <1>5, <1>6, <1>7, <1>8, <1>9, <1>10, <1>11

LEMMA EndKeeps ==
  ASSUME Typed, HistoryShaped, OwnersInv, WeldSample \/ WeldEnd
  PROVE  OwnersInv'
<1>. USE DEF OwnersInv
<1>1. /\ weld'.number = weld.number /\ weld.phase \in {"sonics", "sampled"}
      /\ weld'.phase \in {"sampled", "answer"}
      /\ queues' = queues /\ db' = db /\ history' = history
      /\ globals'.values \in {globals.values, weld.number}
      /\ globals'.resultId = globals.resultId /\ globals'.recipe = globals.recipe
  BY DEF WeldSample, WeldEnd, Typed, WeldTyped, GlobalsTyped
<1>2. /\ Waiting' = Waiting /\ Control' = Control /\ ResultQueued' = ResultQueued
      /\ Current' = Current /\ Current = {weld.number}
  BY <1>1 DEF Current, Waiting, Control, ResultQueued
<1>3. NumbersInv'
  BY <1>1, <1>2 DEF NumbersInv
<1>4. weld.number \notin Waiting
  BY <1>2 DEF NumbersInv
<1>5. GlobalsInv'
  <2>1. CASE WeldSample
    <3>1. /\ weld.phase = "sonics" /\ weld'.phase = "sampled"
          /\ globals'.curve = globals.curve \cup {weld.number}
          /\ globals'.values = globals.values
      BY <2>1 DEF WeldSample, Typed, WeldTyped, GlobalsTyped
    <3>. QED BY <1>1, <1>2, <1>4, <3>1 DEF GlobalsInv, Ended
  <2>2. CASE WeldEnd /\ weld.outcome = "preheight"
    <3>1. /\ weld'.phase = "answer" /\ weld'.outcome = "preheight" /\ globals' = globals
      BY <2>2 DEF WeldEnd, Typed, WeldTyped
    <3>. QED BY <1>1, <1>2, <1>4, <3>1 DEF GlobalsInv, Ended
  <2>3. CASE WeldEnd /\ weld.outcome # "preheight"
    <3>1. /\ weld.phase = "sampled" /\ weld'.phase = "answer" /\ weld'.outcome # "preheight"
          /\ globals'.values = weld.number /\ globals'.curve = globals.curve
      BY <2>3 DEF WeldEnd, Typed, WeldTyped, GlobalsTyped
    <3>. QED BY <1>1, <1>2, <1>4, <3>1 DEF GlobalsInv, Ended
  <2>. QED BY <2>1, <2>2, <2>3
<1>6. OrderInv'
  <2>1. ~WeldAnswered'
    BY <1>1 DEF WeldAnswered
  <2>2. \A w : Owned(w) => Owned(w)'
    BY <1>1 DEF Owned
  <2>. QED BY <1>1, <1>2, <2>1, <2>2, OrderSame
<1>7. RowsInv'
  BY <1>1 DEF RowsInv
<1>8. RecipeInv'
  BY <1>1, <1>2 DEF RecipeInv
<1>9. SignatureOfWeld' /\ AlarmOfWeld' /\ ResultNamesRecipe'
  BY <1>1, RowsStay DEF TablesKept
<1>. QED BY <1>3, <1>5, <1>6, <1>7, <1>8, <1>9

\* The answers are lost together, or all that fit follow the result.
LEMMA RespondKeeps ==
  ASSUME Typed, HistoryShaped, OwnersInv, ControlRespond
  PROVE  OwnersInv'
<1>. USE DEF OwnersInv
<1>. DEFINE n == weld.number
<1>1. /\ weld.phase = "answer" /\ n \in Nat
      /\ weld'.number = n /\ weld'.outcome = weld.outcome
      /\ weld'.phase = IF weld.outcome = "good" THEN "rest" ELSE "alarm"
      /\ db' = db
  BY DEF ControlRespond, Typed, WeldTyped
<1>2. Current = {n} /\ Current' = {} /\ n \notin Waiting
  BY <1>1 DEF Current, NumbersInv
<1>3. CASE weld.outcome = "preheight"
  <2>1. UNCHANGED <<globals, queues, history>>
    BY <1>3 DEF ControlRespond
  <2>2. Waiting' = Waiting /\ Control' = Control /\ ResultQueued' = ResultQueued
    BY <2>1 DEF Waiting, Control, ResultQueued
  <2>3. NumbersInv'
    BY <1>1, <1>2, <2>1, <2>2 DEF NumbersInv
  <2>4. GlobalsInv'
    BY <1>1, <1>2, <1>3, <2>1, <2>2 DEF GlobalsInv, Ended
  <2>5. OrderInv'
    <3>1. ~WeldAnswered'
      BY <1>1, <1>3, <2>1 DEF GlobalsInv, WeldAnswered
    <3>2. \A w : Owned(w) => Owned(w)'
      BY <1>1, <2>1 DEF Owned
    <3>. QED BY <1>1, <2>1, <2>2, <3>1, <3>2, OrderSame
  <2>6. RowsInv'
    BY <1>1, <2>1 DEF RowsInv
  <2>7. RecipeInv'
    BY <1>1, <1>2, <2>1, <2>2 DEF RecipeInv
  <2>8. SignatureOfWeld' /\ AlarmOfWeld' /\ ResultNamesRecipe'
    BY <1>1, <2>1, RowsStay DEF TablesKept
  <2>. QED BY <2>3, <2>4, <2>5, <2>6, <2>7, <2>8
<1>4. CASE weld.outcome # "preheight"
  <2>. PICK q, m1, m2, m3, q1, q2, q3 :
         /\ q = Control /\ m1 = Answers[1] /\ m2 = Answers[2] /\ m3 = Answers[3]
         /\ q1 = Send(q, m1) /\ q2 = Send(q1, m2) /\ q3 = Send(q2, m3)
    OBVIOUS
  <2>1. /\ globals'.values = globals.values /\ globals'.curve = globals.curve
        /\ globals'.resultId = globals.resultId /\ globals'.recipe = globals.recipe
        /\ queues' = SendAnswers
        /\ history'.ran = history.ran /\ history'.reloaded = history.reloaded
        /\ history'.disturbed = IF Dropped(m1) THEN history.disturbed \cup {n}
                                ELSE history.disturbed
    BY <1>1, <1>4 DEF ControlRespond, Typed, GlobalsTyped, HistoryShaped
  <2>2. /\ q \in Seq(DataMessages) /\ Len(q) <= QueueMax
        /\ m1 \in DataMessages /\ m2 \in DataMessages /\ m3 \in DataMessages
        /\ m1.id = "WELD_RESULT_INSERT" /\ m2.id = "WELD_SIGN_INSERT"
        /\ m3.id = "ACTIVE_RECIPE_UPDATE" /\ m1.arg = n /\ m2.arg = n
    BY <1>1 DEF Typed, QueuesTyped, QueueNames, Control, Answers, Msg, DataMessages,
                NumberMessages, GlobalsTyped
  <2>3. /\ Control' = q3 /\ SendAnswers["Control"] = q3
        /\ \A name \in QueueNames \ {"Control"} : queues'[name] = queues[name]
    BY <2>1 DEF SendAnswers, Typed, QueuesTyped, QueueNames, Control
  <2>4. /\ q1 \in Seq(DataMessages) /\ Len(q1) <= QueueMax
        /\ InQueue(q1) \subseteq InQueue(q) \cup {m1}
    BY <2>2, Sent
  <2>5. /\ q2 \in Seq(DataMessages) /\ Len(q2) <= QueueMax
        /\ InQueue(q2) \subseteq InQueue(q1) \cup {m2}
    BY <2>2, <2>4, Sent
  <2>6. InQueue(q3) \subseteq InQueue(q) \cup {m1, m2, m3}
    <3>1. q2 \in Seq(DataMessages) /\ Len(q2) <= QueueMax /\ m3 \in DataMessages
      BY <2>2, <2>5
    <3>2. InQueue(Send(q2, m3)) \subseteq InQueue(q2) \cup {m3}
      BY <3>1, Sent
    <3>3. InQueue(q3) \subseteq InQueue(q2) \cup {m3}
      BY <3>2
    <3>. QED BY <2>4, <2>5, <3>3
  <2>7. history.disturbed \subseteq history'.disturbed
        /\ history'.disturbed \subseteq 0 .. n /\ n \in 0 .. n
    BY <1>1, <2>1 DEF NumbersInv
  <2>8. Waiting' \subseteq Waiting \cup {n}
    BY <2>2, <2>3, <2>6 DEF Waiting, Control
  <2>9. NumbersInv'
    <3>1. \A name \in QueueNames : \A m \in InQueue(queues'[name]) :
            m.id \in WeldMessages => name = "Control" /\ m.arg \in 0 .. n
      BY <2>2, <2>3, <2>6, <2>7 DEF NumbersInv, WeldMessages, Control
    <3>. QED BY <1>1, <1>2, <2>7, <2>8, <3>1 DEF NumbersInv
  <2>10. GlobalsInv'
    BY <1>1, <1>2, <1>4, <2>1, <2>7 DEF GlobalsInv, Ended
  <2>11. OrderInv'
    <3>1. Ordered(q)
      BY DEF OrderInv
    <3>2. ASSUME Fits(q)
          PROVE  Ordered(q3) /\ Follows(q3, Len(q3) + 1, n)
      <4>1. Ordered(q1) /\ Follows(q1, Len(q1) + 1, n)
        BY <2>2, <3>1, <3>2, OrderedSent
      <4>2. Ordered(q2) /\ Follows(q2, Len(q2) + 1, n)
        BY <2>2, <2>4, <4>1, OrderedSent
      <4>. QED BY <2>2, <2>5, <4>2, OrderedSent
    <3>3. ASSUME ~Fits(q)
          PROVE  q3 = q /\ n \in history'.disturbed
      <4>1. q1 = q /\ q2 = q /\ q3 = q
        BY <3>3 DEF Send
      <4>2. m1 \notin InQueue(q)
        BY <1>2, <2>2 DEF Waiting, Control
      <4>3. Dropped(m1)
        BY <2>3, <4>1, <4>2 DEF Dropped
      <4>. QED BY <2>1, <4>1, <4>3
    <3>4. \A r, i, w : Follows(r, i, w) => Follows(r, i, w)'
      BY <1>1, <2>1 DEF Follows, NoResultBefore, ResultBefore, Owned
    <3>5. Ordered(q3)
      BY <3>1, <3>2, <3>3
    <3>6. Ordered(q3)'
      BY <2>7, <3>4, <3>5 DEF Ordered
    <3>7. WeldAnswered' => Follows(q3, Len(q3) + 1, n)
      BY <1>1, <3>2, <3>3 DEF WeldAnswered
    <3>8. WeldAnswered' => Follows(Control, Len(Control) + 1, weld.number)'
      <4>. PICK w : w = n
        OBVIOUS
      <4>1. WeldAnswered' => Follows(q3, Len(q3) + 1, w)'
        BY <3>4, <3>7
      <4>. QED BY <1>1, <2>3, <4>1
    <3>. QED BY <2>3, <3>6, <3>8 DEF OrderInv
  <2>12. RowsInv'
    BY <1>1, <2>1 DEF RowsInv
  <2>13. RecipeInv'
    BY <1>1, <1>2, <1>4, <2>1, <2>7 DEF RecipeInv, GlobalsInv, Ended
  <2>14. SignatureOfWeld' /\ AlarmOfWeld' /\ ResultNamesRecipe'
    BY <1>1, <2>1, <2>7, RowsStay DEF TablesKept
  <2>. QED BY <2>9, <2>10, <2>11, <2>12, <2>13, <2>14
<1>. QED BY <1>3, <1>4

LEMMA AlarmSentKeeps ==
  ASSUME Typed, HistoryShaped, OwnersInv, ControlAlarm
  PROVE  OwnersInv'
<1>. USE DEF OwnersInv
<1>. PICK n, q, m : /\ n = weld.number /\ q = Control
                    /\ m = Msg("ALARM_LOG_INSERT", IF weld.outcome = "alarm" THEN n ELSE NoWeld)
  OBVIOUS
<1>1. /\ weld.phase = "alarm" /\ n \in Nat
      /\ weld'.number = n /\ weld'.phase = "rest" /\ weld'.outcome = weld.outcome
      /\ queues' = [queues EXCEPT !["Control"] = Send(@, m)]
      /\ UNCHANGED <<globals, db, history>>
  BY DEF ControlAlarm, Typed, WeldTyped
<1>2. /\ m \in DataMessages /\ m.id = "ALARM_LOG_INSERT" /\ m.arg \in 0 .. n
      /\ m.arg = IF weld.outcome = "alarm" THEN n ELSE NoWeld
      /\ q \in Seq(DataMessages) /\ Len(q) <= QueueMax
  BY <1>1 DEF Msg, DataMessages, NumberMessages, NoWeld, Typed, QueuesTyped, QueueNames, Control
<1>3. /\ Control' = Send(q, m)
      /\ \A name \in QueueNames \ {"Control"} : queues'[name] = queues[name]
  BY <1>1 DEF Typed, QueuesTyped, QueueNames, Control
<1>4. InQueue(Send(q, m)) \subseteq InQueue(q) \cup {m}
  BY <1>2, Sent
<1>5. Current = {} /\ Current' = {}
  BY <1>1 DEF Current
<1>6. NumbersInv' /\ Waiting' \subseteq Waiting /\ (ResultQueued' => ResultQueued)
  <2>1. \A name \in QueueNames : \A o \in InQueue(queues'[name]) :
          \/ o \in InQueue(queues[name]) \/ o.id \notin WeldMessages
          \/ name = "Control" /\ o.id = "ALARM_LOG_INSERT" /\ o.arg \in 0 .. weld.number
    BY <1>2, <1>3, <1>4 DEF Control
  <2>2. history.disturbed \subseteq 0 .. weld.number
    BY DEF NumbersInv
  <2>. QED BY <1>1, <1>5, <2>1, <2>2, NumbersStay
<1>7. GlobalsInv'
  BY <1>1, <1>6 DEF GlobalsInv, Ended
<1>8. OrderInv'
  <2>1. Ordered(q) /\ (WeldAnswered => Follows(q, Len(q) + 1, n))
    BY DEF OrderInv
  <2>2. m.arg \notin history.disturbed \cup {NoWeld} => Follows(q, Len(q) + 1, m.arg)
    BY <1>1, <1>2, <2>1 DEF WeldAnswered, GlobalsInv
  <2>3. Ordered(Send(q, m)) /\ (WeldAnswered => Follows(Send(q, m), Len(Send(q, m)) + 1, n))
    BY <1>2, <2>1, <2>2, OrderedSent
  <2>. PICK r : r = Send(q, m)
    OBVIOUS
  <2>4. \A i, w : Follows(r, i, w) => Follows(r, i, w)'
    BY <1>1 DEF Follows, NoResultBefore, ResultBefore, Owned
  <2>5. Ordered(r)'
    BY <1>1, <2>3, <2>4 DEF Ordered
  <2>6. WeldAnswered' => WeldAnswered
    BY <1>1 DEF WeldAnswered
  <2>7. WeldAnswered' => Follows(r, Len(r) + 1, n)'
    BY <2>3, <2>4, <2>6
  <2>. QED BY <1>1, <1>3, <2>5, <2>7 DEF OrderInv
<1>9. RowsInv'
  BY <1>1 DEF RowsInv
<1>10. RecipeInv'
  BY <1>1, <1>5, <1>6 DEF RecipeInv
<1>11. SignatureOfWeld' /\ AlarmOfWeld' /\ ResultNamesRecipe'
  BY <1>1, RowsStay DEF TablesKept
<1>. QED BY <1>6, <1>7, <1>8, <1>9, <1>10, <1>11

-----------------------------------------------------------------------------
(* The data task stores what it finds in the globals.                      *)

LEMMA ResultRow ==
  ASSUME NEW d \in Databases, NEW result, NEW deleted
  PROVE  LET e == StoreWeldResult(d, result, TRUE, deleted)
         IN  /\ e.resultSeq = d.resultSeq + 1
             /\ \A r \in e.results :
                  \/ r \in d.results
                  \/ /\ r.id = d.resultSeq + 1 /\ r.weld = result.weld
                     /\ r.recipe = result.recipe
<1>. DEFINE i == InsertResult(d, result)
            row == [id |-> d.resultSeq + 1, weld |-> result.weld,
                    recipe |-> result.recipe, cycle |-> result.cycle]
<1>1. /\ i.results = d.results \cup {row} /\ i.resultSeq = d.resultSeq + 1
      /\ DOMAIN i = DOMAIN d
  BY DEF Databases, InsertResult
<1>2. /\ row.id = d.resultSeq + 1 /\ row.weld = result.weld /\ row.recipe = result.recipe
  OBVIOUS
<1>. HIDE DEF i, row
<1>3. ASSUME NEW rows
      PROVE  /\ DeleteResults(i, rows).results = i.results \ rows
             /\ DeleteResults(i, rows).resultSeq = i.resultSeq
  BY <1>1 DEF DeleteResults, Databases
<1>4. ASSUME NEW e, e = i \/ e = DeleteResults(i, Oldest(i.results))
      PROVE  /\ e.resultSeq = d.resultSeq + 1
             /\ \A r \in e.results : r \in d.results \/ r = row
  BY <1>1, <1>3, <1>4
<1>5. \/ StoreWeldResult(d, result, TRUE, deleted) = i
      \/ StoreWeldResult(d, result, TRUE, deleted) = DeleteResults(i, Oldest(i.results))
  BY DEF StoreWeldResult, DeleteOldestResult, i
<1>. QED BY <1>2, <1>4, <1>5

LEMMA SignatureRow ==
  ASSUME NEW d \in Databases, NEW result, NEW curve, NEW owner, NEW ok, NEW deleted,
         NEW s \in StoreWeldSignature(d, result, curve, owner, ok, deleted).signatures
  PROVE  s \in d.signatures \/ (s.result = result /\ s.curve = curve /\ s.owner = owner)
<1>. DEFINE i == InsertSignature(d, result, curve, owner)
            row == [id |-> d.signatureSeq + 1, result |-> result, curve |-> curve,
                    owner |-> owner]
<1>1. i.signatures = d.signatures \cup {row} /\ DOMAIN i = DOMAIN d
  BY DEF Databases, InsertSignature
<1>2. row.result = result /\ row.curve = curve /\ row.owner = owner
  OBVIOUS
<1>. HIDE DEF i, row
<1>3. DeleteOldestSignature(i, TRUE).signatures = i.signatures \ Oldest(i.signatures)
  BY <1>1 DEF DeleteOldestSignature, Databases
<1>4. ASSUME NEW e, e = d \/ e = i \/ e = DeleteOldestSignature(i, TRUE), s \in e.signatures
      PROVE  s \in d.signatures \/ s = row
  BY <1>1, <1>3, <1>4
<1>5. StoreWeldSignature(d, result, curve, owner, ok, deleted)
        \in {d, i, DeleteOldestSignature(i, TRUE)}
  BY DEF StoreWeldSignature, DeleteOldestSignature, i
<1>. QED BY <1>2, <1>4, <1>5

LEMMA AlarmRow ==
  ASSUME NEW d \in Databases, NEW w, NEW result, NEW ok, NEW deleted,
         NEW a \in StoreAlarmLog(d, w, result, ok, deleted).alarms
  PROVE  a \in d.alarms \/ (a.weld = w /\ a.result = result)
<1>. DEFINE i == InsertAlarm(d, w, result)
            row == [id |-> d.alarmSeq + 1, weld |-> w, result |-> result]
<1>1. i.alarms = d.alarms \cup {row} /\ DOMAIN i = DOMAIN d
  BY DEF Databases, InsertAlarm
<1>2. row.weld = w /\ row.result = result
  OBVIOUS
<1>. HIDE DEF i, row
<1>3. DeleteOldestAlarm(i, TRUE).alarms = i.alarms \ Oldest(i.alarms)
  BY <1>1 DEF DeleteOldestAlarm, Databases
<1>4. ASSUME NEW e, e = d \/ e = i \/ e = DeleteOldestAlarm(i, TRUE), a \in e.alarms
      PROVE  a \in d.alarms \/ a = row
  BY <1>1, <1>3, <1>4
<1>5. StoreAlarmLog(d, w, result, ok, deleted) \in {d, i, DeleteOldestAlarm(i, TRUE)}
  BY DEF StoreAlarmLog, DeleteOldestAlarm, i
<1>. QED BY <1>2, <1>4, <1>5

\* A message about a weld comes from the queue of the control task.
LEMMA WeldReceived ==
  ASSUME Typed, NumbersInv, NEW id \in WeldMessages, Receives(id), queues' = Rest
  PROVE  /\ Control # <<>> /\ Control' = Tail(Control)
         /\ Head(Control).id = id /\ Head(Control).arg = Arg
         /\ Head(Control) \in InQueue(Control) /\ Arg \in 0 .. weld.number
         /\ \A name \in QueueNames : InQueue(queues'[name]) \subseteq InQueue(queues[name])
<1>1. Source \in QueueNames
  BY DEF Source, QueueNames
<1>2. queues[Source] \in Seq(DataMessages) /\ queues[Source] # <<>>
  BY <1>1 DEF Typed, QueuesTyped, Receives
<1>3. /\ InQueue(Tail(queues[Source])) \subseteq InQueue(queues[Source])
      /\ Head(queues[Source]) \in InQueue(queues[Source])
  BY <1>2, TakenFrom
<1>4. /\ queues'[Source] = Tail(queues[Source])
      /\ \A other \in QueueNames \ {Source} : queues'[other] = queues[other]
  BY <1>1 DEF Typed, QueuesTyped, Rest
<1>5. Head(queues[Source]).id = id /\ Head(queues[Source]).arg = Arg
  BY DEF Receives, Arg
<1>6. Source = "Control" /\ Arg \in 0 .. weld.number
  BY <1>1, <1>3, <1>5 DEF NumbersInv
<1>. QED BY <1>2, <1>3, <1>4, <1>5, <1>6 DEF Control

\* The first message finds its weld's result the latest.
LEMMA FirstOwned ==
  ASSUME Typed, OrderInv, Control # <<>>,
         Head(Control).id \in {"WELD_SIGN_INSERT", "ALARM_LOG_INSERT"},
         Head(Control).arg \notin history.disturbed \cup {NoWeld}
  PROVE  Owned(Head(Control).arg)
<1>1. Control \in Seq(DataMessages)
  BY DEF Typed, QueuesTyped, QueueNames, Control
<1>2. 1 \in DOMAIN Control /\ Control[1] = Head(Control) /\ 1 .. (1 - 1) = {}
  BY <1>1
<1>3. Follows(Control, 1, Head(Control).arg)
  BY <1>2 DEF OrderInv, Ordered
<1>. QED BY <1>2, <1>3 DEF Follows, ResultBefore


LEMMA StoreResultKeeps ==
  ASSUME Typed, HistoryShaped, OwnersInv, DataStoreResult
  PROVE  OwnersInv'
<1>. USE DEF OwnersInv
<1>. DEFINE n == weld.number
            result == [weld |-> globals.values, recipe |-> globals.recipe,
                       cycle |-> globals.cycle]
<1>1. PICK fault \in Faults :
        /\ db' = StoreWeldResult(db, result, fault # "insert", fault # "delete")
        /\ history' = [history EXCEPT
             !.disturbed = IF fault = "insert" THEN @ \cup {Arg} ELSE @,
             !.kept = Kept("results", fault = "delete" /\ ResultsFull(db)),
             !.torn = @ \/ fault # "insert"]
  BY DEF DataStoreResult
<1>2. /\ weld' = weld /\ n \in Nat
      /\ globals'.values = globals.values /\ globals'.curve = globals.curve
      /\ globals'.resultId = db'.resultSeq /\ globals'.recipe = globals.recipe
      /\ history'.ran = history.ran /\ history'.reloaded = history.reloaded
      /\ history'.disturbed = IF fault = "insert" THEN history.disturbed \cup {Arg}
                              ELSE history.disturbed
  BY <1>1 DEF DataStoreResult, Typed, WeldTyped, GlobalsTyped, HistoryShaped
<1>3. /\ Control # <<>> /\ Control' = Tail(Control)
      /\ Head(Control).id = "WELD_RESULT_INSERT" /\ Head(Control).arg = Arg
      /\ Head(Control) \in InQueue(Control) /\ Arg \in 0 .. n
      /\ \A name \in QueueNames : InQueue(queues'[name]) \subseteq InQueue(queues[name])
  BY WeldReceived DEF DataStoreResult, WeldMessages
<1>4. Arg \in Waiting /\ ResultQueued
  BY <1>3 DEF Waiting, Control, ResultQueued
<1>5. /\ Current' = Current
      /\ history.disturbed \subseteq history'.disturbed
      /\ history'.disturbed \subseteq 0 .. n
  BY <1>2, <1>3 DEF Current, NumbersInv
<1>6. NumbersInv' /\ Waiting' \subseteq Waiting /\ (ResultQueued' => ResultQueued)
  BY <1>2, <1>3, <1>5, NumbersStay
<1>7. GlobalsInv'
  BY <1>2, <1>5, <1>6 DEF GlobalsInv, Ended
<1>8. /\ db.resultSeq \in Nat /\ db'.resultSeq \in db.resultSeq .. (db.resultSeq + 1)
      /\ \A r \in db'.results :
           \/ r \in db.results
           \/ /\ r.id = db.resultSeq + 1 /\ db'.resultSeq = db.resultSeq + 1
              /\ r.weld = globals.values /\ r.recipe = globals.recipe
  <2>1. db \in Databases /\ db.resultSeq \in Nat
    BY DEF Typed, DbTyped, Databases
  <2>2. CASE fault = "insert"
    <3>1. db' = db
      BY <1>1, <2>2, Zenon DEF StoreWeldResult
    <3>. QED BY <2>1, <3>1
  <2>3. CASE fault # "insert"
    <3>1. db' = StoreWeldResult(db, result, TRUE, fault # "delete")
      BY <1>1, <2>3
    <3>2. result.weld = globals.values /\ result.recipe = globals.recipe
      OBVIOUS
    <3>. HIDE DEF result
    <3>. DEFINE deleted == fault # "delete"
    <3>. HIDE DEF deleted
    <3>3. LET e == StoreWeldResult(db, result, TRUE, deleted)
          IN  /\ e.resultSeq = db.resultSeq + 1
              /\ \A r \in e.results :
                   \/ r \in db.results
                   \/ /\ r.id = db.resultSeq + 1 /\ r.weld = result.weld
                      /\ r.recipe = result.recipe
      BY <2>1, ResultRow
    <3>4. db' = StoreWeldResult(db, result, TRUE, deleted)
      BY <3>1 DEF deleted
    <3>5. /\ db'.resultSeq = db.resultSeq + 1
          /\ \A r \in db'.results :
               \/ r \in db.results
               \/ /\ r.id = db.resultSeq + 1 /\ r.weld = result.weld
                  /\ r.recipe = result.recipe
      BY <3>3, <3>4
    <3>6. db'.resultSeq \in db.resultSeq .. (db.resultSeq + 1)
      BY <2>1, <3>5
    <3>. QED BY <2>1, <3>2, <3>5, <3>6
  <2>. QED BY <2>2, <2>3
<1>9. fault # "insert" => db'.resultSeq = db.resultSeq + 1
  <2>1. SUFFICES ASSUME fault # "insert" PROVE db'.resultSeq = db.resultSeq + 1
    OBVIOUS
  <2>2. db' = StoreWeldResult(db, result, TRUE, fault # "delete")
    BY <1>1, <2>1
  <2>3. db \in Databases
    BY DEF Typed, DbTyped
  <2>. HIDE DEF result
  <2>. QED BY <2>2, <2>3, ResultRow
<1>10. \A r \in db.results : r.id \in 1 .. db.resultSeq /\ r.weld \in 0 .. n
  BY DEF Typed, DbTyped, Numbered, Ids, RowsInv
<1>11. OrderInv'
  <2>1. ASSUME NEW w, w \notin history'.disturbed \cup {NoWeld}, Arg = w
        PROVE  Owned(w)'
    <3>1. fault # "insert" /\ w \notin history.disturbed
      BY <1>2, <2>1
    <3>2. globals.values = w
      BY <1>4, <2>1, <3>1 DEF NumbersInv, GlobalsInv
    <3>3. \A r \in db'.results : r.id = db.resultSeq + 1 => r.weld = w
      BY <1>8, <1>10, <3>2
    <3>. QED BY <1>2, <1>9, <3>1, <3>3 DEF Owned, WithId
  <2>2. \A w : w \notin history'.disturbed \cup {NoWeld} =>
                 (Head(Control).arg = w => Owned(w)')
    BY <1>3, <2>1
  <2>3. WeldAnswered' => WeldAnswered
    BY <1>2 DEF WeldAnswered
  <2>. QED BY <1>2, <1>3, <1>5, <2>2, <2>3, OrderTaken
<1>12. RowsInv'
  <2>1. globals.values \in 0 .. n
    BY <1>2 DEF GlobalsInv, NoWeld
  <2>2. db'.alarms = db.alarms
    BY ResultStep
  <2>. QED BY <1>2, <1>8, <1>10, <2>1, <2>2 DEF RowsInv
<1>13. RecipeInv'
  BY <1>2, <1>5, <1>6 DEF RecipeInv
<1>14. SignatureOfWeld'
  <2>1. db'.signatures \subseteq db.signatures
    BY ResultStep
  <2>2. \A s \in db.signatures : s.result \in 1 .. db.resultSeq
    BY DEF Typed, DbTyped, Numbered, Referring
  <2>3. \A s \in db.signatures :
          WithId(db'.results, s.result) \subseteq WithId(db.results, s.result)
    BY <1>8, <2>2 DEF WithId
  <2>. QED BY <1>5, <2>1, <2>3 DEF SignatureOfWeld
<1>15. AlarmOfWeld'
  <2>1. db'.alarms = db.alarms
    BY ResultStep
  <2>2. \A a \in db.alarms : a.weld # NoWeld => a.result \in 0 .. db.resultSeq
    BY DEF RowsInv
  <2>3. \A a \in db.alarms : a.weld # NoWeld =>
          WithId(db'.results, a.result) \subseteq WithId(db.results, a.result)
    BY <1>8, <2>2 DEF WithId
  <2>. QED BY <1>5, <2>1, <2>3 DEF AlarmOfWeld
<1>16. ResultNamesRecipe'
  <2>1. globals.values \in DOMAIN history.ran \ (history.disturbed \cup history.reloaded)
          => globals.recipe = history.ran[globals.values]
    BY <1>4 DEF RecipeInv
  <2>. QED BY <1>2, <1>5, <1>8, <2>1 DEF ResultNamesRecipe
<1>. QED BY <1>6, <1>7, <1>11, <1>12, <1>13, <1>14, <1>15, <1>16

\* The signature and the alarm go under the latest result.
LEMMA StoreSignatureKeeps ==
  ASSUME Typed, HistoryShaped, OwnersInv, DataStoreSignature
  PROVE  OwnersInv'
<1>. USE DEF OwnersInv
<1>1. PICK fault \in Faults :
        db' = StoreWeldSignature(db, globals.resultId, globals.curve, Arg,
                                 fault # "insert", fault # "delete")
  BY DEF DataStoreSignature
<1>2. /\ UNCHANGED <<weld, globals>>
      /\ history'.ran = history.ran /\ history'.reloaded = history.reloaded
      /\ history'.disturbed = history.disturbed
      /\ db'.results = db.results /\ db'.resultSeq = db.resultSeq
      /\ db'.alarms = db.alarms
  <2>1. UNCHANGED <<weld, globals>>
    BY DEF DataStoreSignature
  <2>2. /\ history'.ran = history.ran /\ history'.reloaded = history.reloaded
        /\ history'.disturbed = history.disturbed
    BY DEF DataStoreSignature, HistoryShaped
  <2>. QED BY <2>1, <2>2, SignatureStep
<1>3. /\ Control # <<>> /\ Control' = Tail(Control)
      /\ Head(Control).id = "WELD_SIGN_INSERT" /\ Head(Control).arg = Arg
      /\ Head(Control) \in InQueue(Control) /\ Arg \in 0 .. weld.number
      /\ \A name \in QueueNames : InQueue(queues'[name]) \subseteq InQueue(queues[name])
  BY WeldReceived DEF DataStoreSignature, WeldMessages
<1>4. Arg \in Waiting /\ Current' = Current
  BY <1>2, <1>3 DEF Waiting, Control, Current
<1>5. NumbersInv' /\ Waiting' \subseteq Waiting /\ (ResultQueued' => ResultQueued)
  <2>1. history'.disturbed \subseteq 0 .. weld.number
    BY <1>2 DEF NumbersInv
  <2>. QED BY <1>2, <1>3, <1>4, <2>1, NumbersStay
<1>6. GlobalsInv'
  BY <1>2, <1>5 DEF GlobalsInv, Ended
<1>7. OrderInv'
  <2>1. (\A w : Owned(w) => Owned(w)') /\ (WeldAnswered' => WeldAnswered)
    BY <1>2 DEF Owned, WeldAnswered
  <2>. QED BY <1>2, <1>3, <2>1, OrderTaken
<1>8. RowsInv'
  BY <1>2 DEF RowsInv
<1>9. RecipeInv'
  BY <1>2, <1>4, <1>5 DEF RecipeInv
<1>10. SignatureOfWeld'
  <2>1. db \in Databases
    BY DEF Typed, DbTyped
  <2>2. \A s \in db'.signatures :
          \/ s \in db.signatures
          \/ s.result = globals.resultId /\ s.curve = globals.curve /\ s.owner = Arg
    BY <1>1, <2>1, SignatureRow
  <2>3. ASSUME Arg \notin history.disturbed
        PROVE  globals.curve = {Arg} /\ Owned(Arg)
    <3>1. Arg = weld.number /\ Arg # NoWeld
      BY <1>4, <2>3 DEF NumbersInv
    <3>2. globals.curve = {Arg}
      BY <1>4, <2>3, <3>1 DEF GlobalsInv
    <3>3. Owned(Arg)
      BY <1>3, <2>3, <3>1, FirstOwned
    <3>. QED BY <3>2, <3>3
  <2>. QED BY <1>2, <2>2, <2>3 DEF SignatureOfWeld, Owned
<1>11. AlarmOfWeld' /\ ResultNamesRecipe'
  BY <1>2 DEF AlarmOfWeld, ResultNamesRecipe
<1>. QED BY <1>5, <1>6, <1>7, <1>8, <1>9, <1>10, <1>11

LEMMA StoreAlarmKeeps ==
  ASSUME Typed, HistoryShaped, OwnersInv, DataStoreAlarm
  PROVE  OwnersInv'
<1>. USE DEF OwnersInv
<1>. DEFINE result == IF Arg = NoWeld THEN NoRow ELSE globals.resultId
<1>1. PICK fault \in Faults :
        db' = StoreAlarmLog(db, Arg, result, fault # "insert", fault # "delete")
  BY DEF DataStoreAlarm
<1>2. /\ UNCHANGED <<weld, globals>>
      /\ history'.ran = history.ran /\ history'.reloaded = history.reloaded
      /\ history'.disturbed = history.disturbed
      /\ db'.results = db.results /\ db'.resultSeq = db.resultSeq
      /\ db'.signatures = db.signatures
  <2>1. UNCHANGED <<weld, globals>>
    BY DEF DataStoreAlarm
  <2>2. /\ history'.ran = history.ran /\ history'.reloaded = history.reloaded
        /\ history'.disturbed = history.disturbed
    BY DEF DataStoreAlarm, HistoryShaped
  <2>. QED BY <2>1, <2>2, AlarmStep
<1>3. /\ Control # <<>> /\ Control' = Tail(Control)
      /\ Head(Control).id = "ALARM_LOG_INSERT" /\ Head(Control).arg = Arg
      /\ \A name \in QueueNames : InQueue(queues'[name]) \subseteq InQueue(queues[name])
  BY WeldReceived DEF DataStoreAlarm, WeldMessages
<1>4. Current' = Current
  BY <1>2 DEF Current
<1>5. NumbersInv' /\ Waiting' \subseteq Waiting /\ (ResultQueued' => ResultQueued)
  <2>1. history'.disturbed \subseteq 0 .. weld.number
    BY <1>2 DEF NumbersInv
  <2>. QED BY <1>2, <1>3, <1>4, <2>1, NumbersStay
<1>6. GlobalsInv'
  BY <1>2, <1>5 DEF GlobalsInv, Ended
<1>7. OrderInv'
  <2>1. (\A w : Owned(w) => Owned(w)') /\ (WeldAnswered' => WeldAnswered)
    BY <1>2 DEF Owned, WeldAnswered
  <2>. QED BY <1>2, <1>3, <2>1, OrderTaken
<1>8. \A a \in db'.alarms : a \in db.alarms \/ (a.weld = Arg /\ a.result = result)
  <2>1. db \in Databases
    BY DEF Typed, DbTyped
  <2>. HIDE DEF result
  <2>. QED BY <1>1, <2>1, AlarmRow
<1>9. RowsInv'
  BY <1>2, <1>8 DEF RowsInv
<1>10. RecipeInv'
  BY <1>2, <1>4, <1>5 DEF RecipeInv
<1>11. AlarmOfWeld'
  <2>1. Arg \notin history.disturbed \cup {NoWeld} => Owned(Arg)
    BY <1>3, FirstOwned
  <2>. QED BY <1>2, <1>8, <2>1 DEF AlarmOfWeld, Owned
<1>12. SignatureOfWeld' /\ ResultNamesRecipe'
  BY <1>2 DEF SignatureOfWeld, ResultNamesRecipe
<1>. QED BY <1>5, <1>6, <1>7, <1>9, <1>10, <1>11, <1>12

-----------------------------------------------------------------------------
(* The start of the program, and the theorems.                             *)

\* Nothing is under way when the program starts.
Idle == /\ weld.phase = "rest" /\ weld.outcome = "good"
        /\ \A name \in QueueNames : queues[name] = <<>>
        /\ globals.values = NoWeld /\ globals.resultId = NoRow

LEMMA IdleOwners ==
  ASSUME Idle, weld.number \in Nat, history.disturbed \subseteq 0 .. weld.number,
         NoWeld \notin DOMAIN history.ran, db.resultSeq \in Nat
  PROVE  NumbersInv /\ GlobalsInv /\ OrderInv /\ RecipeInv
         /\ globals.resultId \in 0 .. db.resultSeq
<1>. USE DEF Idle
<1>1. /\ Control = <<>> /\ Waiting = {} /\ Current = {} /\ ~ResultQueued
      /\ \A name \in QueueNames : InQueue(queues[name]) = {}
  BY DEF Control, Waiting, Current, ResultQueued, InQueue, QueueNames
<1>2. NumbersInv
  BY <1>1 DEF NumbersInv
<1>3. GlobalsInv
  BY <1>1 DEF GlobalsInv, Ended
<1>4. OrderInv
  BY <1>1 DEF OrderInv, Ordered, WeldAnswered
<1>5. RecipeInv
  BY <1>1 DEF RecipeInv
<1>. QED BY <1>2, <1>3, <1>4, <1>5 DEF NoRow

LEMMA RestartKeeps ==
  ASSUME Typed, HistoryShaped, OwnersInv, Restart
  PROVE  OwnersInv'
<1>1. /\ weld'.number = weld.number /\ weld'.phase = "rest" /\ weld'.outcome = "good"
      /\ \A name \in QueueNames : queues'[name] = <<>>
      /\ globals'.values = NoWeld /\ globals'.resultId = NoRow
      /\ db' = db /\ weld.number \in Nat /\ db.resultSeq \in Nat
      /\ history'.ran = history.ran /\ history'.disturbed = history.disturbed
      /\ history'.reloaded = history.reloaded
  BY DEF Restart, BootGlobals, Typed, WeldTyped, DbTyped, Databases, HistoryShaped
<1>2. Idle'
  BY <1>1 DEF Idle
<1>3. /\ history.disturbed \subseteq 0 .. weld.number /\ NoWeld \notin DOMAIN history.ran
  BY DEF OwnersInv, NumbersInv, RecipeInv
<1>4. /\ NumbersInv' /\ GlobalsInv' /\ OrderInv' /\ RecipeInv'
      /\ globals'.resultId \in 0 .. db'.resultSeq
  <2>1. (Idle /\ weld.number \in Nat /\ history.disturbed \subseteq 0 .. weld.number
           /\ NoWeld \notin DOMAIN history.ran /\ db.resultSeq \in Nat
         => NumbersInv /\ GlobalsInv /\ OrderInv /\ RecipeInv
              /\ globals.resultId \in 0 .. db.resultSeq)'
    BY IdleOwners, PTL
  <2>. QED BY <1>1, <1>2, <1>3, <2>1
<1>5. RowsInv'
  BY <1>1, <1>4 DEF OwnersInv, RowsInv
<1>6. SignatureOfWeld' /\ AlarmOfWeld' /\ ResultNamesRecipe'
  BY <1>1, RowsStay DEF TablesKept, OwnersInv
<1>. QED BY <1>4, <1>5, <1>6 DEF OwnersInv

LEMMA InitOwners == Init => OwnersInv
<1>. SUFFICES ASSUME Init
              PROVE  OwnersInv
  OBVIOUS
<1>1. /\ \A r \in db.results \cup db.alarms : r.weld = NoWeld
      /\ \A s \in db.signatures : s.owner = NoWeld /\ s.curve = {NoWeld}
      /\ db \in Databases
      /\ \A s \in db.signatures : s.result \in Ids(db.results)
  BY StartsAllowed DEF Init, Referring
<1>2. /\ weld.number = NoWeld /\ weld.phase = "rest" /\ weld.outcome = "good"
      /\ \A name \in QueueNames : queues[name] = <<>>
      /\ globals.values = NoWeld /\ globals.resultId = NoRow
      /\ history.disturbed = {} /\ DOMAIN history.ran = 1 .. work["weld"]
  BY DEF Init, BootGlobals
<1>3. NoWeld \notin DOMAIN history.ran /\ db.resultSeq \in Nat
  BY <1>1, <1>2 DEF NoWeld, Databases
<1>4. NumbersInv /\ GlobalsInv /\ OrderInv /\ RecipeInv /\ globals.resultId \in 0 .. db.resultSeq
  BY <1>2, <1>3, IdleOwners DEF Idle, NoWeld
<1>5. RowsInv
  BY <1>1, <1>2, <1>4 DEF RowsInv, NoWeld
<1>6. SignatureOfWeld /\ AlarmOfWeld /\ ResultNamesRecipe
  BY <1>1, <1>3 DEF SignatureOfWeld, AlarmOfWeld, ResultNamesRecipe, WithId
<1>. QED BY <1>4, <1>5, <1>6 DEF OwnersInv

LEMMA OwnersStep ==
  ASSUME Typed, HistoryShaped, OwnersInv, [Next]_vars
  PROVE  OwnersInv'
<1>1. CASE HmiRequest \/ ExtRecall \/ ExtAnswer \/ UITask \/ UNCHANGED vars
  BY <1>1, OthersPass, PassKeeps
<1>2. CASE DataUpdateActive \/ DataReadActive \/ DataStoreRecipe \/ DataDeleteRecipe
             \/ DataLatestPage \/ DataNextPage \/ DataOtherPage \/ DataQueryByName
  BY <1>2, DataPasses, PassKeeps
<1>13. CASE DataAssignActive
  BY <1>13, AssignActivePasses, PassKeeps
<1>3. CASE DataAssignRecipe
  BY <1>3, AssignKeeps
<1>4. CASE DataHistoryCurve
  BY <1>4, CurveKeeps
<1>5. CASE WeldStart
  BY <1>5, StartKeeps
<1>6. CASE WeldSample \/ WeldEnd
  BY <1>6, EndKeeps
<1>7. CASE ControlRespond
  BY <1>7, RespondKeeps
<1>8. CASE ControlAlarm
  BY <1>8, AlarmSentKeeps
<1>9. CASE DataStoreResult
  BY <1>9, StoreResultKeeps
<1>10. CASE DataStoreSignature
  BY <1>10, StoreSignatureKeeps
<1>11. CASE DataStoreAlarm
  BY <1>11, StoreAlarmKeeps
<1>12. CASE Restart
  BY <1>12, RestartKeeps
<1>. QED BY <1>1, <1>2, <1>3, <1>4, <1>5, <1>6, <1>7, <1>8, <1>9, <1>10, <1>11, <1>12,
         <1>13
     DEF Next, Welding, DataTask

LEMMA AlwaysOwned == Spec => []OwnersInv
<1>1. Typed /\ HistoryShaped /\ OwnersInv /\ [Next]_vars => OwnersInv'
  BY OwnersStep
<1>. QED BY <1>1, InitOwners, AlwaysTyped, AlwaysShaped, PTL DEF Spec

\* The property of the run `records': the curve stored for a weld is its own
\* and hangs on its own result, unless a later weld, a curve of the history,
\* a refused insert or a full queue came between the weld and its storing.
THEOREM SignaturesAreOfWelds == Spec => []SignatureOfWeld
<1>1. OwnersInv => SignatureOfWeld
  BY DEF OwnersInv
<1>. QED BY <1>1, AlwaysOwned, PTL

\* The property of the run `records': an alarm is logged under the result of
\* the weld that raised it, but for the same disturbances.
THEOREM AlarmsAreOfWelds == Spec => []AlarmOfWeld
<1>1. OwnersInv => AlarmOfWeld
  BY DEF OwnersInv
<1>. QED BY <1>1, AlwaysOwned, PTL

\* The property of the run `records': a result names the recipe its weld ran
\* with, unless the active recipe was loaded anew before it was stored.
THEOREM ResultsNameRecipes == Spec => []ResultNamesRecipe
<1>1. OwnersInv => ResultNamesRecipe
  BY DEF OwnersInv
<1>. QED BY <1>1, AlwaysOwned, PTL

=============================================================================
