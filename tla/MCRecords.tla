----------------------------- MODULE MCRecords ------------------------------
(***************************************************************************)
(* Instances of Records: a database near its limits and, for each question *)
(* that the properties ask, a budget of requests, welds and faults.        *)
(***************************************************************************)
EXTENDS Records

Row(id, owner) == [id |-> id, weld |-> owner, recipe |-> 1, cycle |-> 1]

\* Two recipes, the older one active; results of earlier welds (NoWeld), of
\* which the oldest still has its signature.
Base(results) ==
  [results |-> {Row(id, NoWeld) : id \in 1 .. results}, resultSeq |-> results,
   signatures |-> {[id |-> 1, result |-> 1, curve |-> {NoWeld}, owner |-> NoWeld]},
   signatureSeq |-> 1,
   alarms |-> {[id |-> id, weld |-> NoWeld, result |-> NoRow] : id \in 1 .. results},
   alarmSeq |-> results,
   recipes |-> {[id |-> 1, name |-> "A"], [id |-> 2, name |-> "B"]}, recipeSeq |-> 2,
   active |-> {[recipe |-> 1, cycle |-> 0]}]

Nothing == [kind \in Kinds |-> 0]

\* Welds whose data are overtaken or lost, or overwritten and refused.
WeldsWork == [Nothing EXCEPT !["weld"] = 3]
WeldWork == [Nothing EXCEPT !["weld"] = 2, !["curve"] = 1, !["fail"] = 1]
\* The active recipe chosen, loaded and reset around a weld,
ChoiceWork == [Nothing EXCEPT !["weld"] = 1, !["set"] = 1, !["info"] = 1, !["clear"] = 1]
\* ... chosen when the power goes,
RestartWork == [Nothing EXCEPT !["weld"] = 1, !["set"] = 1, !["info"] = 1, !["restart"] = 1]
\* ... recalled by the external link while the HMI chooses,
RecallWork == [Nothing EXCEPT !["weld"] = 1, !["set"] = 1, !["recall"] = 1, !["info"] = 1]
\* ... and deleted.
DeleteWork == [Nothing EXCEPT !["set"] = 1, !["recall"] = 1, !["delete"] = 2, !["fail"] = 1]
\* The library of results in pages, alone and with what moves it.
PagesWork == [Nothing EXCEPT !["latest"] = 2, !["next"] = 2]
PageWork == [Nothing EXCEPT !["weld"] = 1, !["latest"] = 1, !["next"] = 2, !["other"] = 1]
\* The recipe under edit, and recipes at the limit.
EditWork == [Nothing EXCEPT !["insert"] = 2, !["default"] = 1, !["delete"] = 1, !["set"] = 1,
                            !["fail"] = 1]

AllStarts == {Base(1), Base(3)}
AllWorks == {WeldsWork, WeldWork, ChoiceWork, RestartWork, RecallWork, DeleteWork, PagesWork,
             PageWork, EditWork}

\* Nothing but recipes, and nothing refused.
OnlyEdits == {[EditWork EXCEPT !["fail"] = 0]}
=============================================================================
