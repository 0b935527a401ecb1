--------------------------- MODULE Records_proofs ---------------------------
(***************************************************************************)
(* What the database keeps, for every length of the queues and pages, every *)
(* limit of the tables, every database the program finds, and any number   *)
(* of welds, requests, faults and restarts.                                *)
(***************************************************************************)
EXTENDS Records, TLAPS, FiniteSetTheorems

-----------------------------------------------------------------------------
(* Rows.                                                                   *)

\* A table with rows has an oldest one.
LEMMA OldestExists ==
  ASSUME NEW rows, rows # {}, \A r \in rows : r.id \in Nat
  PROVE  Oldest(rows) # {}
<1>. DEFINE T == {1 .. r.id : r \in rows}
<1>1. T \subseteq FiniteSubsetsOf(Nat) /\ T # {}
  <2>1. \A n \in Nat : 1 .. n \in SUBSET Nat /\ IsFiniteSet(1 .. n)
    BY FS_Interval
  <2>. QED BY <2>1 DEF FiniteSubsetsOf
<1>2. PICK U \in T : \A V \in T : <<V, U>> \notin StrictSubsetOrdering(Nat)
  BY <1>1, WFMin, FS_StrictSubsetOrderingWellFounded
<1>3. PICK r \in rows : U = 1 .. r.id
  BY <1>2
<1>4. ASSUME NEW other \in rows, other.id < r.id
      PROVE  FALSE
  <2>1. 1 .. other.id \in T
    OBVIOUS
  <2>2. \A m, n \in Nat : m < n => /\ <<1 .. m, 1 .. n>> \in (SUBSET Nat) \X (SUBSET Nat)
                                    /\ n \in 1 .. n /\ n \notin 1 .. m
                                    /\ 1 .. m \subseteq 1 .. n
    OBVIOUS
  <2>3. \A m, n \in Nat : m < n => <<1 .. m, 1 .. n>> \in StrictSubsetOrdering(Nat)
    BY <2>2, Zenon DEF StrictSubsetOrdering
  <2>. QED BY <1>2, <1>3, <1>4, <2>1, <2>3
<1>5. \A other \in rows : r.id <= other.id
  BY <1>4
<1>. QED BY <1>5 DEF Oldest

\* ... and a newest one, if there are no more IDs than the table gave.
LEMMA NewestExists ==
  ASSUME NEW rows, rows # {}, NEW n \in Nat, \A r \in rows : r.id \in 1 .. n
  PROVE  \E r \in rows : \A other \in rows : other.id <= r.id
<1>. DEFINE T == {r.id .. n : r \in rows}
<1>1. T \subseteq FiniteSubsetsOf(Nat) /\ T # {}
  <2>1. \A m \in 1 .. n : m .. n \in SUBSET Nat /\ IsFiniteSet(m .. n)
    BY FS_Interval
  <2>. QED BY <2>1 DEF FiniteSubsetsOf
<1>2. PICK U \in T : \A V \in T : <<V, U>> \notin StrictSubsetOrdering(Nat)
  BY <1>1, WFMin, FS_StrictSubsetOrderingWellFounded
<1>3. PICK r \in rows : U = r.id .. n
  BY <1>2
<1>4. ASSUME NEW other \in rows, r.id < other.id
      PROVE  FALSE
  <2>1. other.id .. n \in T
    OBVIOUS
  <2>2. \A k, m \in 1 .. n : k < m => /\ <<m .. n, k .. n>> \in (SUBSET Nat) \X (SUBSET Nat)
                                       /\ k \in k .. n /\ k \notin m .. n
                                       /\ m .. n \subseteq k .. n
    OBVIOUS
  <2>3. \A k, m \in 1 .. n : k < m => <<m .. n, k .. n>> \in StrictSubsetOrdering(Nat)
    BY <2>2, Zenon DEF StrictSubsetOrdering
  <2>. QED BY <1>2, <1>3, <1>4, <2>1, <2>3
<1>. QED BY <1>4

\* One row more, or the oldest row less.
LEMMA RowInserted ==
  ASSUME NEW rows, IsFiniteSet(rows), NEW row
  PROVE  /\ IsFiniteSet(rows \cup {row})
         /\ Cardinality(rows) \in Nat
         /\ Cardinality(rows \cup {row}) \in Nat
         /\ Cardinality(rows \cup {row}) <= Cardinality(rows) + 1
BY FS_AddElement, FS_CardinalityType

LEMMA RowsDeleted ==
  ASSUME NEW rows, IsFiniteSet(rows), NEW gone
  PROVE  /\ IsFiniteSet(rows \ gone)
         /\ Cardinality(rows \ gone) \in Nat
         /\ Cardinality(rows \ gone) <= Cardinality(rows)
<1>1. rows \ gone \in SUBSET rows
  OBVIOUS
<1>. QED BY <1>1, FS_Subset, FS_CardinalityType

LEMMA OldestDeleted ==
  ASSUME NEW rows, IsFiniteSet(rows), rows # {}, \A r \in rows : r.id \in Nat
  PROVE  Cardinality(rows \ Oldest(rows)) <= Cardinality(rows) - 1
<1>1. PICK r \in rows : r \in Oldest(rows)
  BY OldestExists DEF Oldest
<1>2. rows \ Oldest(rows) \in SUBSET (rows \ {r})
  BY <1>1
<1>3. /\ IsFiniteSet(rows \ {r})
      /\ Cardinality(rows \ {r}) = Cardinality(rows) - 1
  BY FS_RemoveElement
<1>. QED BY <1>2, <1>3, FS_Subset, FS_CardinalityType

-----------------------------------------------------------------------------
(* Queues.                                                                 *)

LEMMA Sent ==
  ASSUME NEW S, NEW q \in Seq(S), NEW m \in S, Len(q) <= QueueMax
  PROVE  /\ Send(q, m) \in Seq(S)
         /\ Len(Send(q, m)) <= QueueMax
         /\ InQueue(q) \subseteq InQueue(Send(q, m))
         /\ InQueue(Send(q, m)) \subseteq InQueue(q) \cup {m}
         /\ Fits(q) => m \in InQueue(Send(q, m))
<1>1. Len(q) \in Nat /\ QueueMax \in Nat
  BY RecordsAssumption
<1>2. CASE Fits(q)
  <2>1. Send(q, m) = Append(q, m)
    BY <1>2 DEF Send
  <2>2. /\ Append(q, m) \in Seq(S)
        /\ Len(Append(q, m)) = Len(q) + 1
        /\ \A i \in 1 .. Len(q) : Append(q, m)[i] = q[i]
        /\ Append(q, m)[Len(q) + 1] = m
    OBVIOUS
  <2>3. DOMAIN q = 1 .. Len(q) /\ DOMAIN Append(q, m) = 1 .. (Len(q) + 1)
    BY <2>2
  <2>4. Len(q) + 1 <= QueueMax
    BY <1>1, <1>2 DEF Fits
  <2>5. \A i \in 1 .. (Len(q) + 1) : i \in 1 .. Len(q) \/ i = Len(q) + 1
    BY <1>1
  <2>6. InQueue(q) \subseteq InQueue(Append(q, m))
    BY <1>1, <2>2, <2>3 DEF InQueue
  <2>7. InQueue(Append(q, m)) \subseteq InQueue(q) \cup {m}
    BY <2>2, <2>3, <2>5 DEF InQueue
  <2>8. m \in InQueue(Append(q, m))
    BY <1>1, <2>2, <2>3 DEF InQueue
  <2>. QED BY <2>1, <2>2, <2>4, <2>6, <2>7, <2>8
<1>3. CASE ~Fits(q)
  BY <1>3 DEF Send
<1>. QED BY <1>2, <1>3

LEMMA TakenFrom ==
  ASSUME NEW S, NEW q \in Seq(S), q # <<>>
  PROVE  /\ Head(q) \in S
         /\ Tail(q) \in Seq(S)
         /\ Len(Tail(q)) <= Len(q)
         /\ InQueue(q) = {Head(q)} \cup InQueue(Tail(q))
<1>1. /\ Len(q) \in Nat /\ Len(q) # 0
      /\ DOMAIN q = 1 .. Len(q)
      /\ Head(q) = q[1] /\ Head(q) \in S
      /\ Tail(q) \in Seq(S) /\ Len(Tail(q)) = Len(q) - 1
      /\ DOMAIN Tail(q) = 1 .. (Len(q) - 1)
      /\ \A i \in 1 .. (Len(q) - 1) : Tail(q)[i] = q[i + 1]
  OBVIOUS
<1>2. ASSUME NEW i \in 1 .. Len(q), i # 1
      PROVE  i - 1 \in DOMAIN Tail(q) /\ Tail(q)[i - 1] = q[i]
  <2>1. i - 1 \in 1 .. (Len(q) - 1) /\ (i - 1) + 1 = i
    BY <1>1, <1>2
  <2>. QED BY <1>1, <2>1
<1>3. \A i \in 1 .. (Len(q) - 1) : i + 1 \in 1 .. Len(q)
  BY <1>1
<1>4. InQueue(q) \subseteq {Head(q)} \cup InQueue(Tail(q))
  <2>. SUFFICES ASSUME NEW i \in DOMAIN q
                PROVE  q[i] = Head(q) \/ q[i] \in InQueue(Tail(q))
    BY Zenon DEF InQueue
  <2>1. CASE i = 1
    BY <1>1, <2>1
  <2>2. CASE i # 1
    <3>1. i - 1 \in DOMAIN Tail(q) /\ Tail(q)[i - 1] = q[i]
      BY <1>1, <1>2, <2>2
    <3>. QED BY <3>1, Zenon DEF InQueue
  <2>. QED BY <2>1, <2>2
<1>5. InQueue(Tail(q)) \subseteq InQueue(q)
  BY <1>1, <1>3 DEF InQueue
<1>6. Head(q) \in InQueue(q)
  BY <1>1 DEF InQueue
<1>. QED BY <1>1, <1>4, <1>5, <1>6

-----------------------------------------------------------------------------
(* The types, as far as the steps depend on them.                          *)

\* Messages that carry a name, and messages that carry an ID, a weld or
\* nothing.
NameMessages == {"WELD_RECIPE_INSERT", "WELD_RECIPE_QUERY_BY_NAME"}
NumberMessages == {"WELD_RESULT_INSERT", "WELD_SIGN_INSERT", "ALARM_LOG_INSERT",
                   "ACTIVE_RECIPE_UPDATE", "ACTIVE_RECIPE_QUERY",
                   "WELD_RECIPE_DELETE_SPECIFIC", "READ_WELDRESULTHISTORY",
                   "WELD_RESULT_QUERY_LATEST_PAGE", "WELD_RESULT_QUERY_NEXT_PAGE",
                   "QUERY_OTHER_PAGE"}
DataMessages == [id : NameMessages, arg : Names] \cup [id : NumberMessages, arg : Nat]

UIMessages ==
  [id : {"insert"}, arg : Names] \cup
  [id : {"set", "delete", "curve", "info", "clear", "default", "latest", "next", "other",
         "RESULT_LIBRARY_DATA_RESPONSE"}, arg : Nat]

WeldTyped == weld \in [number : Nat,
                       phase : {"rest", "sonics", "sampled", "answer", "alarm"},
                       outcome : {"good", "alarm", "preheight"}]

GlobalsTyped == globals \in [values : Nat, curve : SUBSET Nat, resultId : Nat, recipeId : Nat,
                             recipe : Nat, edit : Names, cycle : Nat]

QueuesTyped == /\ queues \in [QueueNames -> Seq(DataMessages)]
               /\ \A name \in QueueNames : Len(queues[name]) <= QueueMax

UITyped == ui \in [queue : Seq(UIMessages), rows : SUBSET Nat, sending : BOOLEAN]

ExtTyped == ext \in Seq(Nat)

LoadingTyped == loading \subseteq [recipe : Nat, cycle : Nat] /\ naming \subseteq Nat

DbTyped == db \in Databases /\ Numbered(db) /\ Referring(db)

\* A record with the fields of the history.
HistoryShaped ==
  history = [ran |-> history.ran, disturbed |-> history.disturbed,
             reloaded |-> history.reloaded, chosen |-> history.chosen,
             overridden |-> history.overridden, unsaved |-> history.unsaved,
             kept |-> history.kept, fetched |-> history.fetched, shown |-> history.shown,
             torn |-> history.torn]

Typed == /\ WeldTyped /\ GlobalsTyped /\ QueuesTyped /\ UITyped /\ ExtTyped
         /\ LoadingTyped /\ DbTyped

-----------------------------------------------------------------------------
(* What sending and receiving do to all the queues together.               *)

LEMMA SentTo ==
  ASSUME QueuesTyped, NEW name \in QueueNames, NEW m \in DataMessages,
         queues' = [queues EXCEPT ![name] = Send(@, m)]
  PROVE  /\ QueuesTyped'
         /\ Queued \subseteq Queued'
         /\ Queued' \subseteq Queued \cup {m}
         /\ Fits(queues[name]) => m \in Queued'
<1>1. /\ Send(queues[name], m) \in Seq(DataMessages)
      /\ Len(Send(queues[name], m)) <= QueueMax
      /\ InQueue(queues[name]) \subseteq InQueue(Send(queues[name], m))
      /\ InQueue(Send(queues[name], m)) \subseteq InQueue(queues[name]) \cup {m}
      /\ Fits(queues[name]) => m \in InQueue(Send(queues[name], m))
  BY Sent DEF QueuesTyped
<1>2. /\ queues'[name] = Send(queues[name], m)
      /\ \A other \in QueueNames \ {name} : queues'[other] = queues[other]
  BY DEF QueuesTyped
<1>3. QueuesTyped'
  BY <1>1, <1>2 DEF QueuesTyped
<1>4. Queued \subseteq Queued' /\ Queued' \subseteq Queued \cup {m}
  BY <1>1, <1>2 DEF Queued
<1>5. Fits(queues[name]) => m \in Queued'
  BY <1>1, <1>2 DEF Queued
<1>. QED BY <1>3, <1>4, <1>5

LEMMA ReceivedFrom ==
  ASSUME QueuesTyped, NEW id, Receives(id), queues' = Rest
  PROVE  /\ QueuesTyped'
         /\ Head(queues[Source]) \in DataMessages
         /\ Head(queues[Source]).id = id
         /\ Queued' \subseteq Queued
         /\ Queued \subseteq Queued' \cup {Head(queues[Source])}
<1>. DEFINE q == queues[Source]
<1>1. Source \in QueueNames
  BY DEF Source, QueueNames
<1>2. q \in Seq(DataMessages) /\ q # <<>> /\ Head(q).id = id /\ Len(q) <= QueueMax
  BY <1>1 DEF QueuesTyped, Receives
<1>3. /\ Head(q) \in DataMessages
      /\ Tail(q) \in Seq(DataMessages)
      /\ Len(Tail(q)) <= QueueMax
      /\ InQueue(q) = {Head(q)} \cup InQueue(Tail(q))
  <2>1. Len(Tail(q)) <= Len(q) /\ Len(q) \in Nat /\ Len(Tail(q)) \in Nat /\ QueueMax \in Nat
    BY <1>2, TakenFrom, RecordsAssumption
  <2>. QED BY <1>2, <2>1, TakenFrom
<1>4. /\ queues'[Source] = Tail(q)
      /\ \A other \in QueueNames \ {Source} : queues'[other] = queues[other]
  BY <1>1 DEF QueuesTyped, Rest
<1>5. QueuesTyped'
  BY <1>1, <1>3, <1>4 DEF QueuesTyped, Rest
<1>6. Queued' \subseteq Queued /\ Queued \subseteq Queued' \cup {Head(q)}
  BY <1>1, <1>3, <1>4 DEF Queued
<1>. QED BY <1>2, <1>3, <1>5, <1>6

\* The three answers to a weld.
LEMMA Answered ==
  ASSUME QueuesTyped, WeldTyped, GlobalsTyped, queues' = SendAnswers
  PROVE  /\ QueuesTyped'
         /\ Queued \subseteq Queued'
         /\ ~Dropped(Answers[3]) => Answers[3] \in Queued'
<1>. DEFINE q == queues["Control"]
            q1 == Send(q, Answers[1])
            q2 == Send(q1, Answers[2])
            q3 == Send(q2, Answers[3])
<1>1. Answers[1] \in DataMessages /\ Answers[2] \in DataMessages /\ Answers[3] \in DataMessages
  BY DEF Answers, Msg, DataMessages, NumberMessages, WeldTyped, GlobalsTyped
<1>2. q \in Seq(DataMessages) /\ Len(q) <= QueueMax
  BY DEF QueuesTyped, QueueNames
<1>3. ASSUME NEW r \in Seq(DataMessages), Len(r) <= QueueMax, NEW m \in DataMessages
      PROVE  /\ Send(r, m) \in Seq(DataMessages) /\ Len(Send(r, m)) <= QueueMax
             /\ InQueue(r) \subseteq InQueue(Send(r, m))
  BY <1>3, Sent
<1>4. q1 \in Seq(DataMessages) /\ Len(q1) <= QueueMax /\ InQueue(q) \subseteq InQueue(q1)
  BY <1>1, <1>2, <1>3
<1>. HIDE DEF q1
<1>5. /\ q2 \in Seq(DataMessages) /\ Len(q2) <= QueueMax /\ InQueue(q1) \subseteq InQueue(q2)
      /\ q3 \in Seq(DataMessages) /\ Len(q3) <= QueueMax /\ InQueue(q2) \subseteq InQueue(q3)
  <2>1. /\ q2 \in Seq(DataMessages) /\ Len(q2) <= QueueMax
        /\ InQueue(q1) \subseteq InQueue(q2)
    BY <1>1, <1>3, <1>4
  <2>. HIDE DEF q2
  <2>2. /\ q3 \in Seq(DataMessages) /\ Len(q3) <= QueueMax
        /\ InQueue(q2) \subseteq InQueue(q3)
    BY <1>1, <1>3, <2>1
  <2>. QED BY <2>1, <2>2
<1>. USE DEF q1
<1>6. /\ SendAnswers["Control"] = q3
      /\ \A other \in QueueNames \ {"Control"} : queues'[other] = queues[other]
      /\ "Control" \in QueueNames
  BY DEF QueuesTyped, SendAnswers, QueueNames
<1>7. QueuesTyped'
  BY <1>5, <1>6 DEF QueuesTyped, SendAnswers
<1>8. Queued \subseteq Queued'
  BY <1>4, <1>5, <1>6 DEF Queued
<1>9. ~Dropped(Answers[3]) => Answers[3] \in Queued'
  BY <1>6 DEF Dropped, Queued
<1>. QED BY <1>7, <1>8, <1>9

-----------------------------------------------------------------------------
(* The operations of the database.                                         *)

WellFormed(d) == d \in Databases /\ Numbered(d) /\ Referring(d)

\* A row was added to a table, and its oldest row deleted if that was due and
\* not refused.
Stored(rows, seq, newRows, newSeq, limit, deleted, row) ==
  /\ newSeq = seq + 1
  /\ row.id = seq + 1
  /\ newRows = IF newSeq > limit /\ deleted THEN (rows \cup {row}) \ Oldest(rows \cup {row})
               ELSE rows \cup {row}

\* Neither recipes nor the active one are touched.
RecipesKept(d, e) == /\ e.recipes = d.recipes /\ e.recipeSeq = d.recipeSeq
                     /\ e.active = d.active

\* Nothing but recipes and the active one is touched.
TablesKept(d, e) == /\ e.results = d.results /\ e.resultSeq = d.resultSeq
                    /\ e.signatures = d.signatures /\ e.signatureSeq = d.signatureSeq
                    /\ e.alarms = d.alarms /\ e.alarmSeq = d.alarmSeq

LEMMA ResultsDeleted ==
  ASSUME NEW d, WellFormed(d), NEW rows
  PROVE  LET e == DeleteResults(d, rows)
         IN  /\ WellFormed(e)
             /\ e.results = d.results \ rows /\ e.resultSeq = d.resultSeq
             /\ e.signatures \subseteq d.signatures /\ e.signatureSeq = d.signatureSeq
             /\ e.alarms = d.alarms /\ e.alarmSeq = d.alarmSeq
             /\ RecipesKept(d, e)
<1>. DEFINE e == DeleteResults(d, rows)
<1>1. /\ e \in Databases
      /\ e.results = d.results \ rows
      /\ e.signatures = {s \in d.signatures : s.result \notin Ids(rows)}
      /\ e.resultSeq = d.resultSeq /\ e.signatureSeq = d.signatureSeq
      /\ e.alarms = d.alarms /\ e.alarmSeq = d.alarmSeq
      /\ e.recipes = d.recipes /\ e.recipeSeq = d.recipeSeq
      /\ e.active = d.active
  BY DEF WellFormed, Databases, DeleteResults
<1>. HIDE DEF e
<1>2. Numbered(e)
  BY <1>1 DEF WellFormed, Numbered, Ids
<1>3. Referring(e)
  BY <1>1 DEF WellFormed, Referring, Ids
<1>. QED BY <1>1, <1>2, <1>3 DEF WellFormed, RecipesKept, e

LEMMA RecipesDeleted ==
  ASSUME NEW d, WellFormed(d), NEW rows
  PROVE  /\ WellFormed(DeleteRecipes(d, rows))
         /\ TablesKept(d, DeleteRecipes(d, rows))
         /\ DeleteRecipes(d, rows).recipeSeq = d.recipeSeq
         /\ DeleteRecipes(d, rows).active \subseteq d.active
<1>. DEFINE e == DeleteRecipes(d, rows)
<1>1. /\ e \in Databases
      /\ e.recipes = d.recipes \ rows
      /\ e.active = {a \in d.active : a.recipe \notin Ids(rows)}
      /\ e.results = d.results /\ e.resultSeq = d.resultSeq
      /\ e.signatures = d.signatures /\ e.signatureSeq = d.signatureSeq
      /\ e.alarms = d.alarms /\ e.alarmSeq = d.alarmSeq
      /\ e.recipeSeq = d.recipeSeq
  BY DEF WellFormed, Databases, DeleteRecipes
<1>. HIDE DEF e
<1>2. Numbered(e)
  BY <1>1 DEF WellFormed, Numbered, Ids
<1>3. Referring(e)
  BY <1>1 DEF WellFormed, Referring, Ids
<1>. QED BY <1>1, <1>2, <1>3 DEF WellFormed, TablesKept, e

LEMMA ResultStored ==
  ASSUME NEW d, WellFormed(d), NEW result, result.weld \in Nat, result.recipe \in Nat,
         result.cycle \in Nat, NEW ok, NEW deleted
  PROVE  LET e == StoreWeldResult(d, result, ok, deleted)
         IN  /\ WellFormed(e)
             /\ RecipesKept(d, e)
             /\ e.signatures \subseteq d.signatures /\ e.signatureSeq = d.signatureSeq
             /\ e.alarms = d.alarms /\ e.alarmSeq = d.alarmSeq
             /\ ~ok => e = d
             /\ ok => \E row : Stored(d.results, d.resultSeq, e.results, e.resultSeq,
                                     ResultLimit, deleted, row)
<1>. DEFINE e == InsertResult(d, result)
            row == [id |-> d.resultSeq + 1, weld |-> result.weld, recipe |-> result.recipe,
                    cycle |-> result.cycle]
<1>0. /\ d.resultSeq \in Nat /\ d.resultSeq + 1 \in Nat
      /\ row \in [id : Nat, weld : Nat, recipe : Nat, cycle : Nat]
  BY DEF WellFormed, Databases
<1>. HIDE DEF row
<1>1. /\ e \in Databases
      /\ e.results = d.results \cup {row} /\ e.resultSeq = d.resultSeq + 1
      /\ d.resultSeq \in Nat
      /\ e.signatures = d.signatures /\ e.signatureSeq = d.signatureSeq
      /\ e.alarms = d.alarms /\ e.alarmSeq = d.alarmSeq
      /\ e.recipes = d.recipes /\ e.recipeSeq = d.recipeSeq
      /\ e.active = d.active
  BY <1>0 DEF WellFormed, Databases, InsertResult, row
<1>. HIDE DEF e
<1>. USE DEF row
<1>2. Numbered(e)
  BY <1>1 DEF WellFormed, Numbered, Ids
<1>3. Referring(e)
  BY <1>1 DEF WellFormed, Referring, Ids
<1>4. WellFormed(e)
  BY <1>1, <1>2, <1>3 DEF WellFormed
<1>5. ASSUME NEW f, f = (IF ResultsFull(d) /\ deleted THEN DeleteResults(e, Oldest(e.results))
                         ELSE e)
      PROVE  /\ WellFormed(f) /\ RecipesKept(d, f)
             /\ f.signatures \subseteq d.signatures /\ f.signatureSeq = d.signatureSeq
             /\ f.alarms = d.alarms /\ f.alarmSeq = d.alarmSeq
             /\ Stored(d.results, d.resultSeq, f.results, f.resultSeq, ResultLimit, deleted, row)
  <2>1. CASE ResultsFull(d) /\ deleted
    <3>1. /\ WellFormed(f)
          /\ f.results = e.results \ Oldest(e.results) /\ f.resultSeq = e.resultSeq
          /\ f.signatures \subseteq e.signatures /\ f.signatureSeq = e.signatureSeq
          /\ f.alarms = e.alarms /\ f.alarmSeq = e.alarmSeq
          /\ RecipesKept(e, f)
      BY <1>4, <1>5, <2>1, ResultsDeleted
    <3>2. row.id = d.resultSeq + 1
      OBVIOUS
    <3>. HIDE DEF row
    <3>3. Stored(d.results, d.resultSeq, f.results, f.resultSeq, ResultLimit, deleted, row)
      BY <1>1, <2>1, <3>1, <3>2 DEF Stored, ResultsFull
    <3>. QED BY <1>1, <3>1, <3>3 DEF RecipesKept
  <2>2. CASE ~(ResultsFull(d) /\ deleted)
    BY <1>0, <1>1, <1>4, <1>5, <2>2 DEF RecipesKept, Stored, ResultsFull
  <2>. QED BY <2>1, <2>2
<1>6. ok => StoreWeldResult(d, result, ok, deleted)
            = IF ResultsFull(d) /\ deleted THEN DeleteResults(e, Oldest(e.results)) ELSE e
  BY Zenon DEF StoreWeldResult, DeleteOldestResult, e
<1>7. ~ok => StoreWeldResult(d, result, ok, deleted) = d
  BY Zenon DEF StoreWeldResult
<1>. QED BY <1>5, <1>6, <1>7 DEF RecipesKept

LEMMA SignatureStored ==
  ASSUME NEW d, WellFormed(d), NEW result \in Nat, NEW curve \in SUBSET Nat, NEW owner \in Nat,
         NEW ok, NEW deleted
  PROVE  LET e == StoreWeldSignature(d, result, curve, owner, ok, deleted)
         IN  /\ WellFormed(e)
             /\ RecipesKept(d, e)
             /\ e.results = d.results /\ e.resultSeq = d.resultSeq
             /\ e.alarms = d.alarms /\ e.alarmSeq = d.alarmSeq
             /\ ~(ok /\ SignatureAllowed(d, result, curve)) => e = d
             /\ ok /\ SignatureAllowed(d, result, curve) =>
                  \E row : Stored(d.signatures, d.signatureSeq, e.signatures, e.signatureSeq,
                                 SignatureLimit, deleted, row)
<1>. DEFINE e == InsertSignature(d, result, curve, owner)
            row == [id |-> d.signatureSeq + 1, result |-> result, curve |-> curve,
                    owner |-> owner]
<1>0. /\ d.signatureSeq \in Nat /\ d.signatureSeq + 1 \in Nat
      /\ row \in [id : Nat, result : Nat, curve : SUBSET Nat, owner : Nat]
  BY DEF WellFormed, Databases
<1>1. /\ e \in Databases
      /\ e.signatures = d.signatures \cup {row} /\ e.signatureSeq = d.signatureSeq + 1
      /\ d.signatureSeq \in Nat
      /\ e.results = d.results /\ e.resultSeq = d.resultSeq
      /\ e.alarms = d.alarms /\ e.alarmSeq = d.alarmSeq
      /\ e.recipes = d.recipes /\ e.recipeSeq = d.recipeSeq
      /\ e.active = d.active
  BY <1>0 DEF WellFormed, Databases, InsertSignature
<1>. HIDE DEF e
<1>2. Numbered(e)
  BY <1>1 DEF WellFormed, Numbered, Ids
<1>3. ASSUME SignatureAllowed(d, result, curve)
      PROVE  WellFormed(e)
  BY <1>1, <1>2, <1>3 DEF WellFormed, Referring, Ids, SignatureAllowed, WithId
<1>4. ASSUME WellFormed(e), NEW f,
             f = (IF SignaturesFull(d) /\ deleted
                  THEN [e EXCEPT !.signatures = @ \ Oldest(e.signatures)] ELSE e)
      PROVE  /\ WellFormed(f) /\ RecipesKept(d, f)
             /\ f.results = d.results /\ f.resultSeq = d.resultSeq
             /\ f.alarms = d.alarms /\ f.alarmSeq = d.alarmSeq
             /\ Stored(d.signatures, d.signatureSeq, f.signatures, f.signatureSeq,
                       SignatureLimit, deleted, row)
  <2>0. row.id = d.signatureSeq + 1
    OBVIOUS
  <2>. HIDE DEF row
  <2>1. CASE SignaturesFull(d) /\ deleted
    <3>1. /\ f \in Databases
          /\ f.signatures = e.signatures \ Oldest(e.signatures) /\ f.signatureSeq = e.signatureSeq
          /\ f.results = e.results /\ f.resultSeq = e.resultSeq
          /\ f.alarms = e.alarms /\ f.alarmSeq = e.alarmSeq
          /\ RecipesKept(e, f)
      BY <1>4, <2>1 DEF WellFormed, Databases, RecipesKept
    <3>2. WellFormed(f)
      BY <1>4, <3>1 DEF WellFormed, Numbered, Referring, Ids, RecipesKept
    <3>. QED BY <1>1, <2>0, <2>1, <3>1, <3>2 DEF RecipesKept, Stored, SignaturesFull
  <2>2. CASE ~(SignaturesFull(d) /\ deleted)
    BY <1>1, <1>4, <2>0, <2>2 DEF RecipesKept, Stored, SignaturesFull
  <2>. QED BY <2>1, <2>2
<1>5. ok /\ SignatureAllowed(d, result, curve) =>
        StoreWeldSignature(d, result, curve, owner, ok, deleted)
          = IF SignaturesFull(d) /\ deleted
            THEN [e EXCEPT !.signatures = @ \ Oldest(e.signatures)] ELSE e
  BY Zenon DEF StoreWeldSignature, DeleteOldestSignature, e
<1>6. ~(ok /\ SignatureAllowed(d, result, curve)) =>
        StoreWeldSignature(d, result, curve, owner, ok, deleted) = d
  BY Zenon DEF StoreWeldSignature
<1>. QED BY <1>3, <1>4, <1>5, <1>6 DEF RecipesKept

LEMMA AlarmStored ==
  ASSUME NEW d, WellFormed(d), NEW w \in Nat, NEW result \in Nat, NEW ok, NEW deleted
  PROVE  LET e == StoreAlarmLog(d, w, result, ok, deleted)
         IN  /\ WellFormed(e)
             /\ RecipesKept(d, e)
             /\ e.results = d.results /\ e.resultSeq = d.resultSeq
             /\ e.signatures = d.signatures /\ e.signatureSeq = d.signatureSeq
             /\ ~ok => e = d
             /\ ok => \E row : Stored(d.alarms, d.alarmSeq, e.alarms, e.alarmSeq, ResultLimit,
                                     deleted, row)
<1>. DEFINE e == InsertAlarm(d, w, result)
            row == [id |-> d.alarmSeq + 1, weld |-> w, result |-> result]
<1>0. /\ d.alarmSeq \in Nat /\ d.alarmSeq + 1 \in Nat
      /\ row \in [id : Nat, weld : Nat, result : Nat]
  BY DEF WellFormed, Databases
<1>1. /\ e \in Databases
      /\ e.alarms = d.alarms \cup {row} /\ e.alarmSeq = d.alarmSeq + 1
      /\ e.results = d.results /\ e.resultSeq = d.resultSeq
      /\ e.signatures = d.signatures /\ e.signatureSeq = d.signatureSeq
      /\ e.recipes = d.recipes /\ e.recipeSeq = d.recipeSeq
      /\ e.active = d.active
  BY <1>0 DEF WellFormed, Databases, InsertAlarm
<1>. HIDE DEF e
<1>2. WellFormed(e)
  BY <1>0, <1>1 DEF WellFormed, Numbered, Referring, Ids
<1>3. ASSUME NEW f, f = (IF AlarmsFull(d) /\ deleted
                         THEN [e EXCEPT !.alarms = @ \ Oldest(e.alarms)] ELSE e)
      PROVE  /\ WellFormed(f) /\ RecipesKept(d, f)
             /\ f.results = d.results /\ f.resultSeq = d.resultSeq
             /\ f.signatures = d.signatures /\ f.signatureSeq = d.signatureSeq
             /\ Stored(d.alarms, d.alarmSeq, f.alarms, f.alarmSeq, ResultLimit, deleted, row)
  <2>0. row.id = d.alarmSeq + 1
    OBVIOUS
  <2>. HIDE DEF row
  <2>1. CASE AlarmsFull(d) /\ deleted
    <3>1. /\ f \in Databases
          /\ f.alarms = e.alarms \ Oldest(e.alarms) /\ f.alarmSeq = e.alarmSeq
          /\ f.results = e.results /\ f.resultSeq = e.resultSeq
          /\ f.signatures = e.signatures /\ f.signatureSeq = e.signatureSeq
          /\ RecipesKept(e, f)
      BY <1>2, <1>3, <2>1 DEF WellFormed, Databases, RecipesKept
    <3>2. WellFormed(f)
      BY <1>2, <3>1 DEF WellFormed, Numbered, Referring, Ids, RecipesKept
    <3>. QED BY <1>1, <2>0, <2>1, <3>1, <3>2 DEF RecipesKept, Stored, AlarmsFull
  <2>2. CASE ~(AlarmsFull(d) /\ deleted)
    BY <1>1, <1>2, <1>3, <2>0, <2>2 DEF RecipesKept, Stored, AlarmsFull
  <2>. QED BY <2>1, <2>2
<1>4. ok => StoreAlarmLog(d, w, result, ok, deleted)
            = IF AlarmsFull(d) /\ deleted THEN [e EXCEPT !.alarms = @ \ Oldest(e.alarms)] ELSE e
  BY Zenon DEF StoreAlarmLog, DeleteOldestAlarm, e
<1>5. ~ok => StoreAlarmLog(d, w, result, ok, deleted) = d
  BY Zenon DEF StoreAlarmLog
<1>. QED BY <1>3, <1>4, <1>5 DEF RecipesKept

LEMMA RecipeStored ==
  ASSUME NEW d, WellFormed(d), NEW name \in Names, NEW ok, NEW deleted
  PROVE  LET e == StoreWeldRecipe(d, name, ok, deleted)
         IN  /\ WellFormed(e)
             /\ TablesKept(d, e)
             /\ e.active \subseteq d.active
             /\ e.active # d.active => e.recipeSeq >= RecipeLimit
             /\ e.recipeSeq >= d.recipeSeq
<1>. DEFINE e == InsertRecipe(d, name)
            row == [id |-> d.recipeSeq + 1, name |-> name]
<1>0. /\ d.recipeSeq \in Nat /\ d.recipeSeq + 1 \in Nat
      /\ row \in [id : Nat, name : Names]
  BY DEF WellFormed, Databases
<1>1. /\ e \in Databases
      /\ e.recipes = d.recipes \cup {row} /\ e.recipeSeq = d.recipeSeq + 1
      /\ d.recipeSeq \in Nat
      /\ e.results = d.results /\ e.resultSeq = d.resultSeq
      /\ e.signatures = d.signatures /\ e.signatureSeq = d.signatureSeq
      /\ e.alarms = d.alarms /\ e.alarmSeq = d.alarmSeq
      /\ e.active = d.active
  BY <1>0 DEF WellFormed, Databases, InsertRecipe
<1>. HIDE DEF e
<1>2. Numbered(e)
  BY <1>1 DEF WellFormed, Numbered, Ids
<1>3. Referring(e)
  BY <1>1 DEF WellFormed, Referring, Ids
<1>4. WellFormed(e)
  BY <1>1, <1>2, <1>3 DEF WellFormed
<1>5. RecipeLimit \in Nat
  BY LimitsAllowed
<1>. QED BY <1>1, <1>4, <1>5, RecipesDeleted
         DEF StoreWeldRecipe, DeleteOldestRecipe, TablesKept, e

LEMMA ActiveUpdated ==
  ASSUME NEW d, WellFormed(d), NEW recipe \in Nat, NEW cycle \in Nat, NEW ok
  PROVE  LET e == UpdateActiveRecipe(d, recipe, cycle, ok)
         IN  /\ WellFormed(e)
             /\ TablesKept(d, e)
             /\ e.recipeSeq = d.recipeSeq
             /\ e.active = {} <=> d.active = {}
             /\ IF ok /\ ActiveUpdatable(d, recipe)
                THEN \A a \in e.active : a = [recipe |-> recipe, cycle |-> cycle]
                ELSE e = d
<1>1. CASE ok /\ ActiveUpdatable(d, recipe)
  <2>. DEFINE rows == {[recipe |-> recipe, cycle |-> cycle] : a \in d.active}
              e == UpdateActiveRecipe(d, recipe, cycle, ok)
  <2>1. /\ e \in Databases
        /\ e.active = rows
        /\ e.results = d.results /\ e.resultSeq = d.resultSeq
        /\ e.signatures = d.signatures /\ e.signatureSeq = d.signatureSeq
        /\ e.alarms = d.alarms /\ e.alarmSeq = d.alarmSeq
        /\ e.recipes = d.recipes /\ e.recipeSeq = d.recipeSeq
    BY <1>1 DEF WellFormed, Databases, UpdateActiveRecipe
  <2>. HIDE DEF e
  <2>2. Numbered(e)
    BY <2>1 DEF WellFormed, Numbered, Ids
  <2>3. \A a \in rows : d.active # {} /\ a.recipe = recipe
    OBVIOUS
  <2>4. Referring(e)
    BY <1>1, <2>1, <2>3 DEF WellFormed, Referring, Ids, ActiveUpdatable, WithId
  <2>. QED BY <1>1, <2>1, <2>2, <2>4 DEF WellFormed, TablesKept, e
<1>2. CASE ~(ok /\ ActiveUpdatable(d, recipe))
  BY <1>2, Zenon DEF UpdateActiveRecipe, TablesKept
<1>. QED BY <1>1, <1>2

-----------------------------------------------------------------------------
(* Type correctness.                                                       *)

\* What the program starts with, of the database it finds.
LEMMA BootTyped ==
  ASSUME DbTyped, NEW id \in Ids(db.recipes) \cup {NoRow}
  PROVE  BootGlobals(db, id) \in [values : Nat, curve : SUBSET Nat, resultId : Nat,
                                  recipeId : Nat, recipe : Nat, edit : Names, cycle : Nat]
<1>1. id \in Nat
  BY DEF DbTyped, Databases, Ids, NoRow
<1>2. ASSUME db.results # {}
      PROVE  (CHOOSE r \in db.results : \A s \in db.results : s.id <= r.id).cycle \in Nat
  <2>1. db.resultSeq \in Nat /\ \A r \in db.results : r.id \in 1 .. db.resultSeq
    BY DEF DbTyped, Databases, Numbered, Ids
  <2>2. \E r \in db.results : \A s \in db.results : s.id <= r.id
    BY <1>2, <2>1, NewestExists
  <2>3. (CHOOSE r \in db.results : \A s \in db.results : s.id <= r.id) \in db.results
    BY <2>2
  <2>. QED BY <2>3 DEF DbTyped, Databases
<1>. QED BY <1>1, <1>2, RecordsAssumption DEF BootGlobals, NoRow, NoWeld

LEMMA InitTyped == Init => Typed
<1>. SUFFICES ASSUME Init PROVE Typed
  OBVIOUS
<1>1. DbTyped
  BY StartsAllowed DEF Init, DbTyped
<1>2. GlobalsTyped
  BY <1>1, BootTyped DEF Init, GlobalsTyped
<1>3. QueuesTyped
  BY RecordsAssumption DEF Init, QueuesTyped
<1>. QED BY <1>1, <1>2, <1>3
         DEF Init, Typed, WeldTyped, UITyped, ExtTyped, LoadingTyped, NoWeld

\* A request that the UI task takes from its queue.
LEMMA UIReceived ==
  ASSUME UITyped, NEW id, UIReceives(id)
  PROVE  /\ UIRest \in [queue : Seq(UIMessages), rows : SUBSET Nat, sending : BOOLEAN]
         /\ UIRest.rows = ui.rows /\ UIRest.sending = ui.sending
         /\ Head(ui.queue) \in UIMessages /\ Head(ui.queue).id = id
<1>1. ui.queue \in Seq(UIMessages) /\ ui.queue # <<>>
  BY DEF UITyped, UIReceives
<1>2. Tail(ui.queue) \in Seq(UIMessages) /\ Head(ui.queue) \in UIMessages
  BY <1>1, TakenFrom
<1>. QED BY <1>2 DEF UITyped, UIReceives, UIRest

\* A page of rows for the UI task.
LEMMA Fetched ==
  ASSUME UITyped, NEW rows \in SUBSET Nat, Fetch(rows)
  PROVE  UITyped'
<1>1. Msg("RESULT_LIBRARY_DATA_RESPONSE", NoRow) \in UIMessages
  BY DEF Msg, UIMessages, NoRow
<1>2. Append(ui.queue, Msg("RESULT_LIBRARY_DATA_RESPONSE", NoRow)) \in Seq(UIMessages)
  BY <1>1 DEF UITyped
<1>. QED BY <1>2 DEF Fetch, UITyped

\* Every page is a set of IDs.
LEMMA PageTyped ==
  ASSUME DbTyped, NEW first, NEW size
  PROVE  Page(db.results, first, size) \in SUBSET Nat
BY DEF DbTyped, Databases, Page

LEMMA WeldingTyped == ASSUME Typed, Welding PROVE Typed'
<1>. USE DEF Typed, UITyped, ExtTyped, LoadingTyped, DbTyped
<1>1. CASE WeldStart
  <2>1. WeldTyped'
    <3>1. weld.number + 1 \in Nat
      BY DEF WeldTyped
    <3>. QED BY <1>1, <3>1 DEF WeldStart, WeldTyped
  <2>2. GlobalsTyped'
    BY <1>1 DEF WeldStart, GlobalsTyped, NoWeld
  <2>. QED BY <1>1, <2>1, <2>2 DEF WeldStart, QueuesTyped
<1>2. CASE WeldSample
  BY <1>2 DEF WeldSample, WeldTyped, GlobalsTyped, QueuesTyped
<1>3. CASE WeldEnd
  <2>1. WeldTyped'
    BY <1>3 DEF WeldEnd, WeldTyped
  <2>2. GlobalsTyped'
    BY <1>3 DEF WeldEnd, GlobalsTyped, WeldTyped
  <2>. QED BY <1>3, <2>1, <2>2 DEF WeldEnd, QueuesTyped
<1>4. CASE ControlRespond
  <2>1. WeldTyped'
    BY <1>4 DEF ControlRespond, WeldTyped
  <2>2. GlobalsTyped'
    <3>1. globals.cycle \in Nat /\ globals.cycle + 1 \in Nat
      BY DEF GlobalsTyped
    <3>2. \A n \in Nat : [globals EXCEPT !.cycle = n] \in
            [values : Nat, curve : SUBSET Nat, resultId : Nat, recipeId : Nat,
             recipe : Nat, edit : Names, cycle : Nat]
      BY DEF GlobalsTyped
    <3>. QED BY <1>4, <3>1, <3>2 DEF ControlRespond, GlobalsTyped
  <2>3. QueuesTyped'
    <3>1. CASE queues' = SendAnswers
      BY <3>1, Answered
    <3>2. CASE UNCHANGED queues
      BY <3>2 DEF QueuesTyped
    <3>. QED BY <1>4, <3>1, <3>2 DEF ControlRespond
  <2>. QED BY <1>4, <2>1, <2>2, <2>3 DEF ControlRespond
<1>5. CASE ControlAlarm
  <2>. DEFINE m == Msg("ALARM_LOG_INSERT", IF weld.outcome = "alarm" THEN weld.number ELSE NoWeld)
  <2>1. m \in DataMessages
    BY DEF Msg, DataMessages, NumberMessages, NoWeld, WeldTyped
  <2>2. queues' = [queues EXCEPT !["Control"] = Send(@, m)] /\ "Control" \in QueueNames
    BY <1>5 DEF ControlAlarm, QueueNames
  <2>. HIDE DEF m
  <2>3. QueuesTyped'
    BY <2>1, <2>2, SentTo
  <2>. QED BY <1>5, <2>3 DEF ControlAlarm, WeldTyped, GlobalsTyped
<1>. QED BY <1>1, <1>2, <1>3, <1>4, <1>5 DEF Welding

LEMMA HmiRequestTyped == ASSUME Typed, HmiRequest PROVE Typed'
<1>1. PICK m \in Requests : ui' = [ui EXCEPT !.queue = Append(@, m)]
  BY DEF HmiRequest
<1>2. m \in UIMessages
  BY <1>1 DEF Requests, UIMessages, Typed, DbTyped, Databases, Ids, NoRow
<1>3. UITyped'
  <2>1. Append(ui.queue, m) \in Seq(UIMessages)
    BY <1>2 DEF Typed, UITyped
  <2>. QED BY <1>1, <2>1 DEF Typed, UITyped
<1>. QED BY <1>3 DEF HmiRequest, Typed, WeldTyped, GlobalsTyped, QueuesTyped, ExtTyped,
                     LoadingTyped, DbTyped

LEMMA UITaskTyped == ASSUME Typed, UITask PROVE Typed'
<1>. USE DEF Typed, ExtTyped, LoadingTyped, DbTyped, WeldTyped
<1>0. "Data" \in QueueNames
  BY DEF QueueNames
<1>1. CASE UIForward
  <2>1. PICK id \in DOMAIN Forwarded :
          /\ UIReceives(id)
          /\ ui' = UIRest
          /\ queues' = [queues EXCEPT !["Data"] = Send(@, Msg(Forwarded[id], UIArg))]
          /\ UNCHANGED <<weld, globals, loading, naming, ext, db, cursor, work, history>>
    BY <1>1 DEF UIForward
  <2>2. Msg(Forwarded[id], UIArg) \in DataMessages
    <3>1. id \in {"info", "delete", "curve", "latest", "next", "other"}
      BY DEF Forwarded
    <3>2. Forwarded[id] \in NumberMessages
      BY <3>1 DEF Forwarded, NumberMessages
    <3>3. UIArg \in Nat
      BY <2>1, <3>1, UIReceived DEF UIArg, UIMessages
    <3>. QED BY <3>2, <3>3 DEF Msg, DataMessages
  <2>3. QueuesTyped'
    BY <1>0, <2>1, <2>2, SentTo
  <2>4. UITyped'
    BY <2>1, UIReceived DEF UITyped
  <2>. QED BY <2>1, <2>3, <2>4 DEF GlobalsTyped
<1>2. CASE UISetActive
  <2>1. Msg("ACTIVE_RECIPE_UPDATE", UIArg) \in DataMessages
    <3>1. UIArg \in Nat
      BY <1>2, UIReceived DEF UISetActive, UIArg, UIMessages
    <3>. QED BY <3>1 DEF Msg, DataMessages, NumberMessages
  <2>2. QueuesTyped'
    BY <1>0, <1>2, <2>1, SentTo DEF UISetActive
  <2>3. UITyped'
    BY <1>2, UIReceived DEF UISetActive, UITyped
  <2>. QED BY <1>2, <2>2, <2>3 DEF UISetActive, GlobalsTyped
<1>3. CASE UIClearCounter
  <2>1. Msg("ACTIVE_RECIPE_UPDATE", globals.recipeId) \in DataMessages
    BY DEF Msg, DataMessages, NumberMessages, GlobalsTyped
  <2>2. QueuesTyped'
    BY <1>0, <1>3, <2>1, SentTo DEF UIClearCounter
  <2>3. UITyped'
    BY <1>3, UIReceived DEF UIClearCounter, UITyped
  <2>. QED BY <1>3, <2>2, <2>3 DEF UIClearCounter, GlobalsTyped
<1>4. CASE UIInsertRecipe
  <2>1. UIArg \in Names
    <3>1. Head(ui.queue) \in UIMessages /\ Head(ui.queue).id = "insert"
      BY <1>4, UIReceived DEF UIInsertRecipe
    <3>. QED BY <3>1 DEF UIArg, UIMessages
  <2>2. Msg("WELD_RECIPE_INSERT", UIArg) \in DataMessages
    BY <2>1 DEF Msg, DataMessages, NameMessages
  <2>3. QueuesTyped'
    BY <1>0, <1>4, <2>2, SentTo DEF UIInsertRecipe
  <2>4. UITyped'
    BY <1>4, UIReceived DEF UIInsertRecipe, UITyped
  <2>. QED BY <1>4, <2>1, <2>3, <2>4 DEF UIInsertRecipe, GlobalsTyped
<1>5. CASE UIDefaultRecipe
  <2>1. UITyped'
    BY <1>5, UIReceived DEF UIDefaultRecipe, UITyped
  <2>. QED BY <1>5, <2>1, RecordsAssumption DEF UIDefaultRecipe, GlobalsTyped, QueuesTyped
<1>6. CASE UISendRows
  <2>1. UITyped'
    BY <1>6, UIReceived DEF UISendRows, UITyped
  <2>. QED BY <1>6, <2>1 DEF UISendRows, GlobalsTyped, QueuesTyped
<1>7. CASE UIRowsSent
  BY <1>7 DEF UIRowsSent, UITyped, GlobalsTyped, QueuesTyped
<1>. QED BY <1>1, <1>2, <1>3, <1>4, <1>5, <1>6, <1>7 DEF UITask

LEMMA ExternalTyped == ASSUME Typed, ExtRecall \/ ExtAnswer PROVE Typed'
<1>. USE DEF Typed, LoadingTyped, DbTyped, WeldTyped, UITyped
<1>0. "Request" \in QueueNames
  BY DEF QueueNames
<1>1. CASE ExtRecall
  <2>1. PICK name \in Names :
          queues' = [queues EXCEPT !["Request"] = Send(@, Msg("WELD_RECIPE_QUERY_BY_NAME", name))]
    BY <1>1 DEF ExtRecall
  <2>2. Msg("WELD_RECIPE_QUERY_BY_NAME", name) \in DataMessages
    BY DEF Msg, DataMessages, NameMessages
  <2>3. QueuesTyped'
    BY <1>0, <2>1, <2>2, SentTo
  <2>. QED BY <1>1, <2>3 DEF ExtRecall, GlobalsTyped, ExtTyped
<1>2. CASE ExtAnswer
  <2>1. Head(ext) \in Nat /\ Tail(ext) \in Seq(Nat)
    BY <1>2, TakenFrom DEF ExtAnswer, ExtTyped
  <2>2. ExtTyped'
    BY <1>2, <2>1 DEF ExtAnswer, ExtTyped
  <2>3. CASE Head(ext) \in {NoRow, globals.recipeId}
    BY <1>2, <2>2, <2>3 DEF ExtAnswer, GlobalsTyped, QueuesTyped
  <2>4. CASE Head(ext) \notin {NoRow, globals.recipeId}
    <3>1. Msg("ACTIVE_RECIPE_UPDATE", Head(ext)) \in DataMessages
      BY <2>1 DEF Msg, DataMessages, NumberMessages
    <3>2. QueuesTyped'
      BY <1>0, <1>2, <2>4, <3>1, SentTo DEF ExtAnswer
    <3>3. GlobalsTyped'
      <4>1. globals' = [globals EXCEPT !.recipeId = Head(ext), !.cycle = 0]
        BY <1>2, <2>4 DEF ExtAnswer
      <4>2. \A n \in Nat : [globals EXCEPT !.recipeId = n, !.cycle = 0] \in
              [values : Nat, curve : SUBSET Nat, resultId : Nat, recipeId : Nat,
               recipe : Nat, edit : Names, cycle : Nat]
        BY DEF GlobalsTyped
      <4>. QED BY <2>1, <4>1, <4>2 DEF GlobalsTyped
    <3>. QED BY <1>2, <2>2, <3>2, <3>3 DEF ExtAnswer
  <2>. QED BY <2>3, <2>4
<1>. QED BY <1>1, <1>2

\* What the data task takes from its queues: every message but the two that
\* carry a name carries a number.
LEMMA ArgTyped ==
  ASSUME QueuesTyped, NEW id, Receives(id)
  PROVE  /\ id \in NumberMessages => Arg \in Nat
         /\ id \in NameMessages => Arg \in Names
<1>1. Source \in QueueNames
  BY DEF Source, QueueNames
<1>2. queues[Source] \in Seq(DataMessages) /\ queues[Source] # <<>>
  BY <1>1 DEF QueuesTyped, Receives
<1>3. Head(queues[Source]) \in DataMessages /\ Head(queues[Source]).id = id
  BY <1>2, TakenFrom DEF Receives
<1>. QED BY <1>3 DEF Arg, DataMessages, NumberMessages, NameMessages

\* The steps of the data task that store.
LEMMA ResultStep ==
  ASSUME Typed, DataStoreResult
  PROVE  /\ WellFormed(db')
         /\ RecipesKept(db, db')
         /\ db'.signatures \subseteq db.signatures /\ db'.signatureSeq = db.signatureSeq
         /\ db'.alarms = db.alarms /\ db'.alarmSeq = db.alarmSeq
         /\ \E fault \in Faults :
              /\ fault = "insert" => db' = db
              /\ fault # "insert" =>
                   \E row : Stored(db.results, db.resultSeq, db'.results, db'.resultSeq,
                                  ResultLimit, fault # "delete", row)
              /\ history'.kept = Kept("results", fault = "delete" /\ ResultsFull(db))
                   \/ ~HistoryShaped
<1>. DEFINE result == [weld |-> globals.values, recipe |-> globals.recipe,
                       cycle |-> globals.cycle]
<1>1. PICK fault \in Faults :
        /\ db' = StoreWeldResult(db, result, fault # "insert", fault # "delete")
        /\ history' = [history EXCEPT
             !.disturbed = IF fault = "insert" THEN @ \cup {Arg} ELSE @,
             !.kept = Kept("results", fault = "delete" /\ ResultsFull(db)),
             !.torn = @ \/ fault # "insert"]
  BY DEF DataStoreResult
<1>2. WellFormed(db) /\ result.weld \in Nat /\ result.recipe \in Nat /\ result.cycle \in Nat
  BY DEF Typed, DbTyped, WellFormed, GlobalsTyped
<1>. HIDE DEF result
<1>3. HistoryShaped => history'.kept = Kept("results", fault = "delete" /\ ResultsFull(db))
  BY <1>1 DEF HistoryShaped
<1>4. /\ WellFormed(db')
      /\ RecipesKept(db, db')
      /\ db'.signatures \subseteq db.signatures /\ db'.signatureSeq = db.signatureSeq
      /\ db'.alarms = db.alarms /\ db'.alarmSeq = db.alarmSeq
      /\ ~(fault # "insert") => db' = db
      /\ fault # "insert" =>
           \E row : Stored(db.results, db.resultSeq, db'.results, db'.resultSeq,
                          ResultLimit, fault # "delete", row)
  <2>. DEFINE ok == fault # "insert"
              deleted == fault # "delete"
  <2>1. db' = StoreWeldResult(db, result, ok, deleted)
    BY <1>1
  <2>. HIDE DEF ok, deleted
  <2>2. /\ WellFormed(db')
        /\ RecipesKept(db, db')
        /\ db'.signatures \subseteq db.signatures /\ db'.signatureSeq = db.signatureSeq
        /\ db'.alarms = db.alarms /\ db'.alarmSeq = db.alarmSeq
        /\ ~ok => db' = db
        /\ ok => \E row : Stored(db.results, db.resultSeq, db'.results, db'.resultSeq,
                                 ResultLimit, deleted, row)
    BY <1>2, <2>1, ResultStored
  <2>. QED BY <2>2 DEF ok, deleted
<1>. QED BY <1>3, <1>4

LEMMA SignatureStep ==
  ASSUME Typed, DataStoreSignature
  PROVE  /\ WellFormed(db')
         /\ RecipesKept(db, db')
         /\ db'.results = db.results /\ db'.resultSeq = db.resultSeq
         /\ db'.alarms = db.alarms /\ db'.alarmSeq = db.alarmSeq
         /\ \E fault \in Faults :
              /\ \/ db' = db
                 \/ \E row : Stored(db.signatures, db.signatureSeq, db'.signatures,
                                    db'.signatureSeq, SignatureLimit, fault # "delete", row)
              /\ history'.kept = Kept("signatures", fault = "delete" /\ SignaturesFull(db))
                   \/ ~HistoryShaped
<1>1. PICK fault \in Faults :
        /\ db' = StoreWeldSignature(db, globals.resultId, globals.curve, Arg,
                                    fault # "insert", fault # "delete")
        /\ history' = [history EXCEPT
             !.kept = Kept("signatures", fault = "delete" /\ SignaturesFull(db))]
  BY DEF DataStoreSignature
<1>2. WellFormed(db) /\ Arg \in Nat
  BY ArgTyped DEF Typed, DbTyped, WellFormed, DataStoreSignature, NumberMessages
<1>3. HistoryShaped =>
        history'.kept = Kept("signatures", fault = "delete" /\ SignaturesFull(db))
  BY <1>1 DEF HistoryShaped
<1>4. globals.resultId \in Nat /\ globals.curve \in SUBSET Nat
  BY DEF Typed, GlobalsTyped
<1>5. /\ WellFormed(db')
      /\ RecipesKept(db, db')
      /\ db'.results = db.results /\ db'.resultSeq = db.resultSeq
      /\ db'.alarms = db.alarms /\ db'.alarmSeq = db.alarmSeq
      /\ \/ db' = db
         \/ \E row : Stored(db.signatures, db.signatureSeq, db'.signatures,
                            db'.signatureSeq, SignatureLimit, fault # "delete", row)
  BY <1>1, <1>2, <1>4, SignatureStored
<1>. QED BY <1>3, <1>5

LEMMA AlarmStep ==
  ASSUME Typed, DataStoreAlarm
  PROVE  /\ WellFormed(db')
         /\ RecipesKept(db, db')
         /\ db'.results = db.results /\ db'.resultSeq = db.resultSeq
         /\ db'.signatures = db.signatures /\ db'.signatureSeq = db.signatureSeq
         /\ \E fault \in Faults :
              /\ \/ db' = db
                 \/ \E row : Stored(db.alarms, db.alarmSeq, db'.alarms, db'.alarmSeq,
                                    ResultLimit, fault # "delete", row)
              /\ history'.kept = Kept("alarms", fault = "delete" /\ AlarmsFull(db))
                   \/ ~HistoryShaped
<1>. DEFINE result == IF Arg = NoWeld THEN NoRow ELSE globals.resultId
<1>1. PICK fault \in Faults :
        /\ db' = StoreAlarmLog(db, Arg, result, fault # "insert", fault # "delete")
        /\ history' = [history EXCEPT
             !.kept = Kept("alarms", fault = "delete" /\ AlarmsFull(db))]
  BY DEF DataStoreAlarm
<1>2. WellFormed(db) /\ Arg \in Nat /\ result \in Nat
  BY ArgTyped DEF Typed, DbTyped, WellFormed, DataStoreAlarm, NumberMessages, NoRow, GlobalsTyped
<1>. HIDE DEF result
<1>3. HistoryShaped => history'.kept = Kept("alarms", fault = "delete" /\ AlarmsFull(db))
  BY <1>1 DEF HistoryShaped
<1>. QED BY <1>1, <1>2, <1>3, AlarmStored

LEMMA UpdateStep ==
  ASSUME Typed, DataUpdateActive
  PROVE  /\ WellFormed(db')
         /\ TablesKept(db, db')
         /\ db'.recipeSeq = db.recipeSeq /\ (db'.active = {} <=> db.active = {})
         /\ \/ \A a \in db'.active : a = [recipe |-> Arg, cycle |-> globals.cycle]
            \/ db' = db
         /\ \/ \A a \in db'.active : a.cycle = globals.cycle
            \/ history'.unsaved
            \/ ~HistoryShaped
<1>1. PICK fault \in Faults \ {"delete"} :
        /\ db' = UpdateActiveRecipe(db, Arg, globals.cycle, fault # "insert")
        /\ LET failed == fault = "insert" \/ ~ActiveUpdatable(db, Arg)
           IN  history' = [history EXCEPT !.unsaved = failed, !.overridden = @ \/ failed]
  BY DEF DataUpdateActive
<1>2. WellFormed(db) /\ Arg \in Nat /\ globals.cycle \in Nat
  BY ArgTyped DEF Typed, DbTyped, WellFormed, DataUpdateActive, NumberMessages, GlobalsTyped
<1>3. HistoryShaped => (history'.unsaved <=> fault = "insert" \/ ~ActiveUpdatable(db, Arg))
  BY <1>1 DEF HistoryShaped
<1>. DEFINE ok == fault # "insert"
<1>. HIDE DEF ok
<1>4. /\ WellFormed(db')
      /\ TablesKept(db, db')
      /\ db'.recipeSeq = db.recipeSeq
      /\ (db'.active = {} <=> db.active = {})
      /\ ok /\ ActiveUpdatable(db, Arg) =>
           \A a \in db'.active : a = [recipe |-> Arg, cycle |-> globals.cycle]
      /\ ~(ok /\ ActiveUpdatable(db, Arg)) => db' = db
  <2>1. db' = UpdateActiveRecipe(db, Arg, globals.cycle, ok)
    BY <1>1 DEF ok
  <2>. QED BY <1>2, <2>1, ActiveUpdated
<1>. USE DEF ok
<1>5. fault # "insert" /\ ActiveUpdatable(db, Arg) =>
        \A a \in db'.active : a.cycle = globals.cycle
  BY <1>4
<1>. QED BY <1>3, <1>4, <1>5

LEMMA StoreRecipeStep ==
  ASSUME Typed, DataStoreRecipe
  PROVE  /\ WellFormed(db')
         /\ TablesKept(db, db')
         /\ db'.active \subseteq db.active
         /\ db'.active # db.active => db'.recipeSeq >= RecipeLimit
         /\ db'.recipeSeq >= db.recipeSeq
<1>1. PICK fault \in Faults :
        db' = StoreWeldRecipe(db, globals.edit, fault # "insert", fault # "delete")
  BY DEF DataStoreRecipe
<1>. QED BY <1>1, RecipeStored DEF Typed, DbTyped, WellFormed, GlobalsTyped

LEMMA DeleteStep ==
  ASSUME Typed, DataDeleteRecipe
  PROVE  /\ WellFormed(db')
         /\ TablesKept(db, db')
         /\ db'.active = db.active /\ db'.recipeSeq = db.recipeSeq
<1>1. PICK fault \in Faults \ {"insert"} :
        db' = DeleteSpecificRecipe(db, Arg, fault # "delete")
  BY DEF DataDeleteRecipe
<1>2. WellFormed(db)
  BY DEF Typed, DbTyped, WellFormed
<1>3. CASE fault = "delete" \/ \E a \in db.active : a.recipe = Arg
  <2>1. db' = db
    BY <1>1, <1>3, Zenon DEF DeleteSpecificRecipe
  <2>. QED BY <1>2, <2>1 DEF TablesKept
<1>4. CASE ~(fault = "delete" \/ \E a \in db.active : a.recipe = Arg)
  <2>1. db' = DeleteRecipes(db, WithId(db.recipes, Arg))
    BY <1>1, <1>4, Zenon DEF DeleteSpecificRecipe
  <2>2. db'.active = {a \in db.active : a.recipe \notin Ids(WithId(db.recipes, Arg))}
    BY <1>2, <2>1 DEF DeleteRecipes, WellFormed, Databases
  <2>3. \A a \in db.active : a.recipe \notin Ids(WithId(db.recipes, Arg))
    BY <1>4 DEF Ids, WithId
  <2>4. db'.active = db.active
    BY <2>2, <2>3
  <2>. QED BY <1>2, <2>1, <2>4, RecipesDeleted
<1>. QED BY <1>3, <1>4

LEMMA DataTaskTyped == ASSUME Typed, DataTask PROVE Typed'
<1>. USE DEF Typed, WeldTyped, ExtTyped
<1>1. CASE DataStoreResult
  <2>1. DbTyped' /\ db'.resultSeq \in Nat
    BY <1>1, ResultStep DEF WellFormed, DbTyped, Databases
  <2>2. GlobalsTyped'
    BY <1>1, <2>1 DEF DataStoreResult, GlobalsTyped
  <2>3. QueuesTyped'
    BY <1>1, ReceivedFrom DEF DataStoreResult
  <2>. QED BY <1>1, <2>1, <2>2, <2>3 DEF DataStoreResult, UITyped, LoadingTyped
<1>2. CASE DataStoreSignature
  <2>1. DbTyped'
    BY <1>2, SignatureStep DEF WellFormed, DbTyped
  <2>2. QueuesTyped'
    BY <1>2, ReceivedFrom DEF DataStoreSignature
  <2>. QED BY <1>2, <2>1, <2>2 DEF DataStoreSignature, UITyped, LoadingTyped, GlobalsTyped
<1>3. CASE DataStoreAlarm
  <2>1. DbTyped'
    BY <1>3, AlarmStep DEF WellFormed, DbTyped
  <2>2. QueuesTyped'
    BY <1>3, ReceivedFrom DEF DataStoreAlarm
  <2>. QED BY <1>3, <2>1, <2>2 DEF DataStoreAlarm, UITyped, LoadingTyped, GlobalsTyped
<1>4. CASE DataUpdateActive
  <2>1. DbTyped'
    BY <1>4, UpdateStep DEF WellFormed, DbTyped
  <2>2. QueuesTyped'
    BY <1>4, ReceivedFrom DEF DataUpdateActive
  <2>. QED BY <1>4, <2>1, <2>2 DEF DataUpdateActive, UITyped, LoadingTyped, GlobalsTyped
<1>5. CASE DataReadActive
  <2>1. QueuesTyped'
    BY <1>5, ReceivedFrom DEF DataReadActive
  <2>. QED BY <1>5, <2>1 DEF DataReadActive, UITyped, LoadingTyped, GlobalsTyped, DbTyped,
                             Databases
<1>6. CASE DataAssignActive
  <2>1. PICK row \in loading :
          /\ globals' = [globals EXCEPT !.cycle = row.cycle, !.recipeId = row.recipe]
          /\ naming' = {row.recipe}
    BY <1>6 DEF DataAssignActive
  <2>2. GlobalsTyped' /\ LoadingTyped'
    BY <1>6, <2>1 DEF GlobalsTyped, LoadingTyped, DataAssignActive
  <2>. QED BY <1>6, <2>2 DEF DataAssignActive, UITyped, QueuesTyped, DbTyped
<1>14. CASE DataAssignRecipe
  <2>1. PICK id \in naming :
          globals' = [globals EXCEPT !.recipeId = id, !.recipe = id]
    BY <1>14 DEF DataAssignRecipe
  <2>2. GlobalsTyped'
    BY <2>1 DEF GlobalsTyped, LoadingTyped
  <2>. QED BY <1>14, <2>2 DEF DataAssignRecipe, UITyped, LoadingTyped, QueuesTyped, DbTyped
<1>7. CASE DataStoreRecipe
  <2>1. DbTyped'
    BY <1>7, StoreRecipeStep DEF WellFormed, DbTyped
  <2>2. QueuesTyped'
    BY <1>7, ReceivedFrom DEF DataStoreRecipe
  <2>. QED BY <1>7, <2>1, <2>2 DEF DataStoreRecipe, UITyped, LoadingTyped, GlobalsTyped
<1>8. CASE DataDeleteRecipe
  <2>1. DbTyped'
    BY <1>8, DeleteStep DEF WellFormed, DbTyped
  <2>2. QueuesTyped'
    BY <1>8, ReceivedFrom DEF DataDeleteRecipe
  <2>. QED BY <1>8, <2>1, <2>2 DEF DataDeleteRecipe, UITyped, LoadingTyped, GlobalsTyped
<1>9. CASE DataLatestPage
  <2>1. UITyped'
    BY <1>9, PageTyped, Fetched DEF DataLatestPage
  <2>2. QueuesTyped'
    BY <1>9, ReceivedFrom DEF DataLatestPage
  <2>. QED BY <1>9, <2>1, <2>2 DEF DataLatestPage, LoadingTyped, GlobalsTyped, DbTyped
<1>10. CASE DataNextPage
  <2>1. UITyped'
    BY <1>10, PageTyped, Fetched DEF DataNextPage
  <2>2. QueuesTyped'
    BY <1>10, ReceivedFrom DEF DataNextPage
  <2>. QED BY <1>10, <2>1, <2>2 DEF DataNextPage, LoadingTyped, GlobalsTyped, DbTyped
<1>11. CASE DataOtherPage
  <2>1. QueuesTyped'
    BY <1>11, ReceivedFrom DEF DataOtherPage
  <2>. QED BY <1>11, <2>1 DEF DataOtherPage, UITyped, LoadingTyped, GlobalsTyped, DbTyped
<1>12. CASE DataHistoryCurve
  <2>. DEFINE found == {s \in db.signatures : s.result = Arg}
              curve == UNION {s.curve : s \in found}
  <2>1. curve \in SUBSET Nat
    BY DEF DbTyped, Databases
  <2>2. globals' = globals \/ globals' = [globals EXCEPT !.curve = curve]
    BY <1>12 DEF DataHistoryCurve
  <2>. HIDE DEF curve
  <2>3. GlobalsTyped'
    BY <2>1, <2>2 DEF GlobalsTyped
  <2>4. QueuesTyped'
    BY <1>12, ReceivedFrom DEF DataHistoryCurve
  <2>. QED BY <1>12, <2>3, <2>4 DEF DataHistoryCurve, UITyped, LoadingTyped, DbTyped
<1>13. CASE DataQueryByName
  <2>1. PICK id \in {r.id : r \in {r \in db.recipes : r.name = Arg}} \cup {NoRow} :
          ext' = Append(ext, id)
    BY <1>13 DEF DataQueryByName
  <2>2. id \in Nat
    BY <2>1 DEF DbTyped, Databases, NoRow
  <2>3. QueuesTyped'
    BY <1>13, ReceivedFrom DEF DataQueryByName
  <2>. QED BY <1>13, <2>1, <2>2, <2>3
           DEF DataQueryByName, UITyped, LoadingTyped, GlobalsTyped, DbTyped
<1>. QED BY <1>1, <1>2, <1>3, <1>4, <1>5, <1>6, <1>7, <1>8, <1>9, <1>10, <1>11, <1>12, <1>13, <1>14
         DEF DataTask

LEMMA RestartTyped == ASSUME Typed, Restart PROVE Typed'
<1>1. PICK id \in Ids(db.recipes) \cup {NoRow} : globals' = BootGlobals(db, id)
  BY DEF Restart
<1>2. GlobalsTyped'
  BY <1>1, BootTyped DEF Typed, GlobalsTyped
<1>3. QueuesTyped'
  BY RecordsAssumption DEF Restart, QueuesTyped
<1>4. WeldTyped'
  BY DEF Restart, Typed, WeldTyped
<1>5. UITyped' /\ ExtTyped' /\ LoadingTyped'
  BY DEF Restart, UITyped, ExtTyped, LoadingTyped
<1>. QED BY <1>2, <1>3, <1>4, <1>5 DEF Restart, Typed, DbTyped

\* The program keeps its types, and the tables what the schema enforces.
LEMMA StepTyped == Typed /\ [Next]_vars => Typed'
<1>. SUFFICES ASSUME Typed, [Next]_vars PROVE Typed'
  OBVIOUS
<1>1. CASE UNCHANGED vars
  BY <1>1 DEF vars, Typed, WeldTyped, GlobalsTyped, QueuesTyped, UITyped, ExtTyped,
              LoadingTyped, DbTyped
<1>2. CASE Welding
  BY <1>2, WeldingTyped
<1>3. CASE HmiRequest
  BY <1>3, HmiRequestTyped
<1>4. CASE UITask
  BY <1>4, UITaskTyped
<1>5. CASE ExtRecall \/ ExtAnswer
  BY <1>5, ExternalTyped
<1>6. CASE DataTask
  BY <1>6, DataTaskTyped
<1>7. CASE Restart
  BY <1>7, RestartTyped
<1>. QED BY <1>1, <1>2, <1>3, <1>4, <1>5, <1>6, <1>7, Zenon DEF Next

LEMMA AlwaysTyped == Spec => []Typed
BY InitTyped, StepTyped, PTL DEF Spec

\* The type invariant of the run `records': each variable has its type, every
\* queue its length, every row an ID that was given and a row to refer to.
THEOREM RecordsTyped == Spec => []RecordsTypeOK
<1>1. Typed => RecordsTypeOK
  BY DEF Typed, RecordsTypeOK, WeldTyped, GlobalsTyped, QueuesTyped, LoadingTyped, DbTyped
<1>. QED BY <1>1, AlwaysTyped, PTL

-----------------------------------------------------------------------------
(* The row of ActiveRecipe.                                                *)

\* The steps that change the database.
LEMMA DbChanges ==
  ASSUME [Next]_vars
  PROVE  \/ UNCHANGED db
         \/ DataStoreResult \/ DataStoreSignature \/ DataStoreAlarm
         \/ DataUpdateActive \/ DataStoreRecipe \/ DataDeleteRecipe
<1>1. Welding => UNCHANGED db
  BY DEF Welding, WeldStart, WeldSample, WeldEnd, ControlRespond, ControlAlarm
<1>2. HmiRequest => UNCHANGED db
  BY DEF HmiRequest
<1>3. UITask => UNCHANGED db
  BY DEF UITask, UIForward, UISetActive, UIClearCounter, UIInsertRecipe, UIDefaultRecipe,
         UISendRows, UIRowsSent
<1>4. ExtRecall \/ ExtAnswer => UNCHANGED db
  BY DEF ExtRecall, ExtAnswer
<1>5. DataReadActive \/ DataAssignActive \/ DataAssignRecipe \/ DataLatestPage \/ DataNextPage \/ DataOtherPage
        \/ DataHistoryCurve \/ DataQueryByName => UNCHANGED db
  BY DEF DataReadActive, DataAssignActive, DataAssignRecipe, DataLatestPage, DataNextPage,
         DataOtherPage, DataHistoryCurve, DataQueryByName
<1>6. Restart => UNCHANGED db
  BY DEF Restart
<1>7. UNCHANGED vars => UNCHANGED db
  BY DEF vars
<1>. QED BY <1>1, <1>2, <1>3, <1>4, <1>5, <1>6, <1>7, Zenon DEF Next, DataTask


\* The property of the run `records': what the request to delete refuses is
\* all that protects the active recipe, and below the limit it is enough.
THEOREM ActiveRowStays == Spec => []ActiveRowKept
<1>1. Init => ActiveRowKept
  BY StartsAllowed DEF Init, ActiveRowKept
<1>2. ASSUME Typed, ActiveRowKept, [Next]_vars
      PROVE  ActiveRowKept'
  <2>1. WellFormed(db) /\ db.recipeSeq \in Nat /\ RecipeLimit \in Nat
    BY <1>2, LimitsAllowed DEF Typed, DbTyped, WellFormed, Databases
  <2>2. CASE UNCHANGED db
    BY <1>2, <2>2 DEF ActiveRowKept
  <2>3. CASE DataStoreResult \/ DataStoreSignature \/ DataStoreAlarm
    <3>1. RecipesKept(db, db')
      BY <1>2, <2>3, ResultStep, SignatureStep, AlarmStep
    <3>. QED BY <1>2, <3>1 DEF RecipesKept, ActiveRowKept
  <2>4. CASE DataUpdateActive
    BY <1>2, <2>4, UpdateStep DEF ActiveRowKept
  <2>5. CASE DataStoreRecipe
    <3>1. db'.recipeSeq \in Nat
      BY <1>2, <2>5, StoreRecipeStep DEF WellFormed, Databases
    <3>. QED BY <1>2, <2>1, <2>5, <3>1, StoreRecipeStep DEF ActiveRowKept
  <2>6. CASE DataDeleteRecipe
    BY <1>2, <2>6, DeleteStep DEF ActiveRowKept
  <2>. QED BY <1>2, <2>2, <2>3, <2>4, <2>5, <2>6, DbChanges
<1>. QED BY <1>1, <1>2, AlwaysTyped, PTL DEF Spec

-----------------------------------------------------------------------------
(* The limits of the tables.                                               *)

LEMMA StepShaped ==
  ASSUME HistoryShaped, [Next]_vars
  PROVE  /\ HistoryShaped'
         /\ \/ history'.kept = history.kept
            \/ DataStoreResult \/ DataStoreSignature \/ DataStoreAlarm
<1>. USE DEF HistoryShaped
<1>1. CASE Welding
  <2>1. CASE WeldStart
    BY <2>1 DEF WeldStart
  <2>2. CASE WeldSample \/ WeldEnd \/ ControlAlarm
    BY <2>2 DEF WeldSample, WeldEnd, ControlAlarm
  <2>3. CASE ControlRespond
    BY <2>3 DEF ControlRespond
  <2>. QED BY <1>1, <2>1, <2>2, <2>3 DEF Welding
<1>2. CASE HmiRequest \/ ExtRecall \/ UNCHANGED vars
  BY <1>2 DEF HmiRequest, ExtRecall, vars
<1>3. CASE UITask
  <2>1. CASE UIForward \/ UIInsertRecipe \/ UIDefaultRecipe \/ UIRowsSent
    BY <2>1 DEF UIForward, UIInsertRecipe, UIDefaultRecipe, UIRowsSent
  <2>2. CASE UISetActive
    BY <2>2 DEF UISetActive
  <2>3. CASE UIClearCounter
    BY <2>3 DEF UIClearCounter
  <2>4. CASE UISendRows
    BY <2>4 DEF UISendRows
  <2>. QED BY <1>3, <2>1, <2>2, <2>3, <2>4 DEF UITask
<1>4. CASE ExtAnswer
  BY <1>4 DEF ExtAnswer
<1>5. CASE DataTask
  <2>1. CASE DataStoreResult
    BY <2>1 DEF DataStoreResult
  <2>2. CASE DataStoreSignature
    BY <2>2 DEF DataStoreSignature
  <2>3. CASE DataStoreAlarm
    BY <2>3 DEF DataStoreAlarm
  <2>4. CASE DataUpdateActive
    BY <2>4 DEF DataUpdateActive
  <2>5. CASE DataAssignActive \/ DataAssignRecipe
    BY <2>5 DEF DataAssignActive, DataAssignRecipe
  <2>6. CASE DataReadActive \/ DataStoreRecipe \/ DataDeleteRecipe \/ DataQueryByName
    BY <2>6 DEF DataReadActive, DataStoreRecipe, DataDeleteRecipe, DataQueryByName
  <2>7. CASE DataLatestPage \/ DataOtherPage
    BY <2>7 DEF DataLatestPage, DataOtherPage
  <2>8. CASE DataNextPage
    BY <2>8 DEF DataNextPage
  <2>9. CASE DataHistoryCurve
    BY <2>9 DEF DataHistoryCurve
  <2>. QED BY <1>5, <2>1, <2>2, <2>3, <2>4, <2>5, <2>6, <2>7, <2>8, <2>9 DEF DataTask
<1>6. CASE Restart
  BY <1>6 DEF Restart
<1>. QED BY <1>1, <1>2, <1>3, <1>4, <1>5, <1>6 DEF Next

\* How many rows a table has, of the IDs it gave, with so many deletions
\* refused.
Counted(rows, seq, limit, refused) ==
  /\ IsFiniteSet(rows)
  /\ Cardinality(rows) <= seq
  /\ Cardinality(rows) <= limit + refused

LEMMA StoredCounted ==
  ASSUME NEW rows, NEW seq \in Nat, NEW limit \in Nat, NEW refused \in Nat,
         Counted(rows, seq, limit, refused), \A r \in rows : r.id \in Nat,
         NEW newRows, NEW newSeq, NEW deleted, NEW row,
         Stored(rows, seq, newRows, newSeq, limit, deleted, row)
  PROVE  Counted(newRows, newSeq, limit,
                 IF newSeq > limit /\ ~deleted THEN refused + 1 ELSE refused)
<1>. DEFINE more == rows \cup {row}
<1>1. /\ IsFiniteSet(more) /\ Cardinality(rows) \in Nat /\ Cardinality(more) \in Nat
      /\ Cardinality(more) <= Cardinality(rows) + 1
  BY RowInserted DEF Counted
<1>2. /\ more # {} /\ \A r \in more : r.id \in Nat
      /\ newSeq = seq + 1
  BY DEF Stored
<1>3. /\ IsFiniteSet(more \ Oldest(more)) /\ Cardinality(more \ Oldest(more)) \in Nat
      /\ Cardinality(more \ Oldest(more)) <= Cardinality(more) - 1
  BY <1>1, <1>2, RowsDeleted, OldestDeleted
<1>. HIDE DEF more
<1>4. CASE newSeq > limit /\ deleted
  <2>1. newRows = more \ Oldest(more)
    BY <1>4 DEF Stored, more
  <2>. QED BY <1>1, <1>2, <1>3, <1>4, <2>1 DEF Counted
<1>5. CASE ~(newSeq > limit /\ deleted)
  <2>1. newRows = more
    BY <1>5 DEF Stored, more
  <2>. QED BY <1>1, <1>2, <1>5, <2>1 DEF Counted
<1>. QED BY <1>4, <1>5

CountInv ==
  /\ HistoryShaped
  /\ history.kept \in [Limited -> Nat]
  /\ Counted(db.results, db.resultSeq, ResultLimit, history.kept["results"])
  /\ Counted(db.signatures, db.signatureSeq, SignatureLimit, history.kept["signatures"])
  /\ Counted(db.alarms, db.alarmSeq, ResultLimit, history.kept["alarms"])

LEMMA InitCounted == Init => CountInv
<1>. SUFFICES ASSUME Init PROVE CountInv
  OBVIOUS
<1>1. /\ IsFiniteSet(db.results) /\ IsFiniteSet(db.signatures) /\ IsFiniteSet(db.alarms)
      /\ Cardinality(db.results) <= ResultLimit /\ Cardinality(db.results) <= db.resultSeq
      /\ Cardinality(db.signatures) <= SignatureLimit
      /\ Cardinality(db.signatures) <= db.signatureSeq
      /\ Cardinality(db.alarms) <= ResultLimit /\ Cardinality(db.alarms) <= db.alarmSeq
  BY StartsAllowed DEF Init
<1>2. history.kept = [table \in Limited |-> 0] /\ HistoryShaped
  BY DEF Init, HistoryShaped
<1>3. "results" \in Limited /\ "signatures" \in Limited /\ "alarms" \in Limited
  BY DEF Limited
<1>4. ResultLimit \in Nat /\ SignatureLimit \in Nat
  BY LimitsAllowed
<1>5. /\ Cardinality(db.results) \in Nat /\ Cardinality(db.signatures) \in Nat
      /\ Cardinality(db.alarms) \in Nat
  BY <1>1, FS_CardinalityType
<1>. QED BY <1>1, <1>2, <1>3, <1>4, <1>5 DEF CountInv, Counted

\* Fewer rows are within the same bounds.
LEMMA FewerCounted ==
  ASSUME NEW rows, NEW seq \in Nat, NEW limit \in Nat, NEW refused \in Nat,
         Counted(rows, seq, limit, refused), NEW fewer \in SUBSET rows
  PROVE  Counted(fewer, seq, limit, refused)
<1>1. /\ IsFiniteSet(fewer) /\ Cardinality(fewer) <= Cardinality(rows)
      /\ Cardinality(fewer) \in Nat /\ Cardinality(rows) \in Nat
  BY FS_Subset, FS_CardinalityType DEF Counted
<1>. QED BY <1>1 DEF Counted

\* A refused deletion of a step that stored a row is counted.
LEMMA KeptCounted ==
  ASSUME CountInv, NEW table \in Limited, NEW full,
         HistoryShaped', history'.kept = Kept(table, full)
  PROVE  /\ history'.kept \in [Limited -> Nat]
         /\ history'.kept[table] = IF full /\ db' # db THEN history.kept[table] + 1
                                   ELSE history.kept[table]
         /\ \A other \in Limited \ {table} : history'.kept[other] = history.kept[other]
<1>. DEFINE kept == history.kept
<1>1. kept \in [Limited -> Nat] /\ kept[table] + 1 \in Nat
  BY DEF CountInv
<1>2. history'.kept = IF full /\ db' # db THEN [kept EXCEPT ![table] = @ + 1] ELSE kept
  BY DEF Kept
<1>. HIDE DEF kept
<1>3. /\ history'.kept \in [Limited -> Nat]
      /\ history'.kept[table] = IF full /\ db' # db THEN kept[table] + 1 ELSE kept[table]
      /\ \A other \in Limited \ {table} : history'.kept[other] = kept[other]
  BY <1>1, <1>2
<1>. QED BY <1>3 DEF kept

\* A step that stores a row in one table, and takes rows from no more than
\* the others.
LEMMA CountStep == Typed /\ CountInv /\ [Next]_vars => CountInv'
<1>. SUFFICES ASSUME Typed, CountInv, [Next]_vars PROVE CountInv'
  OBVIOUS
<1>. DEFINE kept == history.kept
<1>1. /\ HistoryShaped /\ HistoryShaped'
      /\ \/ history'.kept = kept
         \/ DataStoreResult \/ DataStoreSignature \/ DataStoreAlarm
  BY StepShaped DEF CountInv
<1>2. /\ ResultLimit \in Nat /\ SignatureLimit \in Nat
      /\ db.resultSeq \in Nat /\ db.signatureSeq \in Nat /\ db.alarmSeq \in Nat
      /\ \A r \in db.results \cup db.signatures \cup db.alarms : r.id \in Nat
  BY LimitsAllowed DEF Typed, DbTyped, Databases
<1>3. /\ "results" \in Limited /\ "signatures" \in Limited /\ "alarms" \in Limited
      /\ kept \in [Limited -> Nat]
      /\ kept["results"] \in Nat /\ kept["signatures"] \in Nat /\ kept["alarms"] \in Nat
  BY DEF Limited, CountInv
<1>4. /\ Counted(db.results, db.resultSeq, ResultLimit, kept["results"])
      /\ Counted(db.signatures, db.signatureSeq, SignatureLimit, kept["signatures"])
      /\ Counted(db.alarms, db.alarmSeq, ResultLimit, kept["alarms"])
  BY DEF CountInv
<1>5. CASE DataStoreResult
  <2>1. PICK fault \in Faults :
          /\ fault = "insert" => db' = db
          /\ fault # "insert" =>
               \E row : Stored(db.results, db.resultSeq, db'.results, db'.resultSeq,
                              ResultLimit, fault # "delete", row)
          /\ history'.kept = Kept("results", fault = "delete" /\ ResultsFull(db))
    BY <1>1, <1>5, ResultStep, Zenon
  <2>2. /\ history'.kept \in [Limited -> Nat]
        /\ history'.kept["results"] =
             IF (fault = "delete" /\ ResultsFull(db)) /\ db' # db THEN kept["results"] + 1
             ELSE kept["results"]
        /\ history'.kept["signatures"] = kept["signatures"]
        /\ history'.kept["alarms"] = kept["alarms"]
    BY <1>1, <1>3, <2>1, KeptCounted DEF Limited
  <2>3. Counted(db'.results, db'.resultSeq, ResultLimit, history'.kept["results"])
    <3>1. CASE fault = "insert"
      BY <1>4, <2>1, <2>2, <3>1
    <3>2. CASE fault # "insert"
      <4>1. PICK row : Stored(db.results, db.resultSeq, db'.results, db'.resultSeq,
                              ResultLimit, fault # "delete", row)
        BY <2>1, <3>2
      <4>2. Counted(db'.results, db'.resultSeq, ResultLimit,
                    IF db'.resultSeq > ResultLimit /\ ~(fault # "delete")
                    THEN kept["results"] + 1 ELSE kept["results"])
        BY <1>2, <1>3, <1>4, <4>1, StoredCounted
      <4>3. db'.resultSeq = db.resultSeq + 1 /\ db' # db
        BY <1>2, <4>1 DEF Stored
      <4>. QED BY <2>2, <4>2, <4>3 DEF ResultsFull
    <3>. QED BY <3>1, <3>2
  <2>4. /\ Counted(db'.signatures, db'.signatureSeq, SignatureLimit, kept["signatures"])
        /\ Counted(db'.alarms, db'.alarmSeq, ResultLimit, kept["alarms"])
    BY <1>2, <1>3, <1>4, <1>5, ResultStep, FewerCounted
  <2>. QED BY <1>1, <2>2, <2>3, <2>4 DEF CountInv
<1>6. CASE DataStoreSignature
  <2>1. PICK fault \in Faults :
          /\ \/ db' = db
             \/ \E row : Stored(db.signatures, db.signatureSeq, db'.signatures,
                                db'.signatureSeq, SignatureLimit, fault # "delete", row)
          /\ history'.kept = Kept("signatures", fault = "delete" /\ SignaturesFull(db))
    BY <1>1, <1>6, SignatureStep, Zenon
  <2>2. /\ history'.kept \in [Limited -> Nat]
        /\ history'.kept["signatures"] =
             IF (fault = "delete" /\ SignaturesFull(db)) /\ db' # db
             THEN kept["signatures"] + 1 ELSE kept["signatures"]
        /\ history'.kept["results"] = kept["results"]
        /\ history'.kept["alarms"] = kept["alarms"]
    BY <1>1, <1>3, <2>1, KeptCounted DEF Limited
  <2>3. Counted(db'.signatures, db'.signatureSeq, SignatureLimit, history'.kept["signatures"])
    <3>1. CASE db' = db
      BY <1>4, <2>2, <3>1
    <3>2. CASE db' # db
      <4>1. PICK row : Stored(db.signatures, db.signatureSeq, db'.signatures,
                              db'.signatureSeq, SignatureLimit, fault # "delete", row)
        BY <2>1, <3>2
      <4>2. Counted(db'.signatures, db'.signatureSeq, SignatureLimit,
                    IF db'.signatureSeq > SignatureLimit /\ ~(fault # "delete")
                    THEN kept["signatures"] + 1 ELSE kept["signatures"])
        BY <1>2, <1>3, <1>4, <4>1, StoredCounted
      <4>3. db'.signatureSeq = db.signatureSeq + 1
        BY <1>2, <4>1 DEF Stored
      <4>. QED BY <2>2, <3>2, <4>2, <4>3 DEF SignaturesFull
    <3>. QED BY <3>1, <3>2
  <2>4. /\ db'.results = db.results /\ db'.resultSeq = db.resultSeq
        /\ db'.alarms = db.alarms /\ db'.alarmSeq = db.alarmSeq
    BY <1>6, SignatureStep
  <2>. QED BY <1>1, <1>4, <2>2, <2>3, <2>4 DEF CountInv
<1>7. CASE DataStoreAlarm
  <2>1. PICK fault \in Faults :
          /\ \/ db' = db
             \/ \E row : Stored(db.alarms, db.alarmSeq, db'.alarms, db'.alarmSeq,
                                ResultLimit, fault # "delete", row)
          /\ history'.kept = Kept("alarms", fault = "delete" /\ AlarmsFull(db))
    BY <1>1, <1>7, AlarmStep, Zenon
  <2>2. /\ history'.kept \in [Limited -> Nat]
        /\ history'.kept["alarms"] =
             IF (fault = "delete" /\ AlarmsFull(db)) /\ db' # db
             THEN kept["alarms"] + 1 ELSE kept["alarms"]
        /\ history'.kept["results"] = kept["results"]
        /\ history'.kept["signatures"] = kept["signatures"]
    BY <1>1, <1>3, <2>1, KeptCounted DEF Limited
  <2>3. Counted(db'.alarms, db'.alarmSeq, ResultLimit, history'.kept["alarms"])
    <3>1. CASE db' = db
      BY <1>4, <2>2, <3>1
    <3>2. CASE db' # db
      <4>1. PICK row : Stored(db.alarms, db.alarmSeq, db'.alarms, db'.alarmSeq,
                              ResultLimit, fault # "delete", row)
        BY <2>1, <3>2
      <4>2. Counted(db'.alarms, db'.alarmSeq, ResultLimit,
                    IF db'.alarmSeq > ResultLimit /\ ~(fault # "delete")
                    THEN kept["alarms"] + 1 ELSE kept["alarms"])
        BY <1>2, <1>3, <1>4, <4>1, StoredCounted
      <4>3. db'.alarmSeq = db.alarmSeq + 1
        BY <1>2, <4>1 DEF Stored
      <4>. QED BY <2>2, <3>2, <4>2, <4>3 DEF AlarmsFull
    <3>. QED BY <3>1, <3>2
  <2>4. /\ db'.results = db.results /\ db'.resultSeq = db.resultSeq
        /\ db'.signatures = db.signatures /\ db'.signatureSeq = db.signatureSeq
    BY <1>7, AlarmStep
  <2>. QED BY <1>1, <1>4, <2>2, <2>3, <2>4 DEF CountInv
<1>8. CASE history'.kept = kept /\ (UNCHANGED db \/ TablesKept(db, db'))
  <2>1. TablesKept(db, db')
    BY <1>8 DEF TablesKept
  <2>. QED BY <1>1, <1>3, <1>4, <1>8, <2>1 DEF CountInv, TablesKept
<1>9. CASE DataUpdateActive \/ DataStoreRecipe \/ DataDeleteRecipe
  BY <1>1, <1>5, <1>6, <1>7, <1>8, <1>9, UpdateStep, StoreRecipeStep, DeleteStep
<1>. QED BY <1>1, <1>5, <1>6, <1>7, <1>8, <1>9, DbChanges

\* The property of the run `records': DeleteOldest is called by the ID that
\* was given, once for each row stored, and that bounds the rows, whatever
\* rows SQLite's cascades and the program's restarts take or leave.
THEOREM ResultsStayBounded == Spec => []ResultsBounded
<1>1. CountInv => ResultsBounded
  BY DEF CountInv, Counted, ResultsBounded
<1>. QED BY <1>1, InitCounted, CountStep, AlwaysTyped, PTL DEF Spec

-----------------------------------------------------------------------------
(* The count of the batch.                                                 *)

\* The rows of ActiveRecipe are alike, and what the data task has read of
\* them to assign is what the table still holds: it receives nothing between.
Alike == /\ \A a, b \in db.active : a = b
         /\ loading = {} \/ loading = db.active

LEMMA ReceivedAlike ==
  ASSUME Alike, loading = {}, loading' = loading, db'.active \subseteq db.active
  PROVE  Alike'
BY DEF Alike

LEMMA AlikeStep == Typed /\ Alike /\ [Next]_vars => Alike'
<1>. SUFFICES ASSUME Typed, Alike, [Next]_vars PROVE Alike'
  OBVIOUS
<1>1. CASE DataStoreResult \/ DataStoreSignature \/ DataStoreAlarm
  <2>1. RecipesKept(db, db')
    BY <1>1, ResultStep, SignatureStep, AlarmStep
  <2>. QED BY <1>1, <2>1, ReceivedAlike
           DEF DataStoreResult, DataStoreSignature, DataStoreAlarm, Receives, RecipesKept
<1>2. CASE DataStoreRecipe \/ DataDeleteRecipe
  BY <1>2, StoreRecipeStep, DeleteStep, ReceivedAlike
     DEF DataStoreRecipe, DataDeleteRecipe, Receives
<1>3. CASE DataUpdateActive
  <2>1. \/ \A a \in db'.active : a = [recipe |-> Arg, cycle |-> globals.cycle]
        \/ db' = db
    BY <1>3, UpdateStep
  <2>. QED BY <1>3, <2>1 DEF DataUpdateActive, Receives, Alike
<1>4. CASE UNCHANGED db
  <2>1. loading' \in {loading, {}, db.active}
    <3>1. Welding => loading' = loading
      BY DEF Welding, WeldStart, WeldSample, WeldEnd, ControlRespond, ControlAlarm
    <3>2. HmiRequest \/ ExtRecall \/ ExtAnswer \/ UNCHANGED vars => loading' = loading
      BY DEF HmiRequest, ExtRecall, ExtAnswer, vars
    <3>3. UITask => loading' = loading
      BY DEF UITask, UIForward, UISetActive, UIClearCounter, UIInsertRecipe, UIDefaultRecipe,
             UISendRows, UIRowsSent
    <3>4. Restart => loading' = {}
      BY DEF Restart
    <3>5. DataStoreResult \/ DataStoreSignature \/ DataStoreAlarm \/ DataUpdateActive
            \/ DataStoreRecipe \/ DataDeleteRecipe => loading' = loading
      BY DEF DataStoreResult, DataStoreSignature, DataStoreAlarm, DataUpdateActive,
             DataStoreRecipe, DataDeleteRecipe
    <3>6. DataReadActive \/ DataAssignActive => loading' \in {{}, db.active}
      BY DEF DataReadActive, DataAssignActive
    <3>8. DataAssignRecipe => loading' = loading
      BY DEF DataAssignRecipe
    <3>7. DataLatestPage \/ DataNextPage \/ DataOtherPage \/ DataHistoryCurve
            \/ DataQueryByName => loading' = loading
      BY DEF DataLatestPage, DataNextPage, DataOtherPage, DataHistoryCurve, DataQueryByName
    <3>. QED BY <3>1, <3>2, <3>3, <3>4, <3>5, <3>6, <3>7, <3>8 DEF Next, DataTask
  <2>. QED BY <1>4, <2>1 DEF Alike
<1>. QED BY <1>1, <1>2, <1>3, <1>4, DbChanges

\* What a step may do with the count: nothing that matters, ...
CountKept == /\ globals'.cycle = globals.cycle
             /\ db'.active \subseteq db.active
             /\ ActiveUpdates \subseteq ActiveUpdates'
             /\ history.unsaved => history'.unsaved

\* ... change it with a message that will store it, or fail to, ...
CountNoted == history'.unsaved \/ ActiveUpdates' # {}

\* ... or bring the table and the memory together.
CountStored == \A a \in db'.active : a.cycle = globals'.cycle

LEMMA QueuedGrows ==
  ASSUME Queued \subseteq Queued' PROVE ActiveUpdates \subseteq ActiveUpdates'
BY DEF ActiveUpdates

LEMMA UpdateSent ==
  ASSUME QueuesTyped, NEW name \in QueueNames, NEW recipe \in Nat,
         queues' = [queues EXCEPT ![name] = Send(@, Msg("ACTIVE_RECIPE_UPDATE", recipe))]
  PROVE  Fits(queues[name]) => ActiveUpdates' # {}
<1>1. Msg("ACTIVE_RECIPE_UPDATE", recipe) \in DataMessages
  BY DEF Msg, DataMessages, NumberMessages
<1>2. Fits(queues[name]) => Msg("ACTIVE_RECIPE_UPDATE", recipe) \in Queued'
  BY <1>1, SentTo
<1>. QED BY <1>2 DEF ActiveUpdates, Msg

\* The handlers of other messages leave the updates that wait.
LEMMA OtherReceived ==
  ASSUME QueuesTyped, NEW id, id # "ACTIVE_RECIPE_UPDATE", Receives(id), queues' = Rest
  PROVE  ActiveUpdates \subseteq ActiveUpdates'
BY ReceivedFrom DEF ActiveUpdates

LEMMA WeldingCounts == ASSUME Typed, HistoryShaped, Welding PROVE CountKept \/ CountNoted
<1>1. CASE WeldStart \/ WeldSample \/ WeldEnd
  <2>1. UNCHANGED <<queues, db>>
    BY <1>1 DEF WeldStart, WeldSample, WeldEnd
  <2>2. ActiveUpdates' = ActiveUpdates
    BY <2>1 DEF ActiveUpdates, Queued
  <2>3. CASE WeldStart
    BY <2>1, <2>2, <2>3 DEF WeldStart, CountKept, Typed, GlobalsTyped, HistoryShaped
  <2>4. CASE WeldSample
    BY <2>1, <2>2, <2>4 DEF WeldSample, CountKept, Typed, GlobalsTyped
  <2>5. CASE WeldEnd
    BY <2>1, <2>2, <2>5 DEF WeldEnd, CountKept, Typed, GlobalsTyped
  <2>. QED BY <1>1, <2>3, <2>4, <2>5
<1>2. CASE ControlRespond
  <2>1. CASE weld.outcome = "preheight"
    <3>1. UNCHANGED <<globals, queues, history, db>>
      BY <1>2, <2>1 DEF ControlRespond
    <3>. QED BY <3>1 DEF CountKept, ActiveUpdates, Queued
  <2>2. CASE weld.outcome # "preheight"
    <3>1. /\ queues' = SendAnswers
          /\ history'.unsaved = (history.unsaved \/ Dropped(Answers[3]))
      BY <1>2, <2>2 DEF ControlRespond, HistoryShaped
    <3>2. ~Dropped(Answers[3]) => Answers[3] \in Queued'
      BY <3>1, Answered DEF Typed
    <3>3. Answers[3].id = "ACTIVE_RECIPE_UPDATE"
      BY DEF Answers, Msg
    <3>. QED BY <3>1, <3>2, <3>3 DEF CountNoted, ActiveUpdates
  <2>. QED BY <2>1, <2>2
<1>3. CASE ControlAlarm
  <2>. DEFINE m == Msg("ALARM_LOG_INSERT", IF weld.outcome = "alarm" THEN weld.number ELSE NoWeld)
  <2>1. m \in DataMessages /\ "Control" \in QueueNames
    BY DEF Msg, DataMessages, NumberMessages, Typed, WeldTyped, NoWeld, QueueNames
  <2>2. /\ queues' = [queues EXCEPT !["Control"] = Send(@, m)]
        /\ UNCHANGED <<globals, db, history>>
    BY <1>3 DEF ControlAlarm
  <2>. HIDE DEF m
  <2>3. ActiveUpdates \subseteq ActiveUpdates'
    BY <2>1, <2>2, SentTo, QueuedGrows DEF Typed
  <2>. QED BY <2>2, <2>3 DEF CountKept
<1>. QED BY <1>1, <1>2, <1>3 DEF Welding

LEMMA HmiCounts == ASSUME HmiRequest \/ ExtRecall \/ UNCHANGED vars, Typed PROVE CountKept
<1>1. CASE HmiRequest \/ UNCHANGED vars
  BY <1>1 DEF HmiRequest, vars, CountKept, ActiveUpdates, Queued
<1>2. CASE ExtRecall
  <2>1. PICK name \in Names :
          queues' = [queues EXCEPT !["Request"] = Send(@, Msg("WELD_RECIPE_QUERY_BY_NAME", name))]
    BY <1>2 DEF ExtRecall
  <2>2. /\ Msg("WELD_RECIPE_QUERY_BY_NAME", name) \in DataMessages
        /\ "Request" \in QueueNames
    BY DEF Msg, DataMessages, NameMessages, QueueNames
  <2>3. ActiveUpdates \subseteq ActiveUpdates'
    BY <2>1, <2>2, SentTo, QueuedGrows DEF Typed
  <2>. QED BY <1>2, <2>3 DEF ExtRecall, CountKept
<1>. QED BY <1>1, <1>2

LEMMA ExtAnswerCounts == ASSUME Typed, HistoryShaped, ExtAnswer PROVE CountKept \/ CountNoted
<1>1. CASE UNCHANGED <<globals, queues, history>>
  BY <1>1 DEF ExtAnswer, CountKept, ActiveUpdates, Queued
<1>2. CASE ~UNCHANGED <<globals, queues, history>>
  <2>1. /\ queues' = [queues EXCEPT !["Request"] =
                        Send(@, Msg("ACTIVE_RECIPE_UPDATE", Head(ext)))]
        /\ history'.unsaved = (history.unsaved \/ ~Fits(queues["Request"]))
    BY <1>2 DEF ExtAnswer, HistoryShaped
  <2>2. Head(ext) \in Nat
    BY DEF ExtAnswer, Typed, ExtTyped
  <2>3. Fits(queues["Request"]) => ActiveUpdates' # {}
    BY <2>1, <2>2, UpdateSent DEF Typed, QueueNames
  <2>. QED BY <2>1, <2>3 DEF CountNoted
<1>. QED BY <1>1, <1>2

LEMMA UICounts == ASSUME Typed, HistoryShaped, UITask PROVE CountKept \/ CountNoted
<1>. USE DEF Typed
<1>1. CASE UIForward
  <2>1. PICK id \in DOMAIN Forwarded :
          /\ UIReceives(id)
          /\ queues' = [queues EXCEPT !["Data"] = Send(@, Msg(Forwarded[id], UIArg))]
    BY <1>1 DEF UIForward
  <2>2. Msg(Forwarded[id], UIArg) \in DataMessages /\ "Data" \in QueueNames
    <3>1. UIArg \in Nat /\ Forwarded[id] \in NumberMessages
      BY <2>1, UIReceived DEF UIArg, UIMessages, Forwarded, NumberMessages
    <3>. QED BY <3>1 DEF Msg, DataMessages, QueueNames
  <2>3. ActiveUpdates \subseteq ActiveUpdates'
    BY <2>1, <2>2, SentTo, QueuedGrows
  <2>. QED BY <1>1, <2>3 DEF UIForward, CountKept
<1>2. CASE UISetActive
  <2>1. UIArg \in Nat
    BY <1>2, UIReceived DEF UISetActive, UIArg, UIMessages
  <2>2. /\ queues' = [queues EXCEPT !["Data"] = Send(@, Msg("ACTIVE_RECIPE_UPDATE", UIArg))]
        /\ history'.unsaved = (history.unsaved \/ ~Fits(queues["Data"]))
    BY <1>2 DEF UISetActive, HistoryShaped
  <2>3. Fits(queues["Data"]) => ActiveUpdates' # {}
    BY <2>1, <2>2, UpdateSent DEF QueueNames
  <2>. QED BY <2>2, <2>3 DEF CountNoted
<1>3. CASE UIClearCounter
  <2>1. globals.recipeId \in Nat
    BY DEF GlobalsTyped
  <2>2. /\ queues' = [queues EXCEPT !["Data"] =
                        Send(@, Msg("ACTIVE_RECIPE_UPDATE", globals.recipeId))]
        /\ history'.unsaved = (history.unsaved \/ ~Fits(queues["Data"]))
    BY <1>3 DEF UIClearCounter, HistoryShaped
  <2>3. Fits(queues["Data"]) => ActiveUpdates' # {}
    BY <2>1, <2>2, UpdateSent DEF QueueNames
  <2>. QED BY <2>2, <2>3 DEF CountNoted
<1>4. CASE UIInsertRecipe
  <2>1. UIArg \in Names
    BY <1>4, UIReceived DEF UIInsertRecipe, UIArg, UIMessages
  <2>2. /\ Msg("WELD_RECIPE_INSERT", UIArg) \in DataMessages
        /\ "Data" \in QueueNames
    BY <2>1 DEF Msg, DataMessages, NameMessages, QueueNames
  <2>3. ActiveUpdates \subseteq ActiveUpdates'
    BY <1>4, <2>2, SentTo, QueuedGrows DEF UIInsertRecipe
  <2>. QED BY <1>4, <2>3 DEF UIInsertRecipe, CountKept, GlobalsTyped
<1>5. CASE UIDefaultRecipe \/ UISendRows \/ UIRowsSent
  <2>1. ActiveUpdates' = ActiveUpdates
    BY <1>5 DEF UIDefaultRecipe, UISendRows, UIRowsSent, ActiveUpdates, Queued
  <2>2. CASE UIDefaultRecipe
    BY <2>1, <2>2 DEF UIDefaultRecipe, CountKept, GlobalsTyped
  <2>3. CASE UISendRows
    BY <2>1, <2>3 DEF UISendRows, CountKept, HistoryShaped
  <2>4. CASE UIRowsSent
    BY <2>1, <2>4 DEF UIRowsSent, CountKept
  <2>. QED BY <1>5, <2>2, <2>3, <2>4
<1>. QED BY <1>1, <1>2, <1>3, <1>4, <1>5 DEF UITask

LEMMA DataCounts ==
  ASSUME Typed, HistoryShaped, Alike, DataTask
  PROVE  CountKept \/ CountNoted \/ CountStored
<1>. USE DEF Typed
<1>1. CASE DataStoreResult
  <2>1. ActiveUpdates \subseteq ActiveUpdates' /\ db'.active = db.active
    BY <1>1, OtherReceived, ResultStep DEF DataStoreResult, RecipesKept
  <2>2. globals'.cycle = globals.cycle
    BY <1>1 DEF DataStoreResult, GlobalsTyped
  <2>3. history'.unsaved = history.unsaved
    BY <1>1 DEF DataStoreResult, HistoryShaped
  <2>. QED BY <2>1, <2>2, <2>3 DEF CountKept
<1>2. CASE DataStoreSignature
  <2>1. ActiveUpdates \subseteq ActiveUpdates' /\ db'.active = db.active
    BY <1>2, OtherReceived, SignatureStep DEF DataStoreSignature, RecipesKept
  <2>2. globals' = globals /\ history'.unsaved = history.unsaved
    BY <1>2 DEF DataStoreSignature, HistoryShaped
  <2>. QED BY <2>1, <2>2 DEF CountKept
<1>3. CASE DataStoreAlarm
  <2>1. ActiveUpdates \subseteq ActiveUpdates' /\ db'.active = db.active
    BY <1>3, OtherReceived, AlarmStep DEF DataStoreAlarm, RecipesKept
  <2>2. globals' = globals /\ history'.unsaved = history.unsaved
    BY <1>3 DEF DataStoreAlarm, HistoryShaped
  <2>. QED BY <2>1, <2>2 DEF CountKept
<1>4. CASE DataUpdateActive
  <2>1. globals' = globals
    BY <1>4 DEF DataUpdateActive
  <2>. QED BY <1>4, <2>1, UpdateStep DEF CountNoted, CountStored
<1>5. CASE DataReadActive \/ DataQueryByName
  <2>1. ActiveUpdates \subseteq ActiveUpdates'
    BY <1>5, OtherReceived DEF DataReadActive, DataQueryByName
  <2>. QED BY <1>5, <2>1 DEF DataReadActive, DataQueryByName, CountKept
<1>6. CASE DataAssignActive
  <2>1. PICK row \in loading :
          globals' = [globals EXCEPT !.cycle = row.cycle, !.recipeId = row.recipe]
    BY <1>6 DEF DataAssignActive
  <2>2. globals'.cycle = row.cycle
    BY <2>1 DEF GlobalsTyped
  <2>3. row \in db.active /\ db' = db
    BY <1>6, <2>1 DEF Alike, DataAssignActive
  <2>. QED BY <2>2, <2>3 DEF Alike, CountStored
<1>11. CASE DataAssignRecipe
  <2>1. globals'.cycle = globals.cycle /\ history'.unsaved = history.unsaved
    BY <1>11 DEF DataAssignRecipe, HistoryShaped, GlobalsTyped
  <2>2. db' = db /\ queues' = queues
    BY <1>11 DEF DataAssignRecipe
  <2>. QED BY <2>1, <2>2 DEF CountKept, ActiveUpdates, Queued
<1>7. CASE DataStoreRecipe
  <2>1. ActiveUpdates \subseteq ActiveUpdates'
    BY <1>7, OtherReceived DEF DataStoreRecipe
  <2>. QED BY <1>7, <2>1, StoreRecipeStep DEF DataStoreRecipe, CountKept
<1>8. CASE DataDeleteRecipe
  <2>1. ActiveUpdates \subseteq ActiveUpdates'
    BY <1>8, OtherReceived DEF DataDeleteRecipe
  <2>. QED BY <1>8, <2>1, DeleteStep DEF DataDeleteRecipe, CountKept
<1>9. CASE DataLatestPage \/ DataNextPage \/ DataOtherPage
  <2>1. ActiveUpdates \subseteq ActiveUpdates'
    BY <1>9, OtherReceived DEF DataLatestPage, DataNextPage, DataOtherPage
  <2>2. history'.unsaved = history.unsaved
    BY <1>9 DEF DataLatestPage, DataNextPage, DataOtherPage, HistoryShaped
  <2>3. globals' = globals /\ db' = db
    BY <1>9 DEF DataLatestPage, DataNextPage, DataOtherPage
  <2>. QED BY <2>1, <2>2, <2>3 DEF CountKept
<1>10. CASE DataHistoryCurve
  <2>1. ActiveUpdates \subseteq ActiveUpdates'
    BY <1>10, OtherReceived DEF DataHistoryCurve
  <2>2. history'.unsaved = history.unsaved /\ globals'.cycle = globals.cycle /\ db' = db
    BY <1>10 DEF DataHistoryCurve, HistoryShaped, GlobalsTyped
  <2>. QED BY <2>1, <2>2 DEF CountKept
<1>. QED BY <1>1, <1>2, <1>3, <1>4, <1>5, <1>6, <1>7, <1>8, <1>9, <1>10, <1>11 DEF DataTask

\* The property of the run `records': whatever the interrupt, the four tasks
\* and the HMI do in between, a count that the database does not hold has a
\* message on its way that will store it, or was refused or lost.
THEOREM CountStaysPersisted == Spec => []CountPersisted
<1>. DEFINE IInv == HistoryShaped /\ Alike /\ CountPersisted
<1>1. Init => IInv
  <2>1. ASSUME Init PROVE Alike
    BY <2>1, StartsAllowed DEF Init, Alike
  <2>2. ASSUME Init PROVE HistoryShaped /\ CountPersisted
    BY <2>2 DEF Init, HistoryShaped, CountPersisted
  <2>. QED BY <2>1, <2>2
<1>2. ASSUME Typed, IInv, [Next]_vars
      PROVE  IInv'
  <2>1. HistoryShaped' /\ Alike'
    BY <1>2, StepShaped, AlikeStep
  <2>2. CountKept \/ CountNoted \/ CountStored
    <3>1. Restart => CountNoted
      BY <1>2 DEF Restart, CountNoted, HistoryShaped
    <3>. QED BY <1>2, <3>1, WeldingCounts, HmiCounts, ExtAnswerCounts, UICounts, DataCounts
             DEF Next
  <2>3. CountPersisted'
    BY <1>2, <2>2 DEF CountPersisted, CountKept, CountNoted, CountStored
  <2>. QED BY <2>1, <2>3
<1>. QED BY <1>1, <1>2, AlwaysTyped, PTL DEF Spec
=============================================================================
