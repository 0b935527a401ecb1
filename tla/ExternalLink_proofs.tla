------------------------- MODULE ExternalLink_proofs -------------------------
(***************************************************************************)
(* Proof about the link of the external Ethernet port, for all servers and *)
(* machines: no link outlives the configuration it was made for.           *)
(***************************************************************************)
EXTENDS ExternalLink, TLAPS

Steps == {"LINK_CONFIG", "LINK_TCPIP", "LINK_DONE", "LINK_ERROR"}
ManagerPlaces == {"idle", "close", "closing", "refresh", "bring"}

LinkTyped ==
  /\ ethernet \in Ethernets /\ prevEthernet \in Ethernets
  /\ ptrCom \in ConnectingTypes \cup {"none"}
  /\ linkStep \in [ConnectingTypes -> Steps]
  /\ socket \in [ConnectingTypes -> Ethernets]
  /\ linkEvents \subseteq {"EXTERNAL_LINK_EVENT", "EXTERNAL_READ_EVENT", "EXTERNAL_CLOSE_EVENT"}
  /\ socketTask \in {"idle", "establish", "close", "relink", "lost"}
  /\ socketType \in ConnectingTypes
  /\ manager \in ManagerPlaces
  /\ unseen \in BOOLEAN /\ missed \in BOOLEAN /\ crossed \in BOOLEAN

\* Nothing is to be done for any object, and none has a socket.
AllClosed ==
  /\ socketTask = "idle" /\ linkEvents = {}
  /\ \A t \in ConnectingTypes : linkStep[t] = "LINK_CONFIG"

\* A link in LINK_CONFIG has no socket, and only the object m_ptrCom points
\* to has one: that of the previous configuration, unless all is closed.
OneObject ==
  /\ \A t \in ConnectingTypes : linkStep[t] = "LINK_CONFIG" => socket[t] = NoEthernet
  /\ \A t \in ConnectingTypes : t # ptrCom => linkStep[t] = "LINK_CONFIG"
  /\ socketTask # "idle" => socketType = ptrCom /\ linkStep[socketType] # "LINK_CONFIG"
  /\ ptrCom = ObjectOf(prevEthernet) \/ (AllClosed /\ manager \in {"idle", "refresh"})
  /\ manager \notin {"idle", "refresh"} => ptrCom # "none"
  /\ linkEvents # {} => ptrCom # "none"

\* A close is on its way, and what is pending before it is void.
CloseDue == \/ manager = "close"
            \/ "EXTERNAL_CLOSE_EVENT" \in linkEvents
            \/ socketTask = "close"

\* Once told to close, the socket task closes, is closing or has closed.
Closing ==
  \/ "EXTERNAL_CLOSE_EVENT" \in linkEvents
  \/ linkEvents = {} /\ (socketTask = "close" \/ AllClosed)

\* A change the manager has seen makes it close, and not bring the link on.
SeenIsClosed ==
  /\ manager = "closing" => Closing
  /\ prevEthernet # ethernet /\ ~unseen => manager = "close" \/ Closing
  /\ prevEthernet # ethernet /\ manager \in {"refresh", "bring"} => unseen

\* The object has a peer, or waits for it.
Made == \E t \in ConnectingTypes :
           t = ptrCom /\ (linkStep[t] = "LINK_DONE" \/ socketTask = "establish")

\* A link not to be closed serves the configuration of the manager's last look,
\* or one it has not yet seen.
LinkUpToDate ==
  ~missed /\ ~CloseDue /\ Made =>
    \/ socket[ptrCom] = prevEthernet
    \/ unseen /\ socket[ptrCom] = ethernet /\ prevEthernet # ethernet

\* All of this as long as no change has crossed the choice of the object.
Uncrossed == OneObject /\ SeenIsClosed /\ LinkUpToDate
LinkInv == LinkTyped /\ (~crossed => Uncrossed)

-----------------------------------------------------------------------------

\* A link without a socket serves a configuration too: none.
LEMMA NoEthernetIsOne == NoEthernet \in Ethernets
BY DEF NoEthernet, Ethernets

\* Whatever the object is, its step may become any.
LEMMA StepTyped ==
  ASSUME LinkTyped, NEW t \in ConnectingTypes, NEW step \in Steps
  PROVE  /\ [linkStep EXCEPT ![t] = step] \in [ConnectingTypes -> Steps]
         /\ [linkStep EXCEPT ![t] = step][t] = step
         /\ \A u \in ConnectingTypes \ {t} : [linkStep EXCEPT ![t] = step][u] = linkStep[u]
BY DEF LinkTyped

\* ... and its socket may serve any configuration.
LEMMA SocketTyped ==
  ASSUME LinkTyped, NEW t \in ConnectingTypes, NEW e \in Ethernets
  PROVE  /\ [socket EXCEPT ![t] = e] \in [ConnectingTypes -> Ethernets]
         /\ [socket EXCEPT ![t] = e][t] = e
         /\ \A u \in ConnectingTypes \ {t} : [socket EXCEPT ![t] = e][u] = socket[u]
BY DEF LinkTyped

\* A type that is not INVALID_TYPE has an object.
LEMMA ObjectTyped ==
  ASSUME NEW e \in Ethernets
  PROVE  /\ "none" \notin ConnectingTypes
         /\ e.type \in ConnectingTypes \cup {"INVALID_TYPE"}
         /\ ObjectOf(e) \in ConnectingTypes \cup {"none"}
         /\ e.type # "INVALID_TYPE" => ObjectOf(e) = e.type /\ e.type \in ConnectingTypes
BY DEF Ethernets, ConnectingTypes, ObjectOf

\* An event, a wait and an order of the manager are for an object.
LEMMA SomeObject ==
  ASSUME LinkTyped, OneObject,
         linkEvents # {} \/ socketTask # "idle" \/ manager \in {"close", "closing", "bring"}
  PROVE  ptrCom \in ConnectingTypes
BY DEF LinkTyped, OneObject

LEMMA LinkTypedStep == LinkTyped /\ [LinkNext]_linkVars => LinkTyped'
<1>. SUFFICES ASSUME LinkTyped, [LinkNext]_linkVars PROVE LinkTyped'
  OBVIOUS
<1>. USE ObjectTyped, NoEthernetIsOne DEF LinkTyped, Steps, ManagerPlaces
<1>1. CASE SetEthernetConfig
  BY <1>1 DEF SetEthernetConfig
<1>2. CASE LookForUpdate
  BY <1>2 DEF LookForUpdate, RequireUpdate
<1>3. CASE RefreshExternalEthobj
  BY <1>3 DEF RefreshExternalEthobj
<1>4. CASE CloseSocketEvent \/ UpdateClosed \/ BringOn
  BY <1>4 DEF CloseSocketEvent, UpdateClosed, TakeConfig, BringOn
<1>5. CASE TakesEvents /\ SocketStep
  <2>1. ptrCom \in ConnectingTypes
    BY <1>5 DEF TakesEvents
  <2>2. CASE CloseEvent
    BY <1>5, <2>1, <2>2, StepTyped DEF CloseEvent, TakesEvents, UnchangedForSocketTask
  <2>3. CASE LinkConfig
    BY <1>5, <2>1, <2>3, StepTyped
    DEF LinkConfig, LinkConfigured, TakesEvents, UnchangedForSocketTask
  <2>4. CASE Establish
    BY <1>5, <2>1, <2>4, StepTyped, SocketTyped
    DEF Establish, TakesEvents, UnchangedForSocketTask
  <2>5. CASE LinkError
    BY <1>5, <2>1, <2>5 DEF LinkError, TakesEvents, UnchangedForSocketTask
  <2>6. CASE Receive
    BY <1>5, <2>1, <2>6, StepTyped DEF Receive, TakesEvents, UnchangedForSocketTask
  <2>. QED
    BY <1>5, <2>2, <2>3, <2>4, <2>5, <2>6
    DEF SocketStep, TakesEvents, NullCall, CloseDone, LinkErrorDone, Established
<1>6. CASE NullCall
  BY <1>6 DEF NullCall, UnchangedForSocketTask
<1>7. CASE CloseDone
  BY <1>7, StepTyped, SocketTyped DEF CloseDone, UnchangedForSocketTask
<1>10. CASE LinkErrorDone
  BY <1>10, StepTyped, SocketTyped DEF LinkErrorDone, Relinked, UnchangedForSocketTask
<1>8. CASE \E step \in {"LINK_DONE", "LINK_ERROR"} : Established(step)
  BY <1>8, StepTyped DEF Established, UnchangedForSocketTask
<1>9. CASE UNCHANGED linkVars
  BY <1>9 DEF linkVars
<1>. QED
  BY <1>1, <1>2, <1>3, <1>4, <1>5, <1>6, <1>7, <1>8, <1>9, <1>10
  DEF LinkNext, ManagerStep, SocketStep, CloseEvent, LinkConfig, Establish, LinkError, Receive

\* No link of an earlier configuration outlives the change, of whichever type,
\* however long the socket task was waiting and whatever events it finds then.
THEOREM LinkCorrect == LinkSpec => []LinkServesConfig
<1>1. LinkInit => LinkInv
  BY NoEthernetIsOne
  DEF LinkInit, LinkInv, LinkTyped, Uncrossed, OneObject, SeenIsClosed, LinkUpToDate, Made,
      AllClosed, ObjectOf, Steps, ManagerPlaces, ConnectingTypes
<1>2. LinkInv /\ [LinkNext]_linkVars => LinkInv'
  <2>. SUFFICES ASSUME LinkTyped, LinkTyped', ~crossed => Uncrossed, [LinkNext]_linkVars,
                       ~crossed'
                PROVE  Uncrossed'
    BY LinkTypedStep DEF LinkInv
  <2>6. ~crossed
    BY DEF LinkNext, ManagerStep, SocketStep, SetEthernetConfig, LookForUpdate,
           RefreshExternalEthobj, CloseSocketEvent, UpdateClosed, BringOn, NullCall, CloseEvent,
           CloseDone, LinkConfig, Establish, LinkError, LinkErrorDone, Receive, Established,
           UnchangedForSocketTask, linkVars
  <2>7. OneObject /\ SeenIsClosed /\ LinkUpToDate
    BY <2>6 DEF Uncrossed
  <2>. USE <2>7, ObjectTyped, NoEthernetIsOne DEF LinkTyped, Steps, ManagerPlaces
  <2>8. CASE SetEthernetConfig
    <3>. USE <2>8 DEF SetEthernetConfig
    <3>1. OneObject'
      BY DEF OneObject, AllClosed
    <3>2. SeenIsClosed'
      BY DEF OneObject, SeenIsClosed, Closing, AllClosed
    <3>3. LinkUpToDate'
      BY DEF OneObject, SeenIsClosed, LinkUpToDate, Made, CloseDue, Closing, AllClosed
    <3>. QED  BY <3>1, <3>2, <3>3 DEF Uncrossed
  <2>9. CASE LookForUpdate
    <3>. USE <2>9 DEF LookForUpdate
    <3>1. CASE RequireUpdate
      <4>1. /\ ptrCom' = prevEthernet.type /\ manager' = "close" /\ ~unseen'
            /\ prevEthernet' = prevEthernet /\ missed' = missed
        BY <3>1
      <4>2. ptrCom' = ObjectOf(prevEthernet) /\ ptrCom' \in ConnectingTypes
        BY <3>1, <4>1 DEF RequireUpdate
      <4>3. ptrCom = ptrCom' \/ AllClosed
        BY <4>2 DEF OneObject
      <4>4. OneObject'
        <5>1. CASE AllClosed
          BY <4>1, <4>2, <5>1 DEF OneObject, AllClosed
        <5>2. CASE ptrCom = ptrCom'
          BY <4>1, <4>2, <5>2 DEF OneObject
        <5>. QED  BY <4>3, <5>1, <5>2
      <4>5. SeenIsClosed' /\ LinkUpToDate'
        BY <4>1 DEF SeenIsClosed, LinkUpToDate, CloseDue
      <4>. QED  BY <4>4, <4>5 DEF Uncrossed
    <3>2. CASE ~RequireUpdate
      <4>1. /\ ptrCom' = ptrCom /\ prevEthernet' = ethernet /\ manager' = "refresh"
            /\ missed' = (missed /\ prevEthernet = ethernet)
        BY <3>2
      <4>2. prevEthernet = ethernet \/ AllClosed
        <5>1. CASE prevEthernet.type = "INVALID_TYPE"
          <6>1. ObjectOf(prevEthernet) = "none"
            BY <5>1 DEF ObjectOf, ConnectingTypes
          <6>. QED  BY <6>1 DEF OneObject, AllClosed
        <5>. QED  BY <3>2, <5>1 DEF RequireUpdate
      <4>3. OneObject'
        BY <4>1, <4>2 DEF OneObject, AllClosed
      <4>4. SeenIsClosed'
        BY <4>1 DEF SeenIsClosed
      <4>5. LinkUpToDate'
        <5>1. CASE AllClosed
          BY <5>1 DEF LinkUpToDate, Made, AllClosed
        <5>2. CASE prevEthernet = ethernet
          BY <4>1, <5>2 DEF LinkUpToDate, Made, CloseDue
        <5>. QED  BY <4>2, <5>1, <5>2
      <4>. QED  BY <4>3, <4>4, <4>5 DEF Uncrossed
    <3>. QED  BY <3>1, <3>2
  <2>10. CASE RefreshExternalEthobj
    <3>. USE <2>10 DEF RefreshExternalEthobj
    <3>1. ethernet.type = prevEthernet.type
      OBVIOUS
    <3>2. ptrCom' = ObjectOf(prevEthernet)
      BY <3>1 DEF ObjectOf
    <3>3. ptrCom = ptrCom' \/ AllClosed
      BY <3>2 DEF OneObject
    <3>4. manager' # "idle" => manager' = "bring" /\ ptrCom' # "none"
      BY DEF ObjectOf
    <3>5. OneObject'
      <4>1. CASE AllClosed
        BY <3>2, <3>4, <4>1 DEF OneObject, AllClosed
      <4>2. CASE ptrCom = ptrCom'
        BY <3>2, <3>4, <4>2 DEF OneObject
      <4>. QED  BY <3>3, <4>1, <4>2
    <3>6. SeenIsClosed'
      BY <3>4 DEF SeenIsClosed, Closing, AllClosed
    <3>7. LinkUpToDate'
      <4>1. CASE AllClosed
        BY <4>1 DEF LinkUpToDate, Made, AllClosed
      <4>2. CASE ptrCom = ptrCom'
        BY <4>2 DEF LinkUpToDate, Made, CloseDue
      <4>. QED  BY <3>3, <4>1, <4>2
    <3>. QED  BY <3>5, <3>6, <3>7 DEF Uncrossed
  <2>11. CASE CloseSocketEvent
    <3>. USE <2>11 DEF CloseSocketEvent
    <3>1. ptrCom \in ConnectingTypes
      BY SomeObject
    <3>2. OneObject'
      BY <3>1 DEF OneObject, AllClosed
    <3>3. SeenIsClosed'
      BY <3>1 DEF OneObject, SeenIsClosed, Closing, AllClosed
    <3>4. LinkUpToDate'
      BY <3>1
      DEF OneObject, SeenIsClosed, LinkUpToDate, Made, CloseDue, Closing, AllClosed
    <3>. QED  BY <3>2, <3>3, <3>4 DEF Uncrossed
  <2>12. CASE UpdateClosed
    <3>. USE <2>12 DEF UpdateClosed, ManagerRuns, TakeConfig
    <3>1. ptrCom \in ConnectingTypes
      BY SomeObject
    <3>2. OneObject'
      BY <3>1 DEF OneObject, AllClosed
    <3>3. SeenIsClosed'
      BY <3>1 DEF OneObject, SeenIsClosed, Closing, AllClosed
    <3>4. LinkUpToDate'
      BY <3>1
      DEF OneObject, SeenIsClosed, LinkUpToDate, Made, CloseDue, Closing, AllClosed
    <3>. QED  BY <3>2, <3>3, <3>4 DEF Uncrossed
  <2>13. CASE BringOn
    <3>. USE <2>13 DEF BringOn
    <3>1. ptrCom \in ConnectingTypes
      BY SomeObject
    <3>2. OneObject'
      BY <3>1 DEF OneObject, AllClosed
    <3>3. SeenIsClosed'
      BY <3>1 DEF OneObject, SeenIsClosed, Closing, AllClosed
    <3>4. LinkUpToDate'
      BY <3>1
      DEF OneObject, SeenIsClosed, LinkUpToDate, Made, CloseDue, Closing, AllClosed
    <3>. QED  BY <3>2, <3>3, <3>4 DEF Uncrossed
  <2>14. CASE CloseEvent
    <3>. USE <2>14 DEF CloseEvent, TakesEvents, HasEvent, UnchangedForSocketTask
    <3>1. ptrCom \in ConnectingTypes
      BY SomeObject
    <3>2. socketTask' = "close" \/ AllClosed'
      BY <3>1, StepTyped DEF OneObject, AllClosed
    <3>3. Closing'
      BY <3>2 DEF Closing
    <3>4. OneObject'
      BY <3>1, StepTyped DEF OneObject, AllClosed
    <3>5. SeenIsClosed'
      BY <3>3 DEF SeenIsClosed
    <3>6. LinkUpToDate'
      BY <3>1, StepTyped
      DEF OneObject, SeenIsClosed, LinkUpToDate, Made, CloseDue, Closing, AllClosed
    <3>. QED  BY <3>4, <3>5, <3>6 DEF Uncrossed
  <2>15. CASE CloseDone
    <3>. USE <2>15 DEF CloseDone, UnchangedForSocketTask
    <3>1. ptrCom \in ConnectingTypes
      BY SomeObject
    <3>2. OneObject'
      BY <3>1, StepTyped, SocketTyped DEF OneObject, AllClosed
    <3>3. SeenIsClosed'
      BY <3>1, StepTyped, SocketTyped DEF OneObject, SeenIsClosed, Closing, AllClosed
    <3>4. LinkUpToDate'
      BY <3>1, StepTyped, SocketTyped
      DEF OneObject, SeenIsClosed, LinkUpToDate, Made, CloseDue, Closing, AllClosed
    <3>. QED  BY <3>2, <3>3, <3>4 DEF Uncrossed
  <2>16. CASE LinkConfig
    <3>. USE <2>16 DEF LinkConfig, LinkConfigured, TakesEvents, LinkEvent, HasEvent, UnchangedForSocketTask
    <3>1. ptrCom \in ConnectingTypes
      BY SomeObject
    <3>2. OneObject'
      BY <3>1, StepTyped DEF OneObject, AllClosed
    <3>3. SeenIsClosed'
      BY <3>1, StepTyped DEF OneObject, SeenIsClosed, Closing, AllClosed
    <3>4. LinkUpToDate'
      BY <3>1, StepTyped
      DEF OneObject, SeenIsClosed, LinkUpToDate, Made, CloseDue, Closing, AllClosed
    <3>. QED  BY <3>2, <3>3, <3>4 DEF Uncrossed
  <2>17. CASE Establish
    <3>. USE <2>17 DEF Establish, TakesEvents, LinkEvent, HasEvent, UnchangedForSocketTask
    <3>1. ptrCom \in ConnectingTypes
      BY SomeObject
    <3>2. OneObject'
      BY <3>1, StepTyped, SocketTyped DEF OneObject, AllClosed
    <3>3. SeenIsClosed'
      BY <3>1, StepTyped, SocketTyped DEF OneObject, SeenIsClosed, Closing, AllClosed
    <3>4. LinkUpToDate'
      BY <3>1, StepTyped, SocketTyped
      DEF OneObject, SeenIsClosed, LinkUpToDate, Made, CloseDue, Closing, AllClosed
    <3>. QED  BY <3>2, <3>3, <3>4 DEF Uncrossed
  <2>18. CASE LinkError
    <3>. USE <2>18 DEF LinkError, TakesEvents, LinkEvent, HasEvent, UnchangedForSocketTask
    <3>1. ptrCom \in ConnectingTypes
      BY SomeObject
    <3>2. OneObject'
      BY <3>1 DEF OneObject, AllClosed
    <3>3. SeenIsClosed'
      BY <3>1 DEF OneObject, SeenIsClosed, Closing, AllClosed
    <3>4. LinkUpToDate'
      BY <3>1
      DEF OneObject, SeenIsClosed, LinkUpToDate, Made, CloseDue, Closing, AllClosed
    <3>. QED  BY <3>2, <3>3, <3>4 DEF Uncrossed
  <2>19. CASE LinkErrorDone
    <3>. USE <2>19 DEF LinkErrorDone, UnchangedForSocketTask, Relinked
    <3>1. ptrCom \in ConnectingTypes
      BY SomeObject
    <3>2. OneObject'
      BY <3>1, StepTyped, SocketTyped DEF OneObject, AllClosed
    <3>3. SeenIsClosed'
      BY <3>1, StepTyped, SocketTyped DEF OneObject, SeenIsClosed, Closing, AllClosed
    <3>4. LinkUpToDate'
      BY <3>1, StepTyped, SocketTyped
      DEF OneObject, SeenIsClosed, LinkUpToDate, Made, CloseDue, Closing, AllClosed
    <3>. QED  BY <3>2, <3>3, <3>4 DEF Uncrossed
  <2>20. CASE Receive
    <3>. USE <2>20 DEF Receive, TakesEvents, LinkEvent, HasEvent, UnchangedForSocketTask
    <3>1. ptrCom \in ConnectingTypes
      BY SomeObject
    <3>2. OneObject'
      BY <3>1, StepTyped DEF OneObject, AllClosed
    <3>3. SeenIsClosed'
      BY <3>1, StepTyped DEF OneObject, SeenIsClosed, Closing, AllClosed
    <3>4. LinkUpToDate'
      BY <3>1, StepTyped
      DEF OneObject, SeenIsClosed, LinkUpToDate, Made, CloseDue, Closing, AllClosed
    <3>. QED  BY <3>2, <3>3, <3>4 DEF Uncrossed
  <2>21. CASE \E step \in {"LINK_DONE", "LINK_ERROR"} : Established(step)
    <3>. USE <2>21 DEF Established, UnchangedForSocketTask
    <3>1. ptrCom \in ConnectingTypes
      BY SomeObject
    <3>2. OneObject'
      BY <3>1, StepTyped DEF OneObject, AllClosed
    <3>3. SeenIsClosed'
      BY <3>1, StepTyped DEF OneObject, SeenIsClosed, Closing, AllClosed
    <3>4. LinkUpToDate'
      BY <3>1, StepTyped
      DEF OneObject, SeenIsClosed, LinkUpToDate, Made, CloseDue, Closing, AllClosed
    <3>. QED  BY <3>2, <3>3, <3>4 DEF Uncrossed
  <2>22. CASE UNCHANGED linkVars
    <3>. USE <2>22 DEF linkVars
    <3>1. OneObject'
      BY DEF OneObject, AllClosed
    <3>2. SeenIsClosed'
      BY DEF SeenIsClosed, Closing, AllClosed
    <3>3. LinkUpToDate'
      BY DEF LinkUpToDate, Made, CloseDue
    <3>. QED  BY <3>1, <3>2, <3>3 DEF Uncrossed
  <2>23. CASE NullCall
    BY <2>23 DEF NullCall, OneObject
  <2>. QED
    BY <2>8, <2>9, <2>11, <2>12, <2>13, <2>14, <2>15,
       <2>16, <2>17, <2>18, <2>19, <2>20, <2>21, <2>22, <2>10, <2>23
    DEF LinkNext, ManagerStep, SocketStep
<1>3. LinkInv => LinkServesConfig
  <2>. SUFFICES ASSUME LinkInv, Settled, ~missed, ~crossed, NEW t \in ConnectingTypes,
                       linkStep[t] = "LINK_DONE"
                PROVE  t = ethernet.type /\ Linked
    BY DEF LinkServesConfig
  <2>1. t = ptrCom /\ ptrCom = ethernet.type
    BY DEF LinkInv, Uncrossed, OneObject, AllClosed, Settled, ObjectOf, ConnectingTypes
  <2>2. socket[t] = ethernet
    BY <2>1 DEF LinkInv, Uncrossed, LinkUpToDate, Made, CloseDue, Settled
  <2>. QED  BY <2>1, <2>2 DEF Linked
<1>. QED  BY <1>1, <1>2, <1>3, PTL DEF LinkSpec
=============================================================================
