----------------------------- MODULE ExternalLink -----------------------------
(***************************************************************************)
(* The link of the external Ethernet port.  The external manager, the task *)
(* of the lowest priority, looks every 500 ms at the configuration and at  *)
(* the step of the link and tells the socket task with an event bit what   *)
(* to do.  The socket task runs as soon as it is told, except while it     *)
(* waits in a select.  The UI task overwrites the configuration at any     *)
(* time.                                                                   *)
(*                                                                         *)
(* A configuration is a type and, for the types that connect, what a       *)
(* change of it calls for a new socket: the address and port of the own    *)
(* server (TCP_IP), or the machine to be (GATEWAY).                        *)
(***************************************************************************)
EXTENDS Naturals

CONSTANTS
  Servers,   \* addresses with ports for TCP_IP
  Machines,  \* DIG machine IDs for GATEWAY
  AddressOf  \* the address that cpsw0 is to have for each of them

Ethernets == [type : {"INVALID_TYPE"}, peer : {"none"}]
             \cup [type : {"TCP_IP"}, peer : Servers]
             \cup [type : {"GATEWAY"}, peer : Machines]

ConnectingTypes == {"TCP_IP", "GATEWAY"}
NoEthernet == [type |-> "INVALID_TYPE", peer |-> "none"]
Addresses == {AddressOf[p] : p \in Servers \cup Machines}

\* The type whose object serves a configuration.
ObjectOf(e) == IF e.type \in ConnectingTypes THEN e.type ELSE "none"

VARIABLES
  ethernet,      \* Connectivity::EthernetConfig
  prevEthernet,  \* m_PrevEthernetConfig
  ptrCom,        \* m_ptrCom: the type whose object it points to, or "none"
  linkStep,      \* m_nStep of the object of each type
  socket,        \* the configuration the open socket of each type was made for
  interface,     \* the address of cpsw0
  linkEvents,    \* the event bits of the socket task
  socketTask,    \* what the socket task waits in: "idle", "establish", "close", "relink";
                 \* or "lost"
  socketType,    \* ... and for which object
  manager,       \* where the manager is within Update
  unseen,        \* history: the configuration has changed since the last look
  missed,        \* history: it changed twice between two looks since the manager
                 \* last took it over
  crossed        \* history: it changed to another type between a look and the choice
                 \* of the object

linkVars == <<ethernet, prevEthernet, ptrCom, linkStep, socket, interface, linkEvents,
              socketTask, socketType, manager, unseen, missed, crossed>>

LinkInit ==
  /\ ethernet \in Ethernets
  /\ prevEthernet = ethernet
  /\ ptrCom = ObjectOf(ethernet)
  /\ linkStep = [t \in ConnectingTypes |-> "LINK_CONFIG"]
  /\ socket = [t \in ConnectingTypes |-> NoEthernet]
  /\ interface = "none"
  /\ linkEvents = {}
  /\ socketTask = "idle"
  /\ socketType = "TCP_IP"
  /\ manager = "idle"
  /\ unseen = FALSE
  /\ missed = FALSE
  /\ crossed = FALSE

-----------------------------------------------------------------------------
(* The UI task: setEthernetConfigData.                                     *)

SetEthernetConfig ==
  /\ \E e \in Ethernets \ {ethernet} : ethernet' = e
  /\ unseen' = TRUE
  /\ missed' = (missed \/ unseen)
  /\ UNCHANGED <<prevEthernet, ptrCom, linkStep, socket, interface, linkEvents, socketTask,
                 socketType, manager, crossed>>

-----------------------------------------------------------------------------
(* The manager.                                                            *)

\* The manager runs only while the socket task has nothing to do or waits.
ManagerRuns == socketTask # "idle" \/ linkEvents = {}

\* Slip: another server or machine of the same type makes no difference.
RequireUpdateSlip ==
  prevEthernet.type # ethernet.type /\ prevEthernet.type # "INVALID_TYPE"

\* requireUpdateSocket: the link serves another configuration.
RequireUpdate == prevEthernet # ethernet /\ prevEthernet.type # "INVALID_TYPE"

\* Update, its look: the object that is to be closed, or nothing to close.
LookForUpdate ==
  /\ manager = "idle" /\ ManagerRuns
  /\ unseen' = FALSE
  /\ \/ /\ RequireUpdate
        /\ ptrCom' = prevEthernet.type
        /\ manager' = "close"
        /\ UNCHANGED <<prevEthernet, missed>>
     \/ /\ ~RequireUpdate
        /\ prevEthernet' = ethernet
        /\ missed' = (missed /\ prevEthernet = ethernet)
        /\ manager' = "refresh"
        /\ UNCHANGED ptrCom
  /\ UNCHANGED <<ethernet, linkStep, socket, interface, linkEvents, socketTask, socketType,
                 crossed>>

\* refreshExternalEthobj: the object that is to be brought on, which is that of the
\* configuration by now.
RefreshExternalEthobj ==
  /\ manager = "refresh" /\ ManagerRuns
  /\ ptrCom' = ObjectOf(ethernet)
  /\ manager' = IF ethernet.type \in ConnectingTypes THEN "bring" ELSE "idle"
  /\ crossed' = (crossed \/ ethernet.type # prevEthernet.type)
  /\ UNCHANGED <<ethernet, prevEthernet, linkStep, socket, interface, linkEvents, socketTask,
                 socketType, unseen, missed>>

\* closeSocketEvent
CloseSocketEvent ==
  /\ manager = "close" /\ ManagerRuns
  /\ linkEvents' = linkEvents \cup {"EXTERNAL_CLOSE_EVENT"}
  /\ manager' = "closing"
  /\ UNCHANGED <<ethernet, prevEthernet, ptrCom, linkStep, socket, interface, socketTask,
                 socketType, unseen, missed, crossed>>

\* The configuration is taken over once the link is closed.
TakeConfig ==
  IF linkStep[ptrCom] = "LINK_CONFIG"
  THEN prevEthernet' = ethernet /\ missed' = FALSE
  ELSE UNCHANGED <<prevEthernet, missed>>

\* Update, after closeSocketEvent.
UpdateClosed ==
  /\ manager = "closing" /\ ManagerRuns
  /\ TakeConfig
  /\ manager' = "idle"
  /\ UNCHANGED <<ethernet, ptrCom, linkStep, socket, interface, linkEvents, socketTask,
                 socketType, unseen, crossed>>

\* linkSocketEvent, readSocketEvent
BringOn ==
  /\ manager = "bring" /\ ManagerRuns
  /\ linkEvents' = linkEvents \cup {IF linkStep[ptrCom] = "LINK_DONE"
                                    THEN "EXTERNAL_READ_EVENT" ELSE "EXTERNAL_LINK_EVENT"}
  /\ manager' = "idle"
  /\ UNCHANGED <<ethernet, prevEthernet, ptrCom, linkStep, socket, interface, socketTask,
                 socketType, unseen, missed, crossed>>

ManagerStep == LookForUpdate \/ RefreshExternalEthobj \/ CloseSocketEvent \/ UpdateClosed \/ BringOn

-----------------------------------------------------------------------------
(* The socket task.  An event taken with a more urgent one is dropped.     *)

UnchangedForSocketTask == 
  UNCHANGED <<ethernet, prevEthernet, ptrCom, manager, unseen, missed, crossed>>

TakesEvents == socketTask = "idle" /\ linkEvents' = {} /\ ptrCom # "none"
HasEvent(e) == e \in linkEvents

LinkEvent == HasEvent("EXTERNAL_LINK_EVENT") /\ ~HasEvent("EXTERNAL_CLOSE_EVENT")

\* Close: at once, or after a select of a second if a socket is open.
CloseEvent ==
  /\ TakesEvents /\ HasEvent("EXTERNAL_CLOSE_EVENT")
  /\ socketType' = ptrCom
  /\ \/ /\ socket[ptrCom] = NoEthernet
        /\ linkStep' = [linkStep EXCEPT ![ptrCom] = "LINK_CONFIG"]
        /\ UNCHANGED socketTask
     \/ /\ socket[ptrCom] # NoEthernet
        /\ socketTask' = "close"
        /\ UNCHANGED linkStep
  /\ UNCHANGED <<socket, interface>>
  /\ UnchangedForSocketTask

CloseDone ==
  /\ socketTask = "close"
  /\ socket' = [socket EXCEPT ![socketType] = NoEthernet]
  /\ linkStep' = [linkStep EXCEPT ![socketType] = "LINK_CONFIG"]
  /\ socketTask' = "idle"
  /\ UNCHANGED <<interface, linkEvents, socketType>>
  /\ UnchangedForSocketTask

\* The address an object reads in the configuration; what the field of another
\* type says does not matter to that type.
AddressesFor(t) == IF ethernet.type = t THEN {AddressOf[ethernet.peer]} ELSE Addresses

\* ErrorHandling in LINK_CONFIG: linkConfig sets the address of cpsw0, unless it has
\* it.  GATEWAY compares with an address that nobody has set: it may set what cpsw0
\* has, or leave what it has not.
LinkConfigured == linkStep' = [linkStep EXCEPT ![ptrCom] = "LINK_TCPIP"]

LinkConfig ==
  /\ TakesEvents /\ LinkEvent /\ linkStep[ptrCom] = "LINK_CONFIG"
  /\ \E address \in AddressesFor(ptrCom) :
       \/ interface' = address /\ LinkConfigured
       \/ ptrCom = "GATEWAY" /\ UNCHANGED interface /\ LinkConfigured
       \/ /\ ptrCom = "GATEWAY" \/ interface # address   \* the driver refuses address or mask
          /\ interface' \in {interface, address}
          /\ UNCHANGED linkStep
  /\ UNCHANGED <<socket, socketTask, socketType>>
  /\ UnchangedForSocketTask

\* ... in LINK_TCPIP: establishTCPIPSocket, up to its select.  A server binds
\* only to an address that cpsw0 has.
BindFails(address) == ptrCom = "TCP_IP" /\ interface # address

Establish ==
  /\ TakesEvents /\ LinkEvent /\ linkStep[ptrCom] = "LINK_TCPIP"
  /\ socket' = [socket EXCEPT ![ptrCom] = ethernet]
  /\ socketType' = ptrCom
  /\ \E address \in AddressesFor(ptrCom) :
       \/ /\ BindFails(address)
          /\ linkStep' = [linkStep EXCEPT ![ptrCom] = "LINK_ERROR"]
          /\ UNCHANGED socketTask
       \/ /\ ~BindFails(address)
          /\ socketTask' = "establish"
          /\ UNCHANGED linkStep
  /\ UNCHANGED interface
  /\ UnchangedForSocketTask

\* The peer has come, or has not.
Established(step) ==
  /\ socketTask = "establish"
  /\ linkStep' = [linkStep EXCEPT ![socketType] = step]
  /\ socketTask' = "idle"
  /\ UNCHANGED <<socket, interface, linkEvents, socketType>>
  /\ UnchangedForSocketTask

\* ... in LINK_ERROR: closeConnection, which waits in a select as well.
LinkError ==
  /\ TakesEvents /\ LinkEvent /\ linkStep[ptrCom] = "LINK_ERROR"
  /\ socketTask' = "relink"
  /\ socketType' = ptrCom
  /\ UNCHANGED <<linkStep, socket, interface>>
  /\ UnchangedForSocketTask

\* Slip: a link in error stays in error.
RelinkedSlip == UNCHANGED linkStep

Relinked == linkStep' = [linkStep EXCEPT ![socketType] = "LINK_TCPIP"]

LinkErrorDone ==
  /\ socketTask = "relink"
  /\ socket' = [socket EXCEPT ![socketType] = NoEthernet]
  /\ Relinked
  /\ socketTask' = "idle"
  /\ UNCHANGED <<interface, linkEvents, socketType>>
  /\ UnchangedForSocketTask

\* Receiving, and ErrorHandling in LINK_DONE: nothing, or the peer is gone.
Receive ==
  /\ TakesEvents /\ linkEvents # {} /\ ~HasEvent("EXTERNAL_CLOSE_EVENT")
  /\ IF LinkEvent THEN linkStep[ptrCom] = "LINK_DONE" /\ UNCHANGED linkStep
     ELSE \/ UNCHANGED linkStep
          \/ /\ linkStep[ptrCom] = "LINK_DONE"
             /\ linkStep' = [linkStep EXCEPT ![ptrCom] = "LINK_ERROR"]
  /\ UNCHANGED <<socket, interface, socketTask, socketType>>
  /\ UnchangedForSocketTask

\* m_ptrCom has become null with an event on its way: the task calls it all the same.
NullCall ==
  /\ socketTask = "idle" /\ linkEvents # {} /\ ptrCom = "none"
  /\ socketTask' = "lost"
  /\ linkEvents' = {}
  /\ UNCHANGED <<linkStep, socket, interface, socketType>>
  /\ UnchangedForSocketTask

SocketStep ==
  \/ NullCall \/ CloseEvent \/ CloseDone
  \/ LinkConfig \/ Establish \/ LinkError \/ LinkErrorDone \/ Receive
  \/ \E step \in {"LINK_DONE", "LINK_ERROR"} : Established(step)

-----------------------------------------------------------------------------

LinkNext == SetEthernetConfig \/ ManagerStep \/ SocketStep

LinkSpec == LinkInit /\ [][LinkNext]_linkVars

-----------------------------------------------------------------------------
(* Properties.                                                             *)

\* The manager sees no reason to close, and nothing is being closed.
Settled ==
  /\ prevEthernet = ethernet
  /\ manager \notin {"close", "closing"}
  /\ "EXTERNAL_CLOSE_EVENT" \notin linkEvents
  /\ socketTask # "close"

Linked == /\ ethernet.type \in ConnectingTypes
          /\ linkStep[ethernet.type] = "LINK_DONE"
          /\ socket[ethernet.type] = ethernet

\* No link of an earlier configuration outlives the change, of whichever
\* type, however long the socket task was waiting and whatever events it
\* finds then.  The manager compares values: a change that is taken back
\* between two of its looks escapes it.  And it looks twice: a change of type between
\* the comparison and the choice of the object brings on an object that nothing
\* will close, or takes the object away from an event on its way.
LinkServesConfig ==
  Settled /\ ~missed /\ ~crossed =>
    \A t \in ConnectingTypes : linkStep[t] = "LINK_DONE" => t = ethernet.type /\ Linked

\* A configuration that stays gets its link, and gets it again when it is
\* lost, if the driver takes the address and the peer comes often enough.
LinkComes ==
  <>[][UNCHANGED ethernet]_linkVars =>
    []<>(Linked \/ ethernet.type = "INVALID_TYPE" \/ missed \/ crossed)

\* What LinkComes assumes of the outside.
PeerComes == Established("LINK_DONE")
AddressTaken == LinkConfig /\ LinkConfigured
=============================================================================
