--------------------------- MODULE NetworkUpdate ---------------------------
(***************************************************************************)
(* The client's updates of its network: the update one second after the    *)
(* client was made, the chain of periodic updates, the address book query  *)
(* each of them makes, with its retries, and what the application may do   *)
(* meanwhile: set a network or a period, or close the client.              *)
(*                                                                         *)
(* An update is a timer that becomes a query, a stream of a mirror node    *)
(* that may break and be opened again after a delay.  The network is the   *)
(* set of its nodes; module ManagedNetwork has the rest, among it which    *)
(* nodes are missing in the map, so that closing one throws: here that may *)
(* happen to any node.  The address book of the mirror node is a sequence  *)
(* of nodes that may change at any time.                                   *)
(***************************************************************************)
EXTENDS Naturals, Sequences, FiniteSets

CONSTANTS
    Books,        \* the address books there may be, sequences of nodes
    Networks,     \* arguments of setNetwork()
    MaxAttempts,  \* _maxAttempts of the query
    NoSlot,       \* a timer that was cleared or whose update is over
    Slot          \* bound: as many updates at the same time

Nodes(s) == {s[i] : i \in DOMAIN s}
AllNodes == UNION ({Nodes(b) : b \in Books} \cup Networks)

ASSUME BookAssumption == Books \subseteq Seq(AllNodes) /\ Books # {}
ASSUME UpdateBounds ==
    MaxAttempts \in Nat /\ NoSlot \notin Slot /\ \E i, j \in Slot : i # j

VARIABLES
    network,      \* the nodes of _network
    isShutdown,   \* _isShutdown
    updates,      \* the updates under way, each in a slot
    timer,        \* _timer: the update whose timer close() clears
    book          \* the address book of the mirror node

updateVars == <<network, isShutdown, updates, timer, book>>

Places == {"free", "timer", "query", "delay"}

Update(at, periodic) ==
    [at |-> at, periodic |-> periodic, attempt |-> 0, stream |-> <<>>,
     addresses |-> {}, last |-> <<>>]
Free == Update("free", FALSE)
Waiting(periodic) == Update("timer", periodic)

(* A client made with scheduleNetworkUpdate: _initialNetworkUpdate() and    *)
(* _scheduleNetworkUpdate()                                                *)
UpdateInit ==
    /\ network \in Networks
    /\ isShutdown = FALSE
    /\ LET first == CHOOSE i \in Slot : TRUE
           second == CHOOSE i \in Slot \ {first} : TRUE
       IN /\ updates = [[i \in Slot |-> Free] EXCEPT ![first] = Waiting(FALSE),
                                                     ![second] = Waiting(TRUE)]
          /\ timer = second
    /\ book \in Books

(* The address book is changed. *)
BookChanges(b) == book' = b /\ UNCHANGED <<network, isShutdown, updates, timer>>

(* The application sets a network. *)
SetNetwork(n) == network' = n /\ UNCHANGED <<isShutdown, updates, timer, book>>

Outdated(new) == network \ new

(* setNetwork() throws at a node it cannot close: of the nodes that are not *)
(* in the new network some are closed and gone, that one at least is left,  *)
(* and no node of the new network is added.                                *)
CloseThrows(new) ==
    \E gone \in SUBSET Outdated(new) :
        gone # Outdated(new) /\ network' = network \ gone

SetNetworkThrows(n) ==
    CloseThrows(n) /\ UNCHANGED <<isShutdown, updates, timer, book>>

(* clearTimeout(this._timer), without effect once the timer has fired *)
ClearTimeout ==
    [i \in Slot |-> IF i = timer /\ updates[i].at = "timer" THEN Free ELSE updates[i]]

(* _scheduleNetworkUpdate, after the updates have become "us" *)
ScheduleNetworkUpdate(us) ==
    /\ \E i \in Slot : us[i].at = "free"
    /\ timer' = CHOOSE i \in Slot : us[i].at = "free"
    /\ updates' = [us EXCEPT ![timer'] = Waiting(TRUE)]

SetNetworkUpdatePeriod ==
    /\ ScheduleNetworkUpdate(ClearTimeout)
    /\ UNCHANGED <<network, isShutdown, book>>

Close ==
    /\ network' = {}
    /\ isShutdown' = TRUE
    /\ updates' = ClearTimeout
    /\ timer' = IF timer # NoSlot /\ updates'[timer].at = "free" THEN NoSlot ELSE timer
    /\ UNCHANGED book
------------------------------------------------------------------------------
(* _makeServerStreamRequest of the query: the mirror node will send the     *)
(* address book of this moment.                                            *)
MakeServerStreamRequest(i) ==
    updates' = [updates EXCEPT ![i].at = "query", ![i].stream = book, ![i].last = book]

(* The timer of an update fires. *)
TimerFires(i) ==
    /\ updates[i].at = "timer"
    /\ MakeServerStreamRequest(i)
    /\ UNCHANGED <<network, isShutdown, timer, book>>

(* The delay before a retry is over; the client may be closed by now. *)
DelayOver(i) ==
    /\ updates[i].at = "delay"
    /\ MakeServerStreamRequest(i)
    /\ UNCHANGED <<network, isShutdown, timer, book>>

(* The stream brings one address; those of broken streams are kept. *)
Data(i) ==
    /\ updates[i].at = "query" /\ updates[i].stream # <<>>
    /\ updates' = [updates EXCEPT ![i].addresses = @ \cup {Head(updates[i].stream)},
                                  ![i].stream = Tail(@)]
    /\ UNCHANGED <<network, isShutdown, timer, book>>

MayRetry(i) == updates[i].attempt < MaxAttempts /\ ~ isShutdown

(* The stream breaks with a status that is retried. *)
FailsAndRetries(i) ==
    /\ updates[i].at = "query" /\ MayRetry(i)
    /\ updates' = [updates EXCEPT ![i].at = "delay", ![i].attempt = @ + 1,
                                  ![i].stream = <<>>, ![i].last = <<>>]
    /\ UNCHANGED <<network, isShutdown, timer, book>>

Forget(i) == timer' = IF timer = i THEN NoSlot ELSE timer

(* The query rejects: the error is logged, and a periodic update is not     *)
(* scheduled again.                                                        *)
UpdateFails(i) ==
    /\ updates[i].at = "query"
    /\ updates' = [updates EXCEPT ![i] = Free]
    /\ Forget(i)
    /\ UNCHANGED <<network, isShutdown, book>>

(* Mutant: a stream that breaks counts as one that ends. *)
AllReceived_Any(i) == updates[i].at = "query"

AllReceived(i) == updates[i].at = "query" /\ updates[i].stream = <<>>

(* Mutant: the shutdown is not looked at. *)
GoesOn_Closed(i) == updates[i].periodic

GoesOn(i) == updates[i].periodic /\ ~ isShutdown

(* The stream ends: setNetworkFromAddressBook(), and the next update of the *)
(* chain unless the client was closed.                                     *)
UpdateEnds(i) ==
    /\ AllReceived(i)
    /\ network' = updates[i].addresses
    /\ LET us == [updates EXCEPT ![i] = Free]
       IN IF GoesOn(i)
          THEN ScheduleNetworkUpdate(us)
          ELSE updates' = us /\ Forget(i)
    /\ UNCHANGED <<isShutdown, book>>

(* The stream ends, but setNetwork() throws, which the update handles like  *)
(* a query that rejects.                                                   *)
UpdateThrows(i) ==
    /\ AllReceived(i)
    /\ CloseThrows(updates[i].addresses)
    /\ updates' = [updates EXCEPT ![i] = Free]
    /\ Forget(i)
    /\ UNCHANGED <<isShutdown, book>>
------------------------------------------------------------------------------
UpdateStep(i) ==
    \/ TimerFires(i) \/ DelayOver(i) \/ Data(i)
    \/ FailsAndRetries(i) \/ UpdateFails(i) \/ UpdateEnds(i) \/ UpdateThrows(i)

UpdateNext ==
    \/ \E b \in Books : BookChanges(b)
    \/ \E n \in Networks : SetNetwork(n) \/ SetNetworkThrows(n)
    \/ SetNetworkUpdatePeriod \/ Close
    \/ \E i \in Slot : UpdateStep(i)

UpdateSpec == UpdateInit /\ [][UpdateNext]_updateVars

(* Timers fire, and a mirror node goes on with a stream until it ends. *)
UpdateFairSpec == UpdateSpec /\ \A i \in Slot : WF_updateVars(UpdateStep(i))
------------------------------------------------------------------------------
UpdateType ==
    [at : Places, periodic : BOOLEAN, attempt : 0..MaxAttempts,
     stream : Seq(AllNodes), addresses : SUBSET AllNodes, last : Seq(AllNodes)]

UpdateTypeOK ==
    /\ network \subseteq AllNodes /\ isShutdown \in BOOLEAN
    /\ timer \in Slot \cup {NoSlot} /\ book \in Books
    /\ updates \in [Slot -> UpdateType]

(* An update installs the whole of an address book or nothing of it:        *)
(* however many of its streams broke, all the nodes of the book its last   *)
(* stream sent are in the network afterwards; or setNetwork() threw, and   *)
(* the network has lost nodes, none of which is in that book.              *)
UpdateComplete ==
    [][\A i \in Slot :
          updates[i].at = "query" /\ updates'[i].at # "query" /\ network' # network
          => LET sent == Nodes(updates[i].last) IN
             \/ sent \subseteq network'
             \/ network' \subseteq network /\ network \cap sent \subseteq network'
      ]_updateVars

(* After close() the updates come to an end, also those a second chain or   *)
(* a retry had in hand, unless the application goes on setting periods.    *)
Quiesces ==
    <>[][~ SetNetworkUpdatePeriod]_updateVars =>
        (isShutdown ~> \A i \in Slot : updates[i].at = "free")

(* "Recall this method to continuously update the network every             *)
(* `networkUpdatePeriod`" (Client.js:721): a client that is not closed     *)
(* always has an update ahead.                                             *)
UpdatesContinue == []<>(isShutdown \/ \E i \in Slot : updates[i].at = "timer")
==============================================================================
