------------------------ MODULE NetworkUpdateProofs ------------------------
(***************************************************************************)
(* Proofs about the network updates of a client, for any address books,    *)
(* any limit on the attempts and any number of updates at the same time.   *)
(***************************************************************************)
EXTENDS NetworkUpdate, TLAPS

(* What a stream still has to bring shrinks by the address it brings. *)
LEMMA NodesOfTail ==
    ASSUME NEW s \in Seq(AllNodes), s # <<>>
    PROVE  /\ Head(s) \in AllNodes /\ Tail(s) \in Seq(AllNodes)
           /\ Nodes(s) = {Head(s)} \cup Nodes(Tail(s))
<1>1. Head(s) \in AllNodes /\ Tail(s) \in Seq(AllNodes)
  OBVIOUS
<1>2. Len(s) \in Nat /\ Len(s) # 0 /\ Len(Tail(s)) = Len(s) - 1
  OBVIOUS
<1>3. \A i \in DOMAIN s : s[i] \in {Head(s)} \cup Nodes(Tail(s))
  <2> SUFFICES ASSUME NEW i \in 1..Len(s), i # 1 PROVE s[i] \in Nodes(Tail(s))
    OBVIOUS
  <2>1. i - 1 \in DOMAIN Tail(s) /\ Tail(s)[i - 1] = s[i]
    BY <1>2
  <2> QED
    BY <2>1 DEF Nodes
<1>4. \A i \in DOMAIN Tail(s) : Tail(s)[i] \in Nodes(s)
  <2> SUFFICES ASSUME NEW i \in 1..(Len(s) - 1) PROVE Tail(s)[i] \in Nodes(s)
    BY <1>1, <1>2
  <2>1. i + 1 \in DOMAIN s /\ Tail(s)[i] = s[i + 1]
    BY <1>2
  <2> QED
    BY <2>1 DEF Nodes
<1>5. Head(s) \in Nodes(s)
  BY <1>2 DEF Nodes
<1> QED
  BY <1>1, <1>3, <1>4, <1>5 DEF Nodes

LEMMA BookNodes == ASSUME NEW b \in Books PROVE b \in Seq(AllNodes)
  BY BookAssumption

(* A free slot and a waiting timer have the type of an update. *)
LEMMA WaitingType ==
    /\ Free \in UpdateType
    /\ \A p \in BOOLEAN : Waiting(p) \in UpdateType /\ Waiting(p).at = "timer"
<1>1. Free \in UpdateType
  BY UpdateBounds DEF Free, Update, UpdateType, Places
<1>2. ASSUME NEW p \in BOOLEAN PROVE Waiting(p) \in UpdateType /\ Waiting(p).at = "timer"
  BY UpdateBounds DEF Waiting, Update, UpdateType, Places
<1> QED
  BY <1>1, <1>2

(* Clearing the timer frees a slot or leaves the updates as they are. *)
LEMMA ClearTimeoutType ==
    ASSUME UpdateTypeOK
    PROVE  /\ ClearTimeout \in [Slot -> UpdateType]
           /\ \A i \in Slot : ClearTimeout[i] \in {updates[i], Free}
           /\ \A i \in Slot : updates[i].at = "query" => ClearTimeout[i] = updates[i]
  BY WaitingType DEF ClearTimeout, UpdateTypeOK

(* A scheduled update takes a slot that is free. *)
LEMMA ScheduleTakesFree ==
    ASSUME NEW us \in [Slot -> UpdateType], ScheduleNetworkUpdate(us)
    PROVE  /\ timer' \in Slot /\ us[timer'].at = "free"
           /\ updates' = [us EXCEPT ![timer'] = Waiting(TRUE)]
           /\ updates' \in [Slot -> UpdateType]
<1>1. timer' \in Slot /\ us[timer'].at = "free"
  BY DEF ScheduleNetworkUpdate
<1> QED
  BY <1>1, WaitingType DEF ScheduleNetworkUpdate
------------------------------------------------------------------------------
LEMMA UpdateTypeInit == UpdateInit => UpdateTypeOK
<1> SUFFICES ASSUME UpdateInit PROVE UpdateTypeOK
  OBVIOUS
<1> DEFINE one == CHOOSE i \in Slot : TRUE
           two == CHOOSE i \in Slot \ {one} : TRUE
<1>1. one \in Slot /\ two \in Slot
  BY UpdateBounds
<1>2. updates = [[i \in Slot |-> Free] EXCEPT ![one] = Waiting(FALSE), ![two] = Waiting(TRUE)]
      /\ timer = two
  BY DEF UpdateInit
<1> HIDE DEF one, two
<1>3. updates \in [Slot -> UpdateType]
  BY <1>1, <1>2, WaitingType
<1>4. network \subseteq AllNodes
  BY DEF UpdateInit, AllNodes
<1> QED
  BY <1>1, <1>2, <1>3, <1>4 DEF UpdateInit, UpdateTypeOK

LEMMA UpdateTypeStep == UpdateTypeOK /\ [UpdateNext]_updateVars => UpdateTypeOK'
<1> SUFFICES ASSUME UpdateTypeOK, [UpdateNext]_updateVars PROVE UpdateTypeOK'
  OBVIOUS
<1> USE UpdateBounds
<1>1. ASSUME NEW b \in Books, BookChanges(b) PROVE UpdateTypeOK'
  BY <1>1 DEF BookChanges, UpdateTypeOK
<1>2. ASSUME NEW n \in Networks, SetNetwork(n) PROVE UpdateTypeOK'
  BY <1>2 DEF SetNetwork, UpdateTypeOK, AllNodes
<1>7. ASSUME NEW n \in Networks, SetNetworkThrows(n) PROVE UpdateTypeOK'
  BY <1>7 DEF SetNetworkThrows, CloseThrows, UpdateTypeOK
<1>3. CASE SetNetworkUpdatePeriod
  BY <1>3, ClearTimeoutType, ScheduleTakesFree DEF SetNetworkUpdatePeriod, UpdateTypeOK
<1>4. CASE Close
  BY <1>4, ClearTimeoutType DEF Close, UpdateTypeOK
<1>5. ASSUME NEW i \in Slot, UpdateStep(i) PROVE UpdateTypeOK'
  <2>1. updates[i] \in UpdateType /\ book \in Seq(AllNodes)
    BY BookNodes DEF UpdateTypeOK
  <2>2. ASSUME MakeServerStreamRequest(i), UNCHANGED <<network, isShutdown, timer, book>>
        PROVE  UpdateTypeOK'
    BY <2>1, <2>2 DEF MakeServerStreamRequest, UpdateTypeOK, UpdateType, Places
  <2>3. CASE Data(i)
    <3>1. Head(updates[i].stream) \in AllNodes /\ Tail(updates[i].stream) \in Seq(AllNodes)
      BY <2>1, <2>3, NodesOfTail DEF Data, UpdateType
    <3>2. [updates[i] EXCEPT !.addresses = @ \cup {Head(updates[i].stream)},
                             !.stream = Tail(@)] \in UpdateType
      BY <2>1, <3>1 DEF UpdateType
    <3> QED
      BY <2>3, <3>2 DEF Data, UpdateTypeOK
  <2>4. CASE FailsAndRetries(i)
    <3>1. updates[i].attempt + 1 \in 0..MaxAttempts
      BY <2>1, <2>4 DEF FailsAndRetries, MayRetry, UpdateType
    <3>2. [updates[i] EXCEPT !.at = "delay", !.attempt = @ + 1,
                             !.stream = <<>>, !.last = <<>>] \in UpdateType
      <4>1. ASSUME NEW s \in Seq(AllNodes)
            PROVE  [updates[i] EXCEPT !.at = "delay", !.attempt = @ + 1,
                                      !.stream = s, !.last = s] \in UpdateType
        BY <2>1, <3>1 DEF UpdateType, Places
      <4>2. <<>> \in Seq(AllNodes)
        OBVIOUS
      <4> QED
        BY <4>1, <4>2, Zenon
    <3> QED
      BY <2>4, <3>2 DEF FailsAndRetries, UpdateTypeOK
  <2>5. CASE UpdateFails(i)
    BY <2>5, WaitingType DEF UpdateFails, Forget, UpdateTypeOK
  <2>6. CASE UpdateEnds(i)
    <3> DEFINE us == [updates EXCEPT ![i] = Free]
    <3>1. us \in [Slot -> UpdateType]
      BY WaitingType DEF UpdateTypeOK
    <3>2. network' \subseteq AllNodes
      BY <2>1, <2>6 DEF UpdateEnds, UpdateType
    <3>3. ScheduleNetworkUpdate(us) \/ (updates' = us /\ Forget(i))
      BY <2>6 DEF UpdateEnds
    <3> HIDE DEF us
    <3> QED
      BY <2>6, <3>1, <3>2, <3>3, ScheduleTakesFree DEF UpdateEnds, Forget, UpdateTypeOK
  <2>7. CASE UpdateThrows(i)
    <3>1. network' \subseteq network
      BY <2>7 DEF UpdateThrows, CloseThrows
    <3> QED
      BY <2>7, <3>1, WaitingType DEF UpdateThrows, Forget, UpdateTypeOK
  <2> QED
    BY <1>5, <2>2, <2>3, <2>4, <2>5, <2>6, <2>7 DEF UpdateStep, TimerFires, DelayOver
<1>6. CASE UNCHANGED updateVars
  BY <1>6 DEF updateVars, UpdateTypeOK
<1> QED
  BY <1>1, <1>2, <1>3, <1>4, <1>5, <1>6, <1>7 DEF UpdateNext

(* The variables of the updates keep their types; no query makes more       *)
(* attempts than its limit.                                                *)
THEOREM UpdateTypeCorrect == UpdateSpec => []UpdateTypeOK
  BY UpdateTypeInit, UpdateTypeStep, PTL DEF UpdateSpec
------------------------------------------------------------------------------
(* What makes UpdateComplete inductive: a query has, or its stream will     *)
(* still bring, every node of the book that stream started with.           *)
StreamCovers ==
    \A i \in Slot :
        updates[i].at = "query" =>
            Nodes(updates[i].last) \subseteq updates[i].addresses \cup Nodes(updates[i].stream)

LEMMA CoversStep ==
    UpdateTypeOK /\ StreamCovers /\ [UpdateNext]_updateVars => StreamCovers'
<1> SUFFICES ASSUME UpdateTypeOK, StreamCovers, [UpdateNext]_updateVars,
                    NEW j \in Slot, updates'[j].at = "query"
             PROVE  Nodes(updates'[j].last)
                        \subseteq updates'[j].addresses \cup Nodes(updates'[j].stream)
  BY DEF StreamCovers
<1> USE DEF UpdateTypeOK
<1>1. CASE updates'[j] = updates[j]
  BY <1>1 DEF StreamCovers
<1>2. CASE updates'[j] \in {Free, Waiting(TRUE)}
  BY <1>2 DEF Free, Waiting, Update
<1>3. CASE SetNetworkUpdatePeriod \/ Close
  <2>1. updates'[j] \in {updates[j], Free, Waiting(TRUE)}
    BY <1>3, ClearTimeoutType, ScheduleTakesFree DEF SetNetworkUpdatePeriod, Close
  <2> QED
    BY <1>1, <1>2, <2>1
<1>4. ASSUME NEW i \in Slot, UpdateStep(i)
      PROVE  Nodes(updates'[j].last)
                 \subseteq updates'[j].addresses \cup Nodes(updates'[j].stream)
  <2>1. updates[i] \in UpdateType
    OBVIOUS
  <2>2. CASE MakeServerStreamRequest(i)
    <3>1. CASE i = j
      BY <2>1, <2>2, <3>1 DEF MakeServerStreamRequest, UpdateType
    <3> QED
      BY <1>1, <2>2, <3>1 DEF MakeServerStreamRequest
  <2>3. CASE Data(i)
    <3>1. CASE i = j
      <4>1. /\ updates'[i].addresses = updates[i].addresses \cup {Head(updates[i].stream)}
            /\ updates'[i].stream = Tail(updates[i].stream)
            /\ updates'[i].last = updates[i].last
        BY <2>1, <2>3 DEF Data, UpdateType
      <4>2. Nodes(updates[i].stream) =
                {Head(updates[i].stream)} \cup Nodes(Tail(updates[i].stream))
        BY <2>1, <2>3, NodesOfTail DEF Data, UpdateType
      <4>3. Nodes(updates[i].last) \subseteq updates[i].addresses \cup Nodes(updates[i].stream)
        BY <2>3 DEF Data, StreamCovers
      <4> QED
        BY <3>1, <4>1, <4>2, <4>3
    <3> QED
      BY <1>1, <2>3, <3>1 DEF Data
  <2>4. CASE FailsAndRetries(i)
    <3>1. i # j
      BY <2>1, <2>4 DEF FailsAndRetries, UpdateType
    <3> QED
      BY <1>1, <2>4, <3>1 DEF FailsAndRetries
  <2>5. CASE UpdateFails(i) \/ UpdateThrows(i)
    BY <1>1, <1>2, <2>5 DEF UpdateFails, UpdateThrows
  <2>6. CASE UpdateEnds(i)
    <3> DEFINE us == [updates EXCEPT ![i] = Free]
    <3>1. us \in [Slot -> UpdateType] /\ us[j] \in {updates[j], Free}
      BY WaitingType
    <3>2. ScheduleNetworkUpdate(us) \/ updates' = us
      BY <2>6 DEF UpdateEnds
    <3> HIDE DEF us
    <3>3. updates'[j] \in {us[j], Waiting(TRUE)}
      BY <3>1, <3>2, ScheduleTakesFree
    <3> QED
      BY <1>1, <1>2, <3>1, <3>3
  <2> QED
    BY <1>4, <2>2, <2>3, <2>4, <2>5, <2>6 DEF UpdateStep, TimerFires, DelayOver
<1> QED
  BY <1>1, <1>3, <1>4
  DEF UpdateNext, BookChanges, SetNetwork, SetNetworkThrows, updateVars

LEMMA CompleteStep ==
    ASSUME UpdateTypeOK, StreamCovers, UpdateNext,
           NEW i \in Slot, updates[i].at = "query", updates'[i].at # "query",
           network' # network, NEW sent, sent = Nodes(updates[i].last)
    PROVE  \/ sent \subseteq network'
           \/ network' \subseteq network /\ network \cap sent \subseteq network'
<1> USE DEF UpdateTypeOK
<1>1. ~ Close /\ ~ SetNetworkUpdatePeriod
  <2>1. ClearTimeout[i] = updates[i]
    BY ClearTimeoutType
  <2>2. ~ SetNetworkUpdatePeriod
    BY DEF SetNetworkUpdatePeriod
  <2> QED
    BY <2>1, <2>2 DEF Close
<1>2. PICK j \in Slot : UpdateEnds(j) \/ UpdateThrows(j)
  BY <1>1 DEF UpdateNext, UpdateStep, BookChanges, SetNetwork, SetNetworkThrows,
              TimerFires, DelayOver, Data, FailsAndRetries, UpdateFails
<1>3. i = j
  <2> SUFFICES ASSUME i # j PROVE FALSE
    OBVIOUS
  <2> DEFINE us == [updates EXCEPT ![j] = Free]
  <2>1. us \in [Slot -> UpdateType] /\ us[i] = updates[i]
    BY WaitingType
  <2>2. ScheduleNetworkUpdate(us) \/ updates' = us
    BY <1>2 DEF UpdateEnds, UpdateThrows
  <2> HIDE DEF us
  <2>3. updates'[i] = updates[i]
    BY <2>1, <2>2, ScheduleTakesFree
  <2> QED
    BY <2>3
<1>4. Nodes(updates[i].stream) = {}
  BY <1>2, <1>3 DEF UpdateEnds, UpdateThrows, AllReceived, Nodes
<1>5. sent \subseteq updates[i].addresses
  BY <1>4 DEF StreamCovers
<1>6. CASE UpdateEnds(i)
  BY <1>5, <1>6 DEF UpdateEnds
<1>7. CASE UpdateThrows(i)
  <2>1. PICK gone \in SUBSET Outdated(updates[i].addresses) :
             network' = network \ gone
    BY <1>7 DEF UpdateThrows, CloseThrows
  <2>2. gone \cap sent = {}
    BY <1>5, <2>1 DEF Outdated
  <2> QED
    BY <2>1, <2>2
<1> QED
  BY <1>2, <1>3, <1>6, <1>7

(* However many streams of its query broke, and whatever else the client    *)
(* did in between, an update that installs a network installs all the      *)
(* nodes of the address book its last stream sent; one whose setNetwork()   *)
(* throws half-way has closed none of them.                                *)
THEOREM CompleteCorrect == UpdateSpec => UpdateComplete
<1>1. UpdateInit => StreamCovers
  BY UpdateBounds DEF UpdateInit, StreamCovers, Free, Waiting, Update
<1>2. UpdateTypeOK /\ StreamCovers /\ [UpdateNext]_updateVars =>
        [\A i \in Slot :
            updates[i].at = "query" /\ updates'[i].at # "query" /\ network' # network
            => LET sent == Nodes(updates[i].last) IN
               \/ sent \subseteq network'
               \/ network' \subseteq network /\ network \cap sent \subseteq network'
        ]_updateVars
  BY CompleteStep
<1> QED
  BY <1>1, <1>2, CoversStep, UpdateTypeCorrect, PTL DEF UpdateSpec, UpdateComplete
==============================================================================
