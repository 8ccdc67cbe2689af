-------------------------- MODULE QueryPaymentsProofs --------------------------
(***************************************************************************)
(* The payments of a query for every list of nodes, every cost and every   *)
(* number of execute() calls at the same time. The payment ID is chosen    *)
(* once, so all payments have it (OneId). As long as no two calls prepare  *)
(* at the same time, the payments are pushed in the order of the nodes     *)
(* (InOrder), which stay as they are once one of them is paid (Listed).    *)
(*                                                                         *)
(* And what queries ask, for every class of QUERY_REGISTRY: the facts that *)
(* the argument needs of a class (Truthful) are established class by class *)
(* from its constructor, setters, request and decoder; the inductive       *)
(* invariant (QueryInv) relates what the application wanted to the object, *)
(* and the object to the verdict and the request.                          *)
(***************************************************************************)
EXTENDS QueryPayments, Queries, FiniteSetTheorems, TLAPS

Places == {"idle", "costing", "paying", "loop", "made", "sent"}
Looping(e) == askPc[e] \in {"loop", "made", "sent"}
RequestType == [node : Nat, payment : PaymentType \cup {Null}]

PayTyped ==
  /\ paid \in BOOLEAN /\ operated \in BOOLEAN /\ explicit \in BOOLEAN
  /\ overlapped \in BOOLEAN /\ interrupted \in BOOLEAN
  /\ payNodes \in ListType(Nat)
  /\ payId \in Nat \cup {Null} /\ payIds \in Nat
  /\ fee \in Nat \cup {Null} /\ maximum \in Nat
  /\ payments \in Seq(PaymentType)
  /\ askPc \in [Asker -> Places]
  /\ making \in [Asker -> PaymentType \cup {Null}]
  /\ asking \in [Asker -> RequestType \cup {Null}]
  /\ tries \in [Asker -> Nat]

\* Where an execute() stands says what the query has.
Prepared ==
  \A e \in Asker :
    /\ askPc[e] = "paying" => making[e] \in PaymentType /\ fee # Null
    /\ Looping(e) => payments # <<>>
    /\ Sending(e) => asking[e] \in RequestType

\* The nodes are there before the first payment is made, and the index is
\* within them.
Listed ==
  /\ payNodes.list # <<>> => payNodes.index <= Len(payNodes.list)
  /\ payNodes.list = <<>> =>
       payments = <<>> /\ \A e \in Asker : ~Preparing(e)

\* One ID for all payments.
OneId ==
  /\ \A i \in DOMAIN payments : payments[i].id = payId
  /\ \A e \in Asker : Preparing(e) => payId # Null
  /\ \A e \in Asker : askPc[e] = "paying" => making[e].id = payId

\* Amounts that the maximum allows, as far as it is looked at.
Fine(n) ==
  \/ explicit \/ n <= maximum
  \/ IntRange \div 2 <= n \/ IntRange \div 2 <= maximum

Affordable ==
  /\ fee # Null => Fine(fee)
  /\ \A i \in DOMAIN payments : Fine(payments[i].amount)
  /\ \A e \in Asker : askPc[e] = "paying" => Fine(making[e].amount)

\* The payments of one execute() at a time are in the order of the nodes, and
\* if no signer failed there is one for every node.
InOrder ==
  ~overlapped =>
    /\ \A i \in DOMAIN payments :
         i <= Len(payNodes.list) /\ payments[i].node = payNodes.list[i]
    /\ \A e \in Asker : Preparing(e) =>
         \A f \in Asker : f # e => askPc[f] = "idle"
    /\ \A e \in Asker : askPc[e] = "costing" => payments = <<>>
    /\ \A e \in Asker : askPc[e] = "paying" =>
         /\ making[e].at = Len(payments) + 1
         /\ making[e].at <= Len(payNodes.list)
         /\ making[e].node = payNodes.list[making[e].at]
    /\ (\A e \in Asker : ~Preparing(e)) /\ payments # <<>> /\ ~interrupted =>
         Len(payments) = Len(payNodes.list)

PayInv ==
  /\ PayTyped /\ Prepared /\ Listed /\ OneId /\ Affordable /\ InOrder
  /\ PaysTheNodeAsked /\ NotSentUnpaid

\* A list that starts at its first element.
LEMMA ListMade ==
  ASSUME NEW s \in Seq(Nat), NEW b \in BOOLEAN
  PROVE  /\ [list |-> s, locked |-> b, index |-> 1] \in ListType(Nat)
         /\ s # <<>> => 1 <= Len(s)
  BY DEF ListType

LEMMA PayStart == PayInit => PayInv
<1> SUFFICES ASSUME PayInit PROVE PayInv
  OBVIOUS
<1>1. payments = <<>> /\ (\A e \in Asker : askPc[e] = "idle")
  BY DEF PayInit
<1>2. payNodes \in ListType(Nat)
      /\ (payNodes.list # <<>> => payNodes.index <= Len(payNodes.list))
  <2>1. PICK nodes \in PayNodes :
          payNodes \in {NewList, SetLocked(SetList(NewList, nodes))}
    BY DEF PayInit
  <2>2. nodes \in Seq(Nat) /\ nodes # <<>>
    BY PayConstants
  <2>3. \/ payNodes = [list |-> <<>>, locked |-> FALSE, index |-> 1]
        \/ payNodes = [list |-> nodes, locked |-> TRUE, index |-> 1]
    BY <2>1 DEF NewList, SetLocked, SetList
  <2>4. <<>> \in Seq(Nat) /\ FALSE \in BOOLEAN /\ TRUE \in BOOLEAN
    OBVIOUS
  <2>5. payNodes \in ListType(Nat)
    BY <2>2, <2>3, <2>4, ListMade, Zenon
  <2>6. payNodes.list # <<>> => payNodes.list = nodes /\ payNodes.index = 1
    BY <2>3
  <2>7. 1 <= Len(nodes)
    BY <2>2, ListMade
  <2> QED BY <2>5, <2>6, <2>7, Zenon
<1>3. PayTyped
  <2>1. <<>> \in Seq(PaymentType)
    OBVIOUS
  <2>2. fee \in Nat \cup {Null} /\ maximum \in Nat
    BY PayConstants DEF PayInit
  <2>3. /\ askPc \in [Asker -> Places]
        /\ making \in [Asker -> PaymentType \cup {Null}]
        /\ asking \in [Asker -> RequestType \cup {Null}]
        /\ tries \in [Asker -> Nat]
    BY DEF PayInit, Places
  <2>4. /\ paid \in BOOLEAN /\ operated \in BOOLEAN /\ explicit \in BOOLEAN
        /\ overlapped \in BOOLEAN /\ interrupted \in BOOLEAN
    BY DEF PayInit
  <2>5. payId \in Nat \cup {Null} /\ payIds \in Nat
    BY DEF PayInit
  <2> QED BY <1>1, <1>2, <2>1, <2>2, <2>3, <2>4, <2>5, Zenon DEF PayTyped
<1>4. Prepared /\ Listed /\ OneId
  BY <1>1, <1>2 DEF Prepared, Listed, OneId, Looping, Sending, Preparing
<1>5. Affordable
  <2>1. fee # Null => explicit
    BY DEF PayInit
  <2> QED BY <1>1, <2>1 DEF Affordable, Fine
<1>6. InOrder
  BY <1>1 DEF InOrder, Preparing
<1>7. PaysTheNodeAsked /\ NotSentUnpaid
  BY <1>1 DEF PaysTheNodeAsked, NotSentUnpaid, Sending
<1> QED BY <1>3, <1>4, <1>5, <1>6, <1>7 DEF PayInv

\* The nodes that _beforeExecute() finds or asks the client for.
LEMMA NodesFound ==
  ASSUME PayTyped, Listed, NEW nodes \in WithNodes
  PROVE  /\ nodes \in ListType(Nat) /\ nodes.list # <<>>
         /\ nodes.index <= Len(nodes.list)
         /\ payNodes.list # <<>> => nodes = payNodes
<1>1. payNodes \in ListType(Nat)
  BY DEF PayTyped
<1>2. CASE payNodes.list # <<>>
  BY <1>1, <1>2 DEF WithNodes, IsEmpty, Listed
<1>3. CASE payNodes.list = <<>>
  <2>1. PICK s \in PayNodes : nodes = SetList(payNodes, s)
    BY <1>3 DEF WithNodes, IsEmpty
  <2>2. s \in Seq(Nat) /\ s # <<>>
    BY PayConstants
  <2>3. payNodes.locked \in BOOLEAN
    BY <1>1 DEF ListType
  <2>4. nodes = [list |-> s, locked |-> payNodes.locked, index |-> 1]
    BY <1>1, <2>1 DEF SetList, ListType
  <2>5. nodes \in ListType(Nat) /\ 1 <= Len(s)
    BY <2>2, <2>3, <2>4, ListMade, Zenon
  <2>6. nodes.list = s /\ nodes.index = 1
    BY <2>4
  <2> QED BY <1>3, <2>2, <2>5, <2>6, Zenon
<1> QED BY <1>2, <1>3

\* The ID is chosen once.
LEMMA IdChosen ==
  ASSUME PayTyped, ChoosePaymentId
  PROVE  /\ payId' \in Nat /\ payIds' \in Nat /\ payId' # Null
         /\ payId # Null => payId' = payId
  BY NullIsNone DEF PayTyped, ChoosePaymentId

\* What is compared as 32-bit integers is compared rightly if it fits.
LEMMA MaximumCompared ==
  ASSUME NEW a \in Nat, NEW b \in Nat, ~(ToInt(a) < ToInt(b))
  PROVE  b <= a \/ IntRange \div 2 <= b \/ IntRange \div 2 <= a
<1>1. IntRange \in Nat \ {0}
  BY PayConstants
<1>2. ASSUME NEW n \in Nat, n < IntRange \div 2
      PROVE  ToInt(n) = n
  <2> DEFINE h == IntRange \div 2
  <2>1. h \in Nat /\ h + h <= IntRange
    BY <1>1
  <2>2. n + h \in 0..(IntRange - 1)
    BY <1>1, <1>2, <2>1
  <2>3. \A x \in 0..(IntRange - 1) : x % IntRange = x
    BY <1>1
  <2>4. (n + h) % IntRange = n + h
    BY <2>2, <2>3
  <2> HIDE DEF h
  <2> QED BY <2>1, <2>4 DEF ToInt, h
<1> QED BY <1>1, <1>2

\* Before there is an ID, nothing was paid and nobody is at work.
LEMMA Unidentified ==
  ASSUME PayInv, payId = Null
  PROVE  payments = <<>> /\ \A e \in Asker : askPc[e] = "idle"
<1>1. PayTyped /\ Prepared /\ Listed /\ OneId /\ Affordable /\ InOrder
      /\ PaysTheNodeAsked /\ NotSentUnpaid
  BY DEF PayInv
<1>2. payments = <<>>
  <2>1. SUFFICES ASSUME payments # <<>> PROVE FALSE
    OBVIOUS
  <2>2. payments \in Seq(PaymentType)
    BY <1>1 DEF PayTyped
  <2>3. 1 \in DOMAIN payments /\ payments[1] \in PaymentType
    BY <2>1, <2>2
  <2>4. payments[1].id \in Nat /\ payments[1].id = payId
    BY <1>1, <2>3 DEF OneId, PaymentType
  <2> QED BY <2>4, NullIsNone
<1>3. ASSUME NEW e \in Asker PROVE askPc[e] = "idle"
  <2>1. ~Preparing(e) /\ ~Looping(e)
    BY <1>1, <1>2 DEF OneId, Prepared
  <2>2. askPc[e] \in Places
    BY <1>1 DEF PayTyped
  <2> QED BY <2>1, <2>2 DEF Preparing, Looping, Places
<1> QED BY <1>2, <1>3

\* getCost(), and an execute() that nobody can pay, set the nodes, and perhaps
\* an ID.
LEMMA NodesSetKeep ==
  ASSUME PayInv, payId = Null, payNodes' \in WithNodes,
         payId' \in Nat \cup {Null}, payIds' \in Nat,
         UNCHANGED <<paid, operated, fee, maximum, payments, askPc, making,
                     asking, tries, explicit, overlapped, interrupted>>
  PROVE  PayInv'
<1>1. PayTyped /\ Prepared /\ Listed /\ OneId /\ Affordable /\ InOrder
      /\ PaysTheNodeAsked /\ NotSentUnpaid
  BY DEF PayInv
<1>2. payments = <<>> /\ \A e \in Asker : askPc[e] = "idle"
  BY Unidentified
<1>3. payments' = <<>> /\ \A e \in Asker : askPc'[e] = "idle"
  BY <1>2
<1>4. /\ payNodes' \in ListType(Nat) /\ payNodes'.list # <<>>
      /\ payNodes'.index <= Len(payNodes'.list)
  BY <1>1, NodesFound
<1>5. PayTyped'
  BY <1>1, <1>4 DEF PayTyped
<1>6. Prepared' /\ Listed' /\ OneId'
  BY <1>3, <1>4 DEF Prepared, Listed, OneId, Looping, Sending, Preparing
<1>7. Affordable'
  BY <1>1, <1>3 DEF Affordable, Fine
<1>8. InOrder'
  BY <1>3 DEF InOrder, Preparing
<1>9. PaysTheNodeAsked' /\ NotSentUnpaid'
  BY <1>3 DEF PaysTheNodeAsked, NotSentUnpaid, Sending
<1> QED BY <1>5, <1>6, <1>7, <1>8, <1>9 DEF PayInv

\* execute() with the payments that are there.
LEMMA ExecutePaidKeeps ==
  ASSUME PayInv, NEW e \in Asker, ExecutePaid(e)
  PROVE  PayInv'
<1>1. PayTyped /\ Prepared /\ Listed /\ OneId /\ Affordable /\ InOrder
      /\ PaysTheNodeAsked /\ NotSentUnpaid
  BY DEF PayInv
<1>2. UNCHANGED <<paid, operated, payNodes, payId, payIds, fee, maximum,
                 payments, making, asking, explicit, interrupted>>
  BY DEF ExecutePaid
<1>3. /\ askPc[e] = "idle" /\ payments # <<>>
      /\ askPc' = [askPc EXCEPT ![e] = "loop"]
      /\ tries' = [tries EXCEPT ![e] = 0]
      /\ overlapped' = (overlapped \/ \E f \in Asker : Preparing(f))
  BY DEF ExecutePaid

<1>4. /\ askPc' \in [Asker -> Places] /\ askPc'[e] = "loop"
      /\ \A f \in Asker : f # e => askPc'[f] = askPc[f]
  BY <1>1, <1>3 DEF PayTyped, Places
<1>5. /\ overlapped' \in BOOLEAN /\ (overlapped => overlapped')
      /\ ~overlapped' => \A f \in Asker : ~Preparing(f)
  BY <1>1, <1>3 DEF PayTyped
<1>6. \A f \in Asker : Preparing(f)' = (f # e /\ Preparing(f))
  BY <1>3, <1>4 DEF Preparing
<1>7. PayTyped'
  BY <1>1, <1>2, <1>3, <1>4, <1>5 DEF PayTyped
<1>8. Prepared' /\ Listed' /\ OneId'
  BY <1>1, <1>2, <1>3, <1>4, <1>6 DEF Prepared, Listed, OneId, Looping, Sending
<1>9. Affordable'
  BY <1>1, <1>2, <1>4 DEF Affordable, Fine
<1>10. InOrder'
  <2>1. SUFFICES ASSUME ~overlapped' PROVE InOrder'
    BY DEF InOrder
  <2>2. ~overlapped /\ \A f \in Asker : ~Preparing(f) /\ ~Preparing(f)'
    BY <1>5, <1>6, <2>1
  <2> QED BY <1>1, <1>2, <1>3, <2>2 DEF InOrder, Preparing
<1>11. PaysTheNodeAsked' /\ NotSentUnpaid'
  BY <1>1, <1>2, <1>4, <1>5 DEF PaysTheNodeAsked, NotSentUnpaid, Sending
<1> QED BY <1>7, <1>8, <1>9, <1>10, <1>11 DEF PayInv

\* An execute() that gives up before it pays anything: the cost query failed,
\* or the cost is more than the maximum.
LEMMA GivesUpKeeps ==
  ASSUME PayInv, NEW e \in Asker, askPc[e] = "costing",
         askPc' = [askPc EXCEPT ![e] = "idle"],
         UNCHANGED <<paid, operated, payNodes, payId, payIds, fee, maximum,
                     payments, making, asking, tries, explicit, overlapped,
                     interrupted>>
  PROVE  PayInv'
<1>1. PayTyped /\ Prepared /\ Listed /\ OneId /\ Affordable /\ InOrder
      /\ PaysTheNodeAsked /\ NotSentUnpaid
  BY DEF PayInv
<1>4. /\ askPc' \in [Asker -> Places] /\ askPc'[e] = "idle"
      /\ \A f \in Asker : f # e => askPc'[f] = askPc[f]
  BY <1>1 DEF PayTyped, Places
<1>5. \A f \in Asker : Preparing(f)' = (f # e /\ Preparing(f))
  BY <1>4 DEF Preparing
<1>6. PayTyped'
  BY <1>1, <1>4 DEF PayTyped
<1>7. Prepared' /\ Listed' /\ OneId'
  BY <1>1, <1>4, <1>5 DEF Prepared, Listed, OneId, Looping, Sending
<1>8. Affordable'
  BY <1>1, <1>4 DEF Affordable, Fine
<1>9. InOrder'
  <2>1. SUFFICES ASSUME ~overlapped PROVE InOrder'
    BY DEF InOrder
  <2>2. payments = <<>> /\ Preparing(e)
    BY <1>1, <2>1 DEF InOrder, Preparing
  <2>3. \A f \in Asker : askPc'[f] = "idle"
    BY <1>1, <1>4, <2>1, <2>2 DEF InOrder
  <2> QED BY <2>2, <2>3 DEF InOrder, Preparing
<1>10. PaysTheNodeAsked' /\ NotSentUnpaid'
  BY <1>1, <1>4 DEF PaysTheNodeAsked, NotSentUnpaid, Sending
<1> QED BY <1>6, <1>7, <1>8, <1>9, <1>10 DEF PayInv

\* The loop over the nodes begins.
LEMMA StartPayingKeeps ==
  ASSUME PayInv, NEW e \in Asker, NEW nodes \in WithNodes, NEW cost \in Nat,
         StartPaying(e, nodes, cost, payId'), Fine(cost),
         askPc[e] \in {"idle", "costing"},
         payId' \in Nat, payIds' \in Nat, payId # Null => payId' = payId,
         overlapped' \in BOOLEAN, overlapped => overlapped',
         ~overlapped' => payments = <<>>
                         /\ \A f \in Asker : f # e => askPc[f] = "idle",
         tries' \in [Asker -> Nat],
         UNCHANGED <<paid, operated, maximum, payments, asking, explicit,
                     interrupted>>
  PROVE  PayInv'
<1>1. PayTyped /\ Prepared /\ Listed /\ OneId /\ Affordable /\ InOrder
      /\ PaysTheNodeAsked /\ NotSentUnpaid
  BY DEF PayInv
<1> DEFINE first == Payment(nodes, 1, cost, payId')
<1>2. /\ fee' = cost /\ payNodes' = SetLocked(nodes)
      /\ making' = [making EXCEPT ![e] = first]
      /\ askPc' = [askPc EXCEPT ![e] = "paying"]
  BY DEF StartPaying
<1>3. /\ nodes \in ListType(Nat) /\ nodes.list # <<>>
      /\ nodes.index <= Len(nodes.list)
      /\ payNodes.list # <<>> => nodes = payNodes
  BY <1>1, NodesFound
<1>4. /\ askPc' \in [Asker -> Places] /\ askPc'[e] = "paying"
      /\ \A f \in Asker : f # e => askPc'[f] = askPc[f]
  BY <1>1, <1>2 DEF PayTyped, Places
<1>5. /\ payNodes' \in ListType(Nat) /\ payNodes'.list = nodes.list
      /\ payNodes'.index = nodes.index
  BY <1>2, <1>3 DEF SetLocked, ListType
<1>6. 1 <= Len(nodes.list) /\ nodes.list[1] \in Nat
  BY <1>3 DEF ListType
<1>7. /\ first \in PaymentType /\ first.at = 1 /\ first.node = nodes.list[1]
      /\ first.amount = cost /\ first.id = payId'
  BY <1>6 DEF Payment, PaymentType
<1>8. /\ making' \in [Asker -> PaymentType \cup {Null}] /\ making'[e] = first
      /\ \A f \in Asker : f # e => making'[f] = making[f]
  <2> HIDE DEF first
  <2> QED BY <1>1, <1>2, <1>7 DEF PayTyped
<1> HIDE DEF first
<1>9. fee' # Null /\ payId' # Null
  BY <1>2, NullIsNone
<1>10. PayTyped'
  BY <1>1, <1>2, <1>4, <1>5, <1>8 DEF PayTyped
<1>11. Prepared'
  BY <1>1, <1>4, <1>7, <1>8, <1>9 DEF Prepared, Looping, Sending
<1>12. Listed'
  BY <1>3, <1>5 DEF Listed
<1>13. OneId'
  <2>1. payId = Null => payments = <<>> /\ \A f \in Asker : askPc[f] = "idle"
    BY Unidentified
  <2>2. \A i \in DOMAIN payments' : payments'[i].id = payId'
    BY <1>1, <2>1 DEF OneId
  <2>3. \A f \in Asker : askPc'[f] = "paying" => making'[f].id = payId'
    BY <1>1, <1>4, <1>7, <1>8, <2>1 DEF OneId
  <2> QED BY <1>9, <2>2, <2>3 DEF OneId
<1>14. Affordable'
  BY <1>1, <1>2, <1>4, <1>7, <1>8 DEF Affordable, Fine
<1>15. InOrder'
  <2>1. SUFFICES ASSUME ~overlapped' PROVE InOrder'
    BY DEF InOrder
  <2>2. payments' = <<>> /\ Len(payments') = 0
        /\ \A f \in Asker : f # e => askPc'[f] = "idle"
    BY <1>4, <2>1
  <2> QED BY <1>4, <1>5, <1>6, <1>7, <1>8, <2>2 DEF InOrder, Preparing
<1>16. PaysTheNodeAsked' /\ NotSentUnpaid'
  BY <1>1, <1>4 DEF PaysTheNodeAsked, NotSentUnpaid, Sending
<1> QED BY <1>10, <1>11, <1>12, <1>13, <1>14, <1>15, <1>16 DEF PayInv

\* The cost arrives.
LEMMA CostAnsweredKeeps ==
  ASSUME PayInv, NEW e \in Asker, NEW c \in Costs, CostAnswered(e, c)
  PROVE  PayInv'
<1>1. PayTyped /\ Prepared /\ Listed /\ OneId /\ Affordable /\ InOrder
      /\ PaysTheNodeAsked /\ NotSentUnpaid
  BY DEF PayInv
<1>2. /\ askPc[e] = "costing"
      /\ UNCHANGED <<paid, operated, payId, payIds, maximum, payments, asking,
                     tries, explicit, overlapped, interrupted>>
  BY DEF CostAnswered
<1>3. CostWithMargin(c) \in Nat
  <2>1. c \in Nat
    BY PayConstants
  <2> QED BY <2>1 DEF CostWithMargin
<1>4. CASE ToInt(maximum) < ToInt(CostWithMargin(c))
  <2>1. askPc' = [askPc EXCEPT ![e] = "idle"] /\ UNCHANGED <<payNodes, fee, making>>
    BY <1>4 DEF CostAnswered
  <2> QED BY <1>2, <2>1, GivesUpKeeps
<1>5. CASE ~(ToInt(maximum) < ToInt(CostWithMargin(c)))
  <2>1. StartPaying(e, payNodes, CostWithMargin(c), payId')
    BY <1>2, <1>5 DEF CostAnswered
  <2>2. maximum \in Nat
    BY <1>1 DEF PayTyped
  <2>3. Fine(CostWithMargin(c))
    BY <1>3, <1>5, <2>2, MaximumCompared DEF Fine
  <2>4. Preparing(e)
    BY <1>2 DEF Preparing
  <2>5. payNodes \in WithNodes
    BY <1>1, <2>4 DEF WithNodes, IsEmpty, Listed
  <2>6. payId # Null /\ payId \in Nat
    BY <1>1, <2>4 DEF OneId, PayTyped
  <2>7. /\ payIds' \in Nat /\ overlapped' \in BOOLEAN
        /\ tries' \in [Asker -> Nat]
    BY <1>1, <1>2 DEF PayTyped
  <2>8. ~overlapped => payments = <<>>
                       /\ \A f \in Asker : f # e => askPc[f] = "idle"
    BY <1>1, <1>2, <2>4 DEF InOrder
  <2>9. payId' \in Nat /\ payId' = payId /\ (overlapped => overlapped')
    BY <1>2, <2>6
  <2>10. ~overlapped' => payments = <<>>
                         /\ \A f \in Asker : f # e => askPc[f] = "idle"
    BY <1>2, <2>8
  <2> QED BY <1>2, <1>3, <2>1, <2>3, <2>5, <2>7, <2>9, <2>10, StartPayingKeeps
<1> QED BY <1>4, <1>5

\* execute() of a query without payments.
LEMMA ExecuteUnpaidKeeps ==
  ASSUME PayInv, NEW e \in Asker, ExecuteUnpaid(e)
  PROVE  PayInv'
<1>1. PayTyped /\ Prepared /\ Listed /\ OneId /\ Affordable /\ InOrder
      /\ PaysTheNodeAsked /\ NotSentUnpaid
  BY DEF PayInv
<1>2. /\ askPc[e] = "idle" /\ payments = <<>> /\ ChoosePaymentId
      /\ tries' = [tries EXCEPT ![e] = 0]
      /\ overlapped' = (overlapped \/ \E f \in Asker : Preparing(f))
      /\ UNCHANGED <<paid, operated, maximum, payments, asking, explicit,
                     interrupted>>
  BY DEF ExecuteUnpaid
<1>3. PICK nodes \in WithNodes :
        IF fee # Null \/ ~paid
        THEN StartPaying(e, nodes, IF fee # Null THEN fee ELSE 0, payId')
        ELSE /\ payNodes' = nodes
             /\ askPc' = [askPc EXCEPT ![e] = "costing"]
             /\ UNCHANGED <<fee, making>>
  BY DEF ExecuteUnpaid
<1>4. /\ payId' \in Nat /\ payIds' \in Nat /\ payId' # Null
      /\ payId # Null => payId' = payId
  BY <1>1, <1>2, IdChosen
<1>5. /\ overlapped' \in BOOLEAN /\ (overlapped => overlapped')
      /\ tries' \in [Asker -> Nat]
  BY <1>1, <1>2 DEF PayTyped
<1>6. ~overlapped' => \A f \in Asker : askPc[f] = "idle"
  <2>1. \A f \in Asker : ~Looping(f) /\ askPc[f] \in Places
    BY <1>1, <1>2 DEF Prepared, PayTyped
  <2>2. ~overlapped' => \A f \in Asker : ~Preparing(f)
    BY <1>2
  <2> QED BY <2>1, <2>2 DEF Looping, Preparing, Places
<1>7. CASE fee # Null \/ ~paid
  <2> DEFINE cost == IF fee # Null THEN fee ELSE 0
  <2>1. cost \in Nat
    BY <1>1 DEF PayTyped
  <2>2. Fine(cost)
    BY <1>1 DEF Affordable, Fine, PayTyped
  <2>3. StartPaying(e, nodes, cost, payId')
    BY <1>3, <1>7
  <2> HIDE DEF cost
  <2> QED BY <1>2, <1>4, <1>5, <1>6, <2>1, <2>2, <2>3, StartPayingKeeps
<1>8. CASE ~(fee # Null \/ ~paid)
  <2>1. /\ payNodes' = nodes /\ askPc' = [askPc EXCEPT ![e] = "costing"]
        /\ UNCHANGED <<fee, making>>
    BY <1>3, <1>8
  <2>2. /\ payNodes' \in ListType(Nat) /\ payNodes'.list # <<>>
        /\ payNodes'.index <= Len(payNodes'.list)
    BY <1>1, <2>1, NodesFound
  <2>3. /\ askPc' \in [Asker -> Places] /\ askPc'[e] = "costing"
        /\ \A f \in Asker : f # e => askPc'[f] = askPc[f]
    BY <1>1, <2>1 DEF PayTyped, Places
  <2>4. PayTyped'
    BY <1>1, <1>2, <1>4, <1>5, <2>1, <2>2, <2>3 DEF PayTyped
  <2>5. Prepared' /\ Listed'
    BY <1>1, <1>2, <2>1, <2>2, <2>3 DEF Prepared, Listed, Looping, Sending
  <2>6. OneId'
    <3>1. payId = Null => \A f \in Asker : askPc[f] = "idle"
      BY Unidentified
    <3> QED BY <1>1, <1>2, <1>4, <2>1, <2>3, <3>1 DEF OneId
  <2>7. Affordable'
    BY <1>1, <1>2, <2>1, <2>3 DEF Affordable, Fine
  <2>8. InOrder'
    <3>1. SUFFICES ASSUME ~overlapped' PROVE InOrder'
      BY DEF InOrder
    <3>2. payments' = <<>> /\ \A f \in Asker : f # e => askPc'[f] = "idle"
      BY <1>2, <1>6, <2>3, <3>1
    <3> QED BY <2>3, <3>2 DEF InOrder, Preparing
  <2>9. PaysTheNodeAsked' /\ NotSentUnpaid'
    BY <1>1, <1>2, <1>5, <2>3 DEF PaysTheNodeAsked, NotSentUnpaid, Sending
  <2> QED BY <2>4, <2>5, <2>6, <2>7, <2>8, <2>9 DEF PayInv
<1> QED BY <1>7, <1>8

\* push() of a payment.
LEMMA Pushed ==
  ASSUME NEW s \in Seq(PaymentType), NEW x \in PaymentType
  PROVE  /\ Append(s, x) \in Seq(PaymentType) /\ Append(s, x) # <<>>
         /\ Len(Append(s, x)) = Len(s) + 1
         /\ \A i \in DOMAIN s : Append(s, x)[i] = s[i]
         /\ \A i \in DOMAIN Append(s, x) :
              i \in DOMAIN s \/ (i = Len(s) + 1 /\ Append(s, x)[i] = x)
  OBVIOUS

\* A payment is pushed, and the next one begun.
LEMMA PayKeeps ==
  ASSUME PayInv, NEW e \in Asker, Pay(e)
  PROVE  PayInv'
<1>1. PayTyped /\ Prepared /\ Listed /\ OneId /\ Affordable /\ InOrder
      /\ PaysTheNodeAsked /\ NotSentUnpaid
  BY DEF PayInv
<1> DEFINE at == making[e].at
           n == Len(payNodes.list)
           more == Payment(payNodes, at + 1, fee, payId)
<1>2. UNCHANGED <<paid, operated, payNodes, payId, payIds, fee, maximum, asking,
                  tries, explicit, overlapped, interrupted>>
  BY DEF Pay
<1>3. /\ askPc[e] = "paying" /\ payments' = Append(payments, making[e])
      /\ \/ /\ at < n /\ making' = [making EXCEPT ![e] = more]
            /\ UNCHANGED askPc
         \/ /\ ~(at < n) /\ making' = [making EXCEPT ![e] = Null]
            /\ askPc' = [askPc EXCEPT ![e] = "loop"]
  BY DEF Pay
<1>4. making[e] \in PaymentType /\ fee \in Nat /\ at \in Nat
  BY <1>1, <1>3 DEF Prepared, PayTyped, PaymentType
<1>5. Preparing(e) /\ payNodes.list # <<>> /\ payId \in Nat
  BY <1>1, <1>3 DEF Preparing, Listed, OneId, PayTyped
<1>6. /\ payments \in Seq(PaymentType) /\ payNodes.list \in Seq(Nat)
      /\ n \in Nat
  BY <1>1 DEF PayTyped, ListType
<1>7. /\ payments' \in Seq(PaymentType) /\ payments' # <<>>
      /\ Len(payments') = Len(payments) + 1
      /\ \A i \in DOMAIN payments : payments'[i] = payments[i]
      /\ \A i \in DOMAIN payments' :
           i \in DOMAIN payments
           \/ (i = Len(payments) + 1 /\ payments'[i] = making[e])
  <2>1. payments' = Append(payments, making[e])
    BY <1>3
  <2> QED BY <1>4, <1>6, <2>1, Pushed, Zenon
<1>8. at < n =>
        /\ more \in PaymentType /\ more.at = at + 1
        /\ more.node = payNodes.list[at + 1]
        /\ more.amount = fee /\ more.id = payId
  <2>1. \A s \in Seq(Nat), k \in Nat : k < Len(s) => s[k + 1] \in Nat
    OBVIOUS
  <2>2. at < n => payNodes.list[at + 1] \in Nat
    BY <1>4, <1>6, <2>1
  <2> QED BY <1>4, <1>5, <2>2 DEF Payment, PaymentType
<1> HIDE DEF more
<1>9. /\ making' \in [Asker -> PaymentType \cup {Null}]
      /\ \A f \in Asker : f # e => making'[f] = making[f]
      /\ at < n => making'[e] = more
  BY <1>1, <1>3, <1>8 DEF PayTyped
<1>10. /\ askPc' \in [Asker -> Places]
       /\ \A f \in Asker : f # e => askPc'[f] = askPc[f]
       /\ at < n => askPc'[e] = "paying"
       /\ ~(at < n) => askPc'[e] = "loop"
  BY <1>1, <1>3 DEF PayTyped, Places
<1>11. PayTyped'
  BY <1>1, <1>2, <1>7, <1>9, <1>10 DEF PayTyped
<1>12. Prepared'
  <2>1. fee # Null
    BY <1>4, NullIsNone
  <2> QED BY <1>1, <1>2, <1>7, <1>8, <1>9, <1>10, <2>1
          DEF Prepared, Looping, Sending
<1>13. Listed'
  BY <1>1, <1>2, <1>5 DEF Listed
<1>14. OneId'
  <2>1. \A i \in DOMAIN payments' : payments'[i].id = payId'
    BY <1>1, <1>2, <1>3, <1>7 DEF OneId
  <2>2. payId # Null
    BY <1>5, NullIsNone
  <2> QED BY <1>1, <1>2, <1>8, <1>9, <1>10, <2>1, <2>2 DEF OneId
<1>15. Affordable'
  <2>1. Fine(fee)
    BY <1>1, <1>4, NullIsNone DEF Affordable
  <2>2. \A i \in DOMAIN payments' : Fine(payments'[i].amount)
    BY <1>1, <1>3, <1>7 DEF Affordable
  <2>3. \A f \in Asker : askPc'[f] = "paying" => Fine(making'[f].amount)
    BY <1>1, <1>8, <1>9, <1>10, <2>1 DEF Affordable
  <2> QED BY <1>2, <2>1, <2>2, <2>3 DEF Affordable, Fine
<1>16. InOrder'
  <2>1. SUFFICES ASSUME ~overlapped PROVE InOrder'
    BY <1>2 DEF InOrder
  <2>2. \A f \in Asker : f # e => askPc'[f] = "idle"
    BY <1>1, <1>5, <1>10, <2>1 DEF InOrder
  <2>3. at = Len(payments) + 1 /\ at <= n
        /\ making[e].node = payNodes.list[at]
    BY <1>1, <1>3, <2>1 DEF InOrder
  <2>4. \A i \in DOMAIN payments' :
          i <= n /\ payments'[i].node = payNodes.list[i]
    BY <1>1, <1>7, <2>1, <2>3 DEF InOrder
  <2>5. CASE at < n
    <3>1. Preparing(e)'
      BY <1>10, <2>5 DEF Preparing
    <3>2. making'[e].at = Len(payments') + 1 /\ making'[e].at <= n
          /\ making'[e].node = payNodes.list[making'[e].at]
      BY <1>4, <1>6, <1>7, <1>8, <1>9, <2>3, <2>5
    <3> QED BY <1>2, <1>10, <2>2, <2>4, <2>5, <3>1, <3>2
            DEF InOrder, Preparing
  <2>6. CASE ~(at < n)
    <3>1. Len(payments') = n
      BY <1>4, <1>6, <1>7, <2>3, <2>6
    <3> QED BY <1>2, <1>10, <2>2, <2>4, <2>6, <3>1 DEF InOrder, Preparing
  <2> QED BY <2>5, <2>6
<1>17. PaysTheNodeAsked' /\ NotSentUnpaid'
  BY <1>1, <1>2, <1>10 DEF PaysTheNodeAsked, NotSentUnpaid, Sending
<1> QED BY <1>11, <1>12, <1>13, <1>14, <1>15, <1>16, <1>17 DEF PayInv

\* A signer rejects.
LEMMA PayFailsKeeps ==
  ASSUME PayInv, NEW e \in Asker, PayFails(e)
  PROVE  PayInv'
<1>1. PayTyped /\ Prepared /\ Listed /\ OneId /\ Affordable /\ InOrder
      /\ PaysTheNodeAsked /\ NotSentUnpaid
  BY DEF PayInv
<1>2. UNCHANGED <<paid, operated, payNodes, payId, payIds, fee, maximum,
                  payments, asking, tries, explicit, overlapped>>
  BY DEF PayFails
<1>3. /\ askPc[e] = "paying" /\ askPc' = [askPc EXCEPT ![e] = "idle"]
      /\ making' = [making EXCEPT ![e] = Null]
      /\ interrupted' = (interrupted \/ payments # <<>>)
  BY DEF PayFails
<1>4. /\ askPc' \in [Asker -> Places] /\ askPc'[e] = "idle"
      /\ \A f \in Asker : f # e => askPc'[f] = askPc[f]
  BY <1>1, <1>3 DEF PayTyped, Places
<1>5. /\ making' \in [Asker -> PaymentType \cup {Null}]
      /\ \A f \in Asker : f # e => making'[f] = making[f]
  BY <1>1, <1>3 DEF PayTyped
<1>6. interrupted' \in BOOLEAN /\ (interrupted => interrupted')
      /\ (payments # <<>> => interrupted')
  BY <1>1, <1>3 DEF PayTyped
<1>7. PayTyped'
  BY <1>1, <1>2, <1>4, <1>5, <1>6 DEF PayTyped
<1>8. Prepared' /\ Listed' /\ OneId'
  BY <1>1, <1>2, <1>4, <1>5
     DEF Prepared, Listed, OneId, Looping, Sending, Preparing
<1>9. Affordable'
  BY <1>1, <1>2, <1>4, <1>5 DEF Affordable, Fine
<1>10. InOrder'
  <2>1. SUFFICES ASSUME ~overlapped PROVE InOrder'
    BY <1>2 DEF InOrder
  <2>2. \A f \in Asker : askPc'[f] = "idle"
    BY <1>1, <1>3, <1>4, <2>1 DEF InOrder, Preparing
  <2> QED BY <1>1, <1>2, <1>6, <2>1, <2>2 DEF InOrder, Preparing
<1>11. PaysTheNodeAsked' /\ NotSentUnpaid'
  BY <1>1, <1>2, <1>4, <1>6 DEF PaysTheNodeAsked, NotSentUnpaid, Sending
<1> QED BY <1>7, <1>8, <1>9, <1>10, <1>11 DEF PayInv

\* A request takes the payment at the index of its node.
LEMMA MakeRequestKeeps ==
  ASSUME PayInv, NEW e \in Asker, MakeRequest(e)
  PROVE  PayInv'
<1>1. PayTyped /\ Prepared /\ Listed /\ OneId /\ Affordable /\ InOrder
      /\ PaysTheNodeAsked /\ NotSentUnpaid
  BY DEF PayInv
<1> DEFINE at == payNodes.index
           covered == paid /\ at <= Len(payments)
           request == [node |-> Current(payNodes),
                       payment |-> IF covered THEN payments[at] ELSE Null]
<1>2. UNCHANGED <<paid, operated, payNodes, payId, payIds, fee, maximum,
                  payments, making, explicit, overlapped, interrupted>>
  BY DEF MakeRequest
<1>3. /\ askPc[e] = "loop" /\ askPc' = [askPc EXCEPT ![e] = "made"]
      /\ asking' = [asking EXCEPT ![e] = request]
      /\ tries' = [tries EXCEPT ![e] = @ + 1]
  BY DEF MakeRequest
<1>4. /\ askPc' \in [Asker -> Places] /\ askPc'[e] = "made"
      /\ \A f \in Asker : f # e => askPc'[f] = askPc[f]
  BY <1>1, <1>3 DEF PayTyped, Places
<1>5. payments # <<>> /\ payments \in Seq(PaymentType)
  BY <1>1, <1>3 DEF Prepared, Looping, PayTyped
<1>6. /\ payNodes.list \in Seq(Nat) /\ payNodes.list # <<>>
      /\ at \in 1..Len(payNodes.list)
  BY <1>1, <1>5 DEF Listed, PayTyped, ListType
<1>7. Current(payNodes) = payNodes.list[at] /\ payNodes.list[at] \in Nat
  BY <1>6 DEF Current
<1>8. covered => at \in DOMAIN payments /\ payments[at] \in PaymentType
  BY <1>5, <1>6
<1>9. request \in RequestType
  <2>1. (IF covered THEN payments[at] ELSE Null) \in PaymentType \cup {Null}
    BY <1>8
  <2> QED BY <1>7, <2>1 DEF RequestType
<1>10. request.node = payNodes.list[at]
       /\ (request.payment = IF covered THEN payments[at] ELSE Null)
  BY <1>7
<1> HIDE DEF request
<1>11. /\ asking' \in [Asker -> RequestType \cup {Null}]
       /\ asking'[e] = request
       /\ \A f \in Asker : f # e => asking'[f] = asking[f]
  BY <1>1, <1>3, <1>9 DEF PayTyped
<1>12. PayTyped'
  BY <1>1, <1>2, <1>3, <1>4, <1>11 DEF PayTyped
<1>13. Prepared' /\ Listed' /\ OneId'
  BY <1>1, <1>2, <1>3, <1>4, <1>9, <1>11
     DEF Prepared, Listed, OneId, Looping, Sending, Preparing
<1>14. Affordable'
  BY <1>1, <1>2, <1>4 DEF Affordable, Fine
<1>15. InOrder'
  BY <1>1, <1>2, <1>3, <1>4 DEF InOrder, Preparing
<1>16. PaysTheNodeAsked'
  <2>1. ~overlapped /\ request.payment # Null =>
          request.payment.node = request.node
    BY <1>1, <1>8, <1>10 DEF InOrder
  <2> QED BY <1>1, <1>2, <1>4, <1>11, <2>1 DEF PaysTheNodeAsked, Sending
<1>17. NotSentUnpaid'
  <2>1. ASSUME ~overlapped, ~interrupted, paid PROVE request.payment # Null
    <3>1. \A f \in Asker : ~Preparing(f)
      BY <1>1, <1>3, <2>1 DEF InOrder, Preparing
    <3>2. Len(payments) = Len(payNodes.list)
      BY <1>1, <1>5, <2>1, <3>1 DEF InOrder
    <3>3. covered
      BY <1>6, <2>1, <3>2
    <3> QED BY <1>8, <1>10, <3>3, NullIsNone
  <2> QED BY <1>1, <1>2, <1>4, <1>11, <2>1 DEF NotSentUnpaid, Sending
<1> QED BY <1>12, <1>13, <1>14, <1>15, <1>16, <1>17 DEF PayInv

\* The list of nodes moves on.
LEMMA SendRequestKeeps ==
  ASSUME PayInv, NEW e \in Asker, SendRequest(e)
  PROVE  PayInv'
<1>1. PayTyped /\ Prepared /\ Listed /\ OneId /\ Affordable /\ InOrder
      /\ PaysTheNodeAsked /\ NotSentUnpaid
  BY DEF PayInv
<1>2. UNCHANGED <<paid, operated, payId, payIds, fee, maximum, payments, making,
                  asking, tries, explicit, overlapped, interrupted>>
  BY DEF SendRequest
<1>3. /\ askPc[e] = "made" /\ askPc' = [askPc EXCEPT ![e] = "sent"]
      /\ payNodes' = Advanced(payNodes)
  BY DEF SendRequest
<1>4. /\ askPc' \in [Asker -> Places] /\ askPc'[e] = "sent"
      /\ \A f \in Asker : f # e => askPc'[f] = askPc[f]
  BY <1>1, <1>3 DEF PayTyped, Places
<1>5. /\ payNodes' \in ListType(Nat) /\ payNodes'.list = payNodes.list
      /\ payNodes'.list # <<>> => payNodes'.index <= Len(payNodes'.list)
  <2>1. payNodes \in ListType(Nat)
    BY <1>1 DEF PayTyped
  <2>2. CASE payNodes.list = <<>>
    BY <1>3, <2>1, <2>2 DEF Advanced, IsEmpty
  <2>3. CASE payNodes.list # <<>>
    <3> DEFINE k == Len(payNodes.list)
               next == (payNodes.index % k) + 1
    <3>1. k \in Nat \ {0} /\ payNodes.index \in Nat
      BY <2>1, <2>3 DEF ListType
    <3>2. next \in 1..k
      BY <3>1
    <3>3. payNodes' = [payNodes EXCEPT !.index = next]
      BY <1>3, <2>3 DEF Advanced, IsEmpty
    <3> HIDE DEF next
    <3> QED BY <2>1, <3>1, <3>2, <3>3 DEF ListType
  <2> QED BY <2>2, <2>3
<1>6. PayTyped'
  BY <1>1, <1>2, <1>4, <1>5 DEF PayTyped
<1>7. Prepared' /\ Listed' /\ OneId'
  BY <1>1, <1>2, <1>3, <1>4, <1>5
     DEF Prepared, Listed, OneId, Looping, Sending, Preparing
<1>8. Affordable'
  BY <1>1, <1>2, <1>4 DEF Affordable, Fine
<1>9. InOrder'
  BY <1>1, <1>2, <1>3, <1>4, <1>5 DEF InOrder, Preparing
<1>10. PaysTheNodeAsked' /\ NotSentUnpaid'
  BY <1>1, <1>2, <1>3, <1>4 DEF PaysTheNodeAsked, NotSentUnpaid, Sending
<1> QED BY <1>6, <1>7, <1>8, <1>9, <1>10 DEF PayInv

\* The answer is retried, or the last.
LEMMA RespondedKeeps ==
  ASSUME PayInv, NEW e \in Asker, NEW retry \in BOOLEAN, Responded(e, retry)
  PROVE  PayInv'
<1>1. PayTyped /\ Prepared /\ Listed /\ OneId /\ Affordable /\ InOrder
      /\ PaysTheNodeAsked /\ NotSentUnpaid
  BY DEF PayInv
<1>2. UNCHANGED <<paid, operated, payNodes, payId, payIds, fee, maximum,
                  payments, making, tries, explicit, overlapped, interrupted>>
  BY DEF Responded
<1>3. /\ askPc[e] = "sent"
      /\ askPc' = [askPc EXCEPT ![e] = IF retry /\ tries[e] < MaxAsks
                                       THEN "loop" ELSE "idle"]
      /\ asking' = [asking EXCEPT ![e] = Null]
  BY DEF Responded
<1>4. /\ askPc' \in [Asker -> Places] /\ askPc'[e] \in {"loop", "idle"}
      /\ \A f \in Asker : f # e => askPc'[f] = askPc[f]
  BY <1>1, <1>3 DEF PayTyped, Places
<1>5. /\ asking' \in [Asker -> RequestType \cup {Null}]
      /\ \A f \in Asker : f # e => asking'[f] = asking[f]
  BY <1>1, <1>3 DEF PayTyped
<1>6. PayTyped'
  BY <1>1, <1>2, <1>4, <1>5 DEF PayTyped
<1>7. Prepared' /\ Listed' /\ OneId'
  BY <1>1, <1>2, <1>3, <1>4, <1>5
     DEF Prepared, Listed, OneId, Looping, Sending, Preparing
<1>8. Affordable'
  BY <1>1, <1>2, <1>4 DEF Affordable, Fine
<1>9. InOrder'
  BY <1>1, <1>2, <1>3, <1>4 DEF InOrder, Preparing
<1>10. PaysTheNodeAsked' /\ NotSentUnpaid'
  BY <1>1, <1>2, <1>4, <1>5 DEF PaysTheNodeAsked, NotSentUnpaid, Sending
<1> QED BY <1>6, <1>7, <1>8, <1>9, <1>10 DEF PayInv

\* Every step keeps the invariant.
LEMMA PayStep ==
  ASSUME PayInv, [PayNext]_payVars
  PROVE  PayInv'
<1>1. CASE GetCost
  <2>1. /\ payId = Null /\ payNodes' \in WithNodes /\ ChoosePaymentId
        /\ UNCHANGED <<paid, operated, fee, maximum, payments, askPc, making,
                       asking, tries, explicit, overlapped, interrupted>>
    BY <1>1 DEF GetCost
  <2>2. payId' \in Nat /\ payIds' \in Nat
    BY <2>1, IdChosen DEF PayInv
  <2> QED BY <2>1, <2>2, NodesSetKeep
<1>2. ASSUME NEW e \in Asker, ExecuteRefused(e) PROVE PayInv'
  <2>1. /\ payId = Null /\ payNodes' \in WithNodes
        /\ UNCHANGED <<payId, payIds>>
        /\ UNCHANGED <<paid, operated, fee, maximum, payments, askPc, making,
                       asking, tries, explicit, overlapped, interrupted>>
    BY <1>2 DEF ExecuteRefused
  <2>2. payId' \in Nat \cup {Null} /\ payIds' \in Nat
    BY <2>1 DEF PayInv, PayTyped
  <2> QED BY <2>1, <2>2, NodesSetKeep
<1>3. ASSUME NEW e \in Asker, CostFails(e) PROVE PayInv'
  <2>1. /\ askPc[e] = "costing" /\ askPc' = [askPc EXCEPT ![e] = "idle"]
        /\ UNCHANGED <<paid, operated, payNodes, payId, payIds, fee, maximum,
                       payments, making, asking, tries, explicit, overlapped,
                       interrupted>>
    BY <1>3 DEF CostFails
  <2> QED BY <2>1, GivesUpKeeps
<1>4. CASE UNCHANGED payVars
  <2>1. UNCHANGED <<paid, operated, payNodes, payId, payIds, fee, maximum,
                    payments, askPc, making, asking, tries, asks, explicit,
                    overlapped, interrupted>>
    BY <1>4 DEF payVars
  <2>2. PayTyped' /\ Prepared' /\ Listed' /\ OneId'
    BY <2>1 DEF PayInv, PayTyped, Prepared, Listed, OneId, Looping, Sending,
       Preparing
  <2>3. Affordable' /\ InOrder'
    BY <2>1 DEF PayInv, Affordable, Fine, InOrder, Preparing
  <2>4. PaysTheNodeAsked' /\ NotSentUnpaid'
    BY <2>1 DEF PayInv, PaysTheNodeAsked, NotSentUnpaid, Sending
  <2> QED BY <2>2, <2>3, <2>4 DEF PayInv
<1> QED BY <1>1, <1>2, <1>3, <1>4, ExecutePaidKeeps, ExecuteUnpaidKeeps,
           CostAnsweredKeeps, PayKeeps, PayFailsKeeps, MakeRequestKeeps,
           SendRequestKeeps, RespondedKeeps DEF PayNext

\* A payment goes with the request to the node that it pays, unless two
\* execute() of the query prepared at the same time.
THEOREM PaymentCorrect == PaySpec => []PaysTheNodeAsked
<1>1. PayInv => PaysTheNodeAsked
  BY DEF PayInv
<1> QED BY <1>1, PayStart, PayStep, PTL DEF PaySpec

\* A query that must be paid for is not sent without payment, unless calls
\* overlapped or a signer failed half-way.
THEOREM PaidCorrect == PaySpec => []NotSentUnpaid
<1>1. PayInv => NotSentUnpaid
  BY DEF PayInv
<1> QED BY <1>1, PayStart, PayStep, PTL DEF PaySpec

\* No payment is above the maximum, as long as the amounts fit the integers
\* that they are compared as.
THEOREM MaximumCorrect == PaySpec => []WithinMaximum
<1>1. PayInv => WithinMaximum
  BY DEF PayInv, Affordable, Fine, WithinMaximum
<1> QED BY <1>1, PayStart, PayStep, PTL DEF PaySpec

\* All payments of a query have one ID, however often it is executed and
\* however the calls overlap.
THEOREM ChargeCorrect == PaySpec => []ChargedOnce
<1>1. PayInv => ChargedOnce
  <2> SUFFICES ASSUME PayInv PROVE ChargedOnce
    OBVIOUS
  <2> DEFINE used == {payments[i].id : i \in DOMAIN payments}
  <2>1. used \subseteq {payId}
    BY DEF PayInv, OneId
  <2>2. IsFiniteSet({payId}) /\ Cardinality({payId}) = 1
    BY FS_Singleton
  <2>3. Cardinality(used) <= Cardinality({payId})
    <3> HIDE DEF used
    <3> QED BY <2>1, <2>2, FS_Subset
  <2> QED BY <2>2, <2>3 DEF ChargedOnce
<1> QED BY <1>1, PayStart, PayStep, PTL DEF PaySpec

-----------------------------------------------------------------------------
(* What is asked: the facts about a class of queries *)

QueryFields(c) == DOMAIN NewQuery(c, NoEffect)

(* The fields that make a difference to the request. *)
Asked(c) == Settable(c) \ Of(Unasked, c)

(* The constructor has all fields of the class, and leaves empty those that *)
(* are asked for and were not given.                                        *)
BuildsQuery(c) ==
    /\ \A p : DOMAIN NewQuery(c, p) = QueryFields(c)
    /\ \A f \in Asked(c) : NewQuery(c, NoEffect)[f] = Null

(* The setter of a field that is asked for writes it, with its checksum if   *)
(* the check looks at it; that of another field writes none of them. IDs    *)
(* are checked but for UncheckedIds.                                        *)
SetsQuery(c) ==
    /\ CheckedQuery(c) \subseteq Asked(c)
    /\ Settable(c) \cap Identifiers
         \subseteq CheckedQuery(c) \cup Of(UncheckedIds, c)
    /\ \A f \in Settable(c) : \A v :
         LET set == SetQuery(c, f, v) IN
         /\ f \in Asked(c) => set.field = f /\ set.value \in {v, Id(v)}
         /\ f \in CheckedQuery(c) => set.value = v
         /\ f \notin Asked(c) => set.field \notin Asked(c)

(* A field that is set makes another request than one that is not, and is   *)
(* set in the object that the bytes give back.                              *)
AsksQuery(c) ==
    \A q : DOMAIN q = QueryFields(c) =>
      \A f \in Asked(c) : q[f] \in {1, Foreign} =>
        LET n == NewQuery(c, FromQuery(c, Request(c, q))) IN
        /\ Request(c, q) # Request(c, [q EXCEPT ![f] = Null])
        /\ f \notin Of(Forgotten, c) => n[f] \in {1, Foreign}

(* No checksum comes back from the bytes. *)
DropsChecksums(c) ==
    \A q : \A f \in CheckedQuery(c) :
      NewQuery(c, FromQuery(c, Request(c, q)))[f] # Foreign

(* QUERY_REGISTRY: the class that fromBytes() takes for a member.           *)
ClassOfQuery ==
    [cryptogetAccountBalance |-> "AccountBalance",
     cryptoGetInfo |-> "AccountInfo",
     cryptoGetAccountRecords |-> "AccountRecords",
     cryptoGetProxyStakers |-> "AccountStakers",
     cryptoGetLiveHash |-> "LiveHash",
     contractGetBytecode |-> "ContractByteCode",
     contractCallLocal |-> "ContractCall",
     contractGetInfo |-> "ContractInfo", fileGetContents |-> "FileContents",
     fileGetInfo |-> "FileInfo",
     networkGetVersionInfo |-> "NetworkVersionInfo",
     scheduleGetInfo |-> "ScheduleInfo", tokenGetInfo |-> "TokenInfo",
     tokenGetNftInfo |-> "TokenNftInfo",
     consensusGetTopicInfo |-> "TopicInfo",
     transactionGetReceipt |-> "TransactionReceipt",
     transactionGetRecord |-> "TransactionRecord"]

(* The answer is read where the node puts it, and the member of the request *)
(* tells the class.                                                         *)
AnswersQuery(c) ==
    /\ ClassOfQuery[Exchange(c).request] = c
    /\ Exchange(c).header = ResponseMember(Exchange(c).request)
    /\ Exchange(c).answer # "TypeError"

Truthful(c) ==
    /\ BuildsQuery(c) /\ SetsQuery(c) /\ AsksQuery(c)
    /\ DropsChecksums(c) /\ AnswersQuery(c)

(* AccountBalanceQuery. *)
LEMMA AccountBalanceTruthful == Truthful("AccountBalance")
<1>1. /\ \A p : NewQuery("AccountBalance", p) = AccountBalanceQueryNew(p)
      /\ \A q : Request("AccountBalance", q) = AccountBalanceQueryRequest(q)
      /\ \A r : FromQuery("AccountBalance", r) = AccountBalanceQueryFrom(r)
      /\ Exchange("AccountBalance") = AccountBalanceQueryExchange
      /\ CheckedQuery("AccountBalance") = {"accountId", "contractId"}
      /\ \A f, v : 
           SetQuery("AccountBalance", f, v) = AccountBalanceQuerySet(f, v)
  BY DEF NewQuery, Request, FromQuery, Exchange, CheckedQuery, SetQuery,
      AccountBalanceQueryChecked
<1>2. \A p : DOMAIN AccountBalanceQueryNew(p) =
                {"accountId", "contractId"}
  BY DEF AccountBalanceQueryNew, Constructed
<1>3. /\ QueryFields("AccountBalance") =
           {"accountId", "contractId"}
      /\ Settable("AccountBalance") =
           {"accountId", "contractId"}
      /\ Asked("AccountBalance") = {"accountId", "contractId"}
      /\ Of(UncheckedIds, "AccountBalance") = {}
      /\ Of(Forgotten, "AccountBalance") = {}
  BY <1>1, <1>2
    DEF QueryFields, Settable, Asked, Of, Unasked, UncheckedIds, Forgotten
<1>4. BuildsQuery("AccountBalance")
  <2>1. \A f \in {"accountId", "contractId"} :
          AccountBalanceQueryNew(NoEffect)[f] = Null
    BY DEF AccountBalanceQueryNew, Constructed, NoEffect
  <2> QED
    BY <1>1, <1>2, <1>3, <2>1 DEF BuildsQuery
<1>5. SetsQuery("AccountBalance")
  BY <1>1, <1>3 DEF SetsQuery, Identifiers, AccountBalanceQuerySet
<1>6. ASSUME NEW q, DOMAIN q = {"accountId", "contractId"},
             NEW f \in {"accountId", "contractId"},
             q[f] \in {1, Foreign}
      PROVE  AccountBalanceQueryRequest(q) #
               AccountBalanceQueryRequest([q EXCEPT ![f] = Null])
  <2>1. CASE f = "accountId"
    BY <1>6, <2>1, NullAssumption DEF AccountBalanceQueryRequest, Id, Scalar,
      Foreign
  <2>2. CASE f = "contractId"
    BY <1>6, <2>2, NullAssumption DEF AccountBalanceQueryRequest, Id, Scalar,
      Foreign
  <2> QED
    BY <2>1, <2>2
<1>7. ASSUME NEW q, DOMAIN q = {"accountId", "contractId"},
             NEW f \in {"accountId", "contractId"},
             q[f] \in {1, Foreign},
             NEW r, r = AccountBalanceQueryRequest(q),
             NEW n, n = AccountBalanceQueryNew(AccountBalanceQueryFrom(r))
      PROVE  f \in {"accountId", "contractId"} => n[f] \in {1, Foreign}
  BY <1>7, NullAssumption DEF AccountBalanceQueryRequest,
      AccountBalanceQueryFrom, AccountBalanceQueryNew, Constructed, Id,
      Scalar, Foreign
<1>8. AsksQuery("AccountBalance")
  <2>1. ASSUME NEW q, DOMAIN q = QueryFields("AccountBalance"),
               NEW f \in Asked("AccountBalance"), q[f] \in {1, Foreign},
               NEW r, r = Request("AccountBalance", q),
               NEW n,
               n = NewQuery("AccountBalance", FromQuery("AccountBalance", r))
        PROVE  /\ r # Request("AccountBalance", [q EXCEPT ![f] = Null])
               /\ f \notin Of(Forgotten, "AccountBalance") =>
                    n[f] \in {1, Foreign}
    <3>1. /\ r = AccountBalanceQueryRequest(q)
          /\ n = AccountBalanceQueryNew(AccountBalanceQueryFrom(r))
      BY <1>1, <2>1
    <3>2. r # Request("AccountBalance", [q EXCEPT ![f] = Null])
      BY <1>1, <1>3, <1>6, <2>1, <3>1
    <3> QED
      BY <1>1, <1>3, <1>7, <2>1, <3>1, <3>2
  <2> QED
    BY <2>1, Zenon DEF AsksQuery
<1>9. DropsChecksums("AccountBalance")
  <2>1. ASSUME NEW q, NEW f \in {"accountId", "contractId"},
               NEW r, r = AccountBalanceQueryRequest(q),
               NEW n, n = AccountBalanceQueryNew(AccountBalanceQueryFrom(r))
        PROVE  n[f] # Foreign
    BY <2>1, NullAssumption DEF AccountBalanceQueryRequest,
      AccountBalanceQueryFrom, AccountBalanceQueryNew, Constructed, Id,
      Foreign
  <2> QED
    BY <1>1, <2>1 DEF DropsChecksums
<1>10. AnswersQuery("AccountBalance")
  BY <1>1 DEF AnswersQuery, AccountBalanceQueryExchange, ResponseMember,
      ClassOfQuery
<1> QED
  BY <1>4, <1>5, <1>8, <1>9, <1>10 DEF Truthful

(* AccountInfoQuery. *)
LEMMA AccountInfoTruthful == Truthful("AccountInfo")
<1>1. /\ \A p : NewQuery("AccountInfo", p) = AccountInfoQueryNew(p)
      /\ \A q : Request("AccountInfo", q) = AccountInfoQueryRequest(q)
      /\ \A r : FromQuery("AccountInfo", r) = AccountInfoQueryFrom(r)
      /\ Exchange("AccountInfo") = AccountInfoQueryExchange
      /\ CheckedQuery("AccountInfo") = {"accountId"}
      /\ \A f, v : 
           SetQuery("AccountInfo", f, v) = AccountInfoQuerySet(f, v)
  BY DEF NewQuery, Request, FromQuery, Exchange, CheckedQuery, SetQuery,
      AccountInfoQueryChecked
<1>2. \A p : DOMAIN AccountInfoQueryNew(p) =
                {"accountId"}
  BY DEF AccountInfoQueryNew, Constructed
<1>3. /\ QueryFields("AccountInfo") =
           {"accountId"}
      /\ Settable("AccountInfo") =
           {"accountId"}
      /\ Asked("AccountInfo") = {"accountId"}
      /\ Of(UncheckedIds, "AccountInfo") = {}
      /\ Of(Forgotten, "AccountInfo") = {}
  BY <1>1, <1>2
    DEF QueryFields, Settable, Asked, Of, Unasked, UncheckedIds, Forgotten
<1>4. BuildsQuery("AccountInfo")
  <2>1. \A f \in {"accountId"} :
          AccountInfoQueryNew(NoEffect)[f] = Null
    BY DEF AccountInfoQueryNew, Constructed, NoEffect
  <2> QED
    BY <1>1, <1>2, <1>3, <2>1 DEF BuildsQuery
<1>5. SetsQuery("AccountInfo")
  BY <1>1, <1>3 DEF SetsQuery, Identifiers, AccountInfoQuerySet
<1>6. ASSUME NEW q, DOMAIN q = {"accountId"},
             NEW f \in {"accountId"},
             q[f] \in {1, Foreign}
      PROVE  AccountInfoQueryRequest(q) #
               AccountInfoQueryRequest([q EXCEPT ![f] = Null])
  BY <1>6, NullAssumption DEF AccountInfoQueryRequest, Id, Scalar, Foreign
<1>7. ASSUME NEW q, DOMAIN q = {"accountId"},
             NEW f \in {"accountId"},
             q[f] \in {1, Foreign},
             NEW r, r = AccountInfoQueryRequest(q),
             NEW n, n = AccountInfoQueryNew(AccountInfoQueryFrom(r))
      PROVE  f \in {"accountId"} => n[f] \in {1, Foreign}
  BY <1>7, NullAssumption DEF AccountInfoQueryRequest, AccountInfoQueryFrom,
      AccountInfoQueryNew, Constructed, Id, Scalar, Foreign
<1>8. AsksQuery("AccountInfo")
  <2>1. ASSUME NEW q, DOMAIN q = QueryFields("AccountInfo"),
               NEW f \in Asked("AccountInfo"), q[f] \in {1, Foreign},
               NEW r, r = Request("AccountInfo", q),
               NEW n,
               n = NewQuery("AccountInfo", FromQuery("AccountInfo", r))
        PROVE  /\ r # Request("AccountInfo", [q EXCEPT ![f] = Null])
               /\ f \notin Of(Forgotten, "AccountInfo") =>
                    n[f] \in {1, Foreign}
    <3>1. /\ r = AccountInfoQueryRequest(q)
          /\ n = AccountInfoQueryNew(AccountInfoQueryFrom(r))
      BY <1>1, <2>1
    <3>2. r # Request("AccountInfo", [q EXCEPT ![f] = Null])
      BY <1>1, <1>3, <1>6, <2>1, <3>1
    <3> QED
      BY <1>1, <1>3, <1>7, <2>1, <3>1, <3>2
  <2> QED
    BY <2>1, Zenon DEF AsksQuery
<1>9. DropsChecksums("AccountInfo")
  <2>1. ASSUME NEW q, NEW f \in {"accountId"},
               NEW r, r = AccountInfoQueryRequest(q),
               NEW n, n = AccountInfoQueryNew(AccountInfoQueryFrom(r))
        PROVE  n[f] # Foreign
    BY <2>1, NullAssumption DEF AccountInfoQueryRequest, AccountInfoQueryFrom,
      AccountInfoQueryNew, Constructed, Id, Foreign
  <2> QED
    BY <1>1, <2>1 DEF DropsChecksums
<1>10. AnswersQuery("AccountInfo")
  BY <1>1 DEF AnswersQuery, AccountInfoQueryExchange, ResponseMember,
      ClassOfQuery
<1> QED
  BY <1>4, <1>5, <1>8, <1>9, <1>10 DEF Truthful

(* AccountRecordsQuery. *)
LEMMA AccountRecordsTruthful == Truthful("AccountRecords")
<1>1. /\ \A p : NewQuery("AccountRecords", p) = AccountRecordsQueryNew(p)
      /\ \A q : Request("AccountRecords", q) = AccountRecordsQueryRequest(q)
      /\ \A r : FromQuery("AccountRecords", r) = AccountRecordsQueryFrom(r)
      /\ Exchange("AccountRecords") = AccountRecordsQueryExchange
      /\ CheckedQuery("AccountRecords") = {"accountId"}
      /\ \A f, v : 
           SetQuery("AccountRecords", f, v) = AccountRecordsQuerySet(f, v)
  BY DEF NewQuery, Request, FromQuery, Exchange, CheckedQuery, SetQuery,
      AccountRecordsQueryChecked
<1>2. \A p : DOMAIN AccountRecordsQueryNew(p) =
                {"accountId"}
  BY DEF AccountRecordsQueryNew, Constructed
<1>3. /\ QueryFields("AccountRecords") =
           {"accountId"}
      /\ Settable("AccountRecords") =
           {"accountId"}
      /\ Asked("AccountRecords") = {"accountId"}
      /\ Of(UncheckedIds, "AccountRecords") = {}
      /\ Of(Forgotten, "AccountRecords") = {}
  BY <1>1, <1>2
    DEF QueryFields, Settable, Asked, Of, Unasked, UncheckedIds, Forgotten
<1>4. BuildsQuery("AccountRecords")
  <2>1. \A f \in {"accountId"} :
          AccountRecordsQueryNew(NoEffect)[f] = Null
    BY DEF AccountRecordsQueryNew, Constructed, NoEffect
  <2> QED
    BY <1>1, <1>2, <1>3, <2>1 DEF BuildsQuery
<1>5. SetsQuery("AccountRecords")
  BY <1>1, <1>3 DEF SetsQuery, Identifiers, AccountRecordsQuerySet
<1>6. ASSUME NEW q, DOMAIN q = {"accountId"},
             NEW f \in {"accountId"},
             q[f] \in {1, Foreign}
      PROVE  AccountRecordsQueryRequest(q) #
               AccountRecordsQueryRequest([q EXCEPT ![f] = Null])
  BY <1>6, NullAssumption DEF AccountRecordsQueryRequest, Id, Scalar, Foreign
<1>7. ASSUME NEW q, DOMAIN q = {"accountId"},
             NEW f \in {"accountId"},
             q[f] \in {1, Foreign},
             NEW r, r = AccountRecordsQueryRequest(q),
             NEW n, n = AccountRecordsQueryNew(AccountRecordsQueryFrom(r))
      PROVE  f \in {"accountId"} => n[f] \in {1, Foreign}
  BY <1>7, NullAssumption DEF AccountRecordsQueryRequest,
      AccountRecordsQueryFrom, AccountRecordsQueryNew, Constructed, Id,
      Scalar, Foreign
<1>8. AsksQuery("AccountRecords")
  <2>1. ASSUME NEW q, DOMAIN q = QueryFields("AccountRecords"),
               NEW f \in Asked("AccountRecords"), q[f] \in {1, Foreign},
               NEW r, r = Request("AccountRecords", q),
               NEW n,
               n = NewQuery("AccountRecords", FromQuery("AccountRecords", r))
        PROVE  /\ r # Request("AccountRecords", [q EXCEPT ![f] = Null])
               /\ f \notin Of(Forgotten, "AccountRecords") =>
                    n[f] \in {1, Foreign}
    <3>1. /\ r = AccountRecordsQueryRequest(q)
          /\ n = AccountRecordsQueryNew(AccountRecordsQueryFrom(r))
      BY <1>1, <2>1
    <3>2. r # Request("AccountRecords", [q EXCEPT ![f] = Null])
      BY <1>1, <1>3, <1>6, <2>1, <3>1
    <3> QED
      BY <1>1, <1>3, <1>7, <2>1, <3>1, <3>2
  <2> QED
    BY <2>1, Zenon DEF AsksQuery
<1>9. DropsChecksums("AccountRecords")
  <2>1. ASSUME NEW q, NEW f \in {"accountId"},
               NEW r, r = AccountRecordsQueryRequest(q),
               NEW n, n = AccountRecordsQueryNew(AccountRecordsQueryFrom(r))
        PROVE  n[f] # Foreign
    BY <2>1, NullAssumption DEF AccountRecordsQueryRequest,
      AccountRecordsQueryFrom, AccountRecordsQueryNew, Constructed, Id,
      Foreign
  <2> QED
    BY <1>1, <2>1 DEF DropsChecksums
<1>10. AnswersQuery("AccountRecords")
  BY <1>1 DEF AnswersQuery, AccountRecordsQueryExchange, ResponseMember,
      ClassOfQuery
<1> QED
  BY <1>4, <1>5, <1>8, <1>9, <1>10 DEF Truthful

(* AccountStakersQuery. *)
LEMMA AccountStakersTruthful == Truthful("AccountStakers")
<1>1. /\ \A p : NewQuery("AccountStakers", p) = AccountStakersQueryNew(p)
      /\ \A q : Request("AccountStakers", q) = AccountStakersQueryRequest(q)
      /\ \A r : FromQuery("AccountStakers", r) = AccountStakersQueryFrom(r)
      /\ Exchange("AccountStakers") = AccountStakersQueryExchange
      /\ CheckedQuery("AccountStakers") = {"accountId"}
      /\ \A f, v : 
           SetQuery("AccountStakers", f, v) = AccountStakersQuerySet(f, v)
  BY DEF NewQuery, Request, FromQuery, Exchange, CheckedQuery, SetQuery,
      AccountStakersQueryChecked
<1>2. \A p : DOMAIN AccountStakersQueryNew(p) =
                {"accountId"}
  BY DEF AccountStakersQueryNew, Constructed
<1>3. /\ QueryFields("AccountStakers") =
           {"accountId"}
      /\ Settable("AccountStakers") =
           {"accountId"}
      /\ Asked("AccountStakers") = {"accountId"}
      /\ Of(UncheckedIds, "AccountStakers") = {}
      /\ Of(Forgotten, "AccountStakers") = {}
  BY <1>1, <1>2
    DEF QueryFields, Settable, Asked, Of, Unasked, UncheckedIds, Forgotten
<1>4. BuildsQuery("AccountStakers")
  <2>1. \A f \in {"accountId"} :
          AccountStakersQueryNew(NoEffect)[f] = Null
    BY DEF AccountStakersQueryNew, Constructed, NoEffect
  <2> QED
    BY <1>1, <1>2, <1>3, <2>1 DEF BuildsQuery
<1>5. SetsQuery("AccountStakers")
  BY <1>1, <1>3 DEF SetsQuery, Identifiers, AccountStakersQuerySet
<1>6. ASSUME NEW q, DOMAIN q = {"accountId"},
             NEW f \in {"accountId"},
             q[f] \in {1, Foreign}
      PROVE  AccountStakersQueryRequest(q) #
               AccountStakersQueryRequest([q EXCEPT ![f] = Null])
  BY <1>6, NullAssumption DEF AccountStakersQueryRequest, Id, Scalar, Foreign
<1>7. ASSUME NEW q, DOMAIN q = {"accountId"},
             NEW f \in {"accountId"},
             q[f] \in {1, Foreign},
             NEW r, r = AccountStakersQueryRequest(q),
             NEW n, n = AccountStakersQueryNew(AccountStakersQueryFrom(r))
      PROVE  f \in {"accountId"} => n[f] \in {1, Foreign}
  BY <1>7, NullAssumption DEF AccountStakersQueryRequest,
      AccountStakersQueryFrom, AccountStakersQueryNew, Constructed, Id,
      Scalar, Foreign
<1>8. AsksQuery("AccountStakers")
  <2>1. ASSUME NEW q, DOMAIN q = QueryFields("AccountStakers"),
               NEW f \in Asked("AccountStakers"), q[f] \in {1, Foreign},
               NEW r, r = Request("AccountStakers", q),
               NEW n,
               n = NewQuery("AccountStakers", FromQuery("AccountStakers", r))
        PROVE  /\ r # Request("AccountStakers", [q EXCEPT ![f] = Null])
               /\ f \notin Of(Forgotten, "AccountStakers") =>
                    n[f] \in {1, Foreign}
    <3>1. /\ r = AccountStakersQueryRequest(q)
          /\ n = AccountStakersQueryNew(AccountStakersQueryFrom(r))
      BY <1>1, <2>1
    <3>2. r # Request("AccountStakers", [q EXCEPT ![f] = Null])
      BY <1>1, <1>3, <1>6, <2>1, <3>1
    <3> QED
      BY <1>1, <1>3, <1>7, <2>1, <3>1, <3>2
  <2> QED
    BY <2>1, Zenon DEF AsksQuery
<1>9. DropsChecksums("AccountStakers")
  <2>1. ASSUME NEW q, NEW f \in {"accountId"},
               NEW r, r = AccountStakersQueryRequest(q),
               NEW n, n = AccountStakersQueryNew(AccountStakersQueryFrom(r))
        PROVE  n[f] # Foreign
    BY <2>1, NullAssumption DEF AccountStakersQueryRequest,
      AccountStakersQueryFrom, AccountStakersQueryNew, Constructed, Id,
      Foreign
  <2> QED
    BY <1>1, <2>1 DEF DropsChecksums
<1>10. AnswersQuery("AccountStakers")
  BY <1>1 DEF AnswersQuery, AccountStakersQueryExchange, ResponseMember,
      ClassOfQuery
<1> QED
  BY <1>4, <1>5, <1>8, <1>9, <1>10 DEF Truthful

(* LiveHashQuery. *)
LEMMA LiveHashTruthful == Truthful("LiveHash")
<1>1. /\ \A p : NewQuery("LiveHash", p) = LiveHashQueryNew(p)
      /\ \A q : Request("LiveHash", q) = LiveHashQueryRequest(q)
      /\ \A r : FromQuery("LiveHash", r) = LiveHashQueryFrom(r)
      /\ Exchange("LiveHash") = LiveHashQueryExchange
      /\ CheckedQuery("LiveHash") = {"accountId"}
      /\ \A f, v : 
           SetQuery("LiveHash", f, v) = LiveHashQuerySet(f, v)
  BY DEF NewQuery, Request, FromQuery, Exchange, CheckedQuery, SetQuery,
      LiveHashQueryChecked
<1>2. \A p : DOMAIN LiveHashQueryNew(p) =
                {"accountId", "hash"}
  BY DEF LiveHashQueryNew, Constructed
<1>3. /\ QueryFields("LiveHash") =
           {"accountId", "hash"}
      /\ Settable("LiveHash") =
           {"accountId", "hash"}
      /\ Asked("LiveHash") = {"accountId", "hash"}
      /\ Of(UncheckedIds, "LiveHash") = {}
      /\ Of(Forgotten, "LiveHash") = {}
  BY <1>1, <1>2
    DEF QueryFields, Settable, Asked, Of, Unasked, UncheckedIds, Forgotten
<1>4. BuildsQuery("LiveHash")
  <2>1. \A f \in {"accountId", "hash"} :
          LiveHashQueryNew(NoEffect)[f] = Null
    BY DEF LiveHashQueryNew, Constructed, NoEffect
  <2> QED
    BY <1>1, <1>2, <1>3, <2>1 DEF BuildsQuery
<1>5. SetsQuery("LiveHash")
  BY <1>1, <1>3 DEF SetsQuery, Identifiers, LiveHashQuerySet
<1>6. ASSUME NEW q, DOMAIN q = {"accountId", "hash"},
             NEW f \in {"accountId", "hash"},
             q[f] \in {1, Foreign}
      PROVE  LiveHashQueryRequest(q) #
               LiveHashQueryRequest([q EXCEPT ![f] = Null])
  <2>1. CASE f = "accountId"
    BY <1>6, <2>1, NullAssumption DEF LiveHashQueryRequest, Id, Scalar,
      Foreign
  <2>2. CASE f = "hash"
    BY <1>6, <2>2, NullAssumption DEF LiveHashQueryRequest, Id, Scalar,
      Foreign
  <2> QED
    BY <2>1, <2>2
<1>7. ASSUME NEW q, DOMAIN q = {"accountId", "hash"},
             NEW f \in {"accountId", "hash"},
             q[f] \in {1, Foreign},
             NEW r, r = LiveHashQueryRequest(q),
             NEW n, n = LiveHashQueryNew(LiveHashQueryFrom(r))
      PROVE  f \in {"accountId", "hash"} => n[f] \in {1, Foreign}
  BY <1>7, NullAssumption DEF LiveHashQueryRequest, LiveHashQueryFrom,
      LiveHashQueryNew, Constructed, Id, Scalar, Foreign
<1>8. AsksQuery("LiveHash")
  <2>1. ASSUME NEW q, DOMAIN q = QueryFields("LiveHash"),
               NEW f \in Asked("LiveHash"), q[f] \in {1, Foreign},
               NEW r, r = Request("LiveHash", q),
               NEW n,
               n = NewQuery("LiveHash", FromQuery("LiveHash", r))
        PROVE  /\ r # Request("LiveHash", [q EXCEPT ![f] = Null])
               /\ f \notin Of(Forgotten, "LiveHash") =>
                    n[f] \in {1, Foreign}
    <3>1. /\ r = LiveHashQueryRequest(q)
          /\ n = LiveHashQueryNew(LiveHashQueryFrom(r))
      BY <1>1, <2>1
    <3>2. r # Request("LiveHash", [q EXCEPT ![f] = Null])
      BY <1>1, <1>3, <1>6, <2>1, <3>1
    <3> QED
      BY <1>1, <1>3, <1>7, <2>1, <3>1, <3>2
  <2> QED
    BY <2>1, Zenon DEF AsksQuery
<1>9. DropsChecksums("LiveHash")
  <2>1. ASSUME NEW q, NEW f \in {"accountId"},
               NEW r, r = LiveHashQueryRequest(q),
               NEW n, n = LiveHashQueryNew(LiveHashQueryFrom(r))
        PROVE  n[f] # Foreign
    BY <2>1, NullAssumption DEF LiveHashQueryRequest, LiveHashQueryFrom,
      LiveHashQueryNew, Constructed, Id, Foreign
  <2> QED
    BY <1>1, <2>1 DEF DropsChecksums
<1>10. AnswersQuery("LiveHash")
  BY <1>1 DEF AnswersQuery, LiveHashQueryExchange, ResponseMember,
      ClassOfQuery
<1> QED
  BY <1>4, <1>5, <1>8, <1>9, <1>10 DEF Truthful

(* ContractByteCodeQuery. *)
LEMMA ContractByteCodeTruthful == Truthful("ContractByteCode")
<1>1. /\ \A p : NewQuery("ContractByteCode", p) = ContractByteCodeQueryNew(p)
      /\ \A q : Request("ContractByteCode", q) = ContractByteCodeQueryRequest(q)
      /\ \A r : FromQuery("ContractByteCode", r) = ContractByteCodeQueryFrom(r)
      /\ Exchange("ContractByteCode") = ContractByteCodeQueryExchange
      /\ CheckedQuery("ContractByteCode") = {"contractId"}
      /\ \A f, v : 
           SetQuery("ContractByteCode", f, v) = ContractByteCodeQuerySet(f, v)
  BY DEF NewQuery, Request, FromQuery, Exchange, CheckedQuery, SetQuery,
      ContractByteCodeQueryChecked
<1>2. \A p : DOMAIN ContractByteCodeQueryNew(p) =
                {"contractId"}
  BY DEF ContractByteCodeQueryNew, Constructed
<1>3. /\ QueryFields("ContractByteCode") =
           {"contractId"}
      /\ Settable("ContractByteCode") =
           {"contractId"}
      /\ Asked("ContractByteCode") = {"contractId"}
      /\ Of(UncheckedIds, "ContractByteCode") = {}
      /\ Of(Forgotten, "ContractByteCode") = {}
  BY <1>1, <1>2
    DEF QueryFields, Settable, Asked, Of, Unasked, UncheckedIds, Forgotten
<1>4. BuildsQuery("ContractByteCode")
  <2>1. \A f \in {"contractId"} :
          ContractByteCodeQueryNew(NoEffect)[f] = Null
    BY DEF ContractByteCodeQueryNew, Constructed, NoEffect
  <2> QED
    BY <1>1, <1>2, <1>3, <2>1 DEF BuildsQuery
<1>5. SetsQuery("ContractByteCode")
  BY <1>1, <1>3 DEF SetsQuery, Identifiers, ContractByteCodeQuerySet
<1>6. ASSUME NEW q, DOMAIN q = {"contractId"},
             NEW f \in {"contractId"},
             q[f] \in {1, Foreign}
      PROVE  ContractByteCodeQueryRequest(q) #
               ContractByteCodeQueryRequest([q EXCEPT ![f] = Null])
  BY <1>6, NullAssumption DEF ContractByteCodeQueryRequest, Id, Scalar,
      Foreign
<1>7. ASSUME NEW q, DOMAIN q = {"contractId"},
             NEW f \in {"contractId"},
             q[f] \in {1, Foreign},
             NEW r, r = ContractByteCodeQueryRequest(q),
             NEW n, n = ContractByteCodeQueryNew(ContractByteCodeQueryFrom(r))
      PROVE  f \in {"contractId"} => n[f] \in {1, Foreign}
  BY <1>7, NullAssumption DEF ContractByteCodeQueryRequest,
      ContractByteCodeQueryFrom, ContractByteCodeQueryNew, Constructed, Id,
      Scalar, Foreign
<1>8. AsksQuery("ContractByteCode")
  <2>1. ASSUME NEW q, DOMAIN q = QueryFields("ContractByteCode"),
               NEW f \in Asked("ContractByteCode"), q[f] \in {1, Foreign},
               NEW r, r = Request("ContractByteCode", q),
               NEW n,
               n = NewQuery("ContractByteCode", FromQuery("ContractByteCode", r))
        PROVE  /\ r # Request("ContractByteCode", [q EXCEPT ![f] = Null])
               /\ f \notin Of(Forgotten, "ContractByteCode") =>
                    n[f] \in {1, Foreign}
    <3>1. /\ r = ContractByteCodeQueryRequest(q)
          /\ n = ContractByteCodeQueryNew(ContractByteCodeQueryFrom(r))
      BY <1>1, <2>1
    <3>2. r # Request("ContractByteCode", [q EXCEPT ![f] = Null])
      BY <1>1, <1>3, <1>6, <2>1, <3>1
    <3> QED
      BY <1>1, <1>3, <1>7, <2>1, <3>1, <3>2
  <2> QED
    BY <2>1, Zenon DEF AsksQuery
<1>9. DropsChecksums("ContractByteCode")
  <2>1. ASSUME NEW q, NEW f \in {"contractId"},
               NEW r, r = ContractByteCodeQueryRequest(q),
               NEW n, n = ContractByteCodeQueryNew(ContractByteCodeQueryFrom(r))
        PROVE  n[f] # Foreign
    BY <2>1, NullAssumption DEF ContractByteCodeQueryRequest,
      ContractByteCodeQueryFrom, ContractByteCodeQueryNew, Constructed, Id,
      Foreign
  <2> QED
    BY <1>1, <2>1 DEF DropsChecksums
<1>10. AnswersQuery("ContractByteCode")
  BY <1>1 DEF AnswersQuery, ContractByteCodeQueryExchange, ResponseMember,
      ClassOfQuery
<1> QED
  BY <1>4, <1>5, <1>8, <1>9, <1>10 DEF Truthful

(* ContractCallQuery. *)
LEMMA ContractCallTruthful == Truthful("ContractCall")
<1>1. /\ \A p : NewQuery("ContractCall", p) = ContractCallQueryNew(p)
      /\ \A q : Request("ContractCall", q) = ContractCallQueryRequest(q)
      /\ \A r : FromQuery("ContractCall", r) = ContractCallQueryFrom(r)
      /\ Exchange("ContractCall") = ContractCallQueryExchange
      /\ CheckedQuery("ContractCall") = {"contractId"}
      /\ \A f, v : 
           SetQuery("ContractCall", f, v) = ContractCallQuerySet(f, v)
  BY DEF NewQuery, Request, FromQuery, Exchange, CheckedQuery, SetQuery,
      ContractCallQueryChecked
<1>2. \A p : DOMAIN ContractCallQueryNew(p) =
                {"contractId", "gas", "functionParameters", "maxResultSize",
                 "senderAccountId"}
  BY DEF ContractCallQueryNew, Constructed
<1>3. /\ QueryFields("ContractCall") =
           {"contractId", "gas", "functionParameters", "maxResultSize",
            "senderAccountId"}
      /\ Settable("ContractCall") =
           {"contractId", "gas", "functionParameters", "maxResultSize",
            "senderAccountId"}
      /\ Asked("ContractCall") = {"contractId", "gas", "functionParameters",
                                 "maxResultSize", "senderAccountId"}
      /\ Of(UncheckedIds, "ContractCall") = {"senderAccountId"}
      /\ Of(Forgotten, "ContractCall") = {"senderAccountId"}
  BY <1>1, <1>2
    DEF QueryFields, Settable, Asked, Of, Unasked, UncheckedIds, Forgotten
<1>4. BuildsQuery("ContractCall")
  <2>1. \A f \in {"contractId", "gas", "functionParameters",
                     "maxResultSize", "senderAccountId"} :
          ContractCallQueryNew(NoEffect)[f] = Null
    BY DEF ContractCallQueryNew, Constructed, NoEffect
  <2> QED
    BY <1>1, <1>2, <1>3, <2>1 DEF BuildsQuery
<1>5. SetsQuery("ContractCall")
  BY <1>1, <1>3 DEF SetsQuery, Identifiers, ContractCallQuerySet
<1>6. ASSUME NEW q, DOMAIN q = {"contractId", "gas", "functionParameters",
                                  "maxResultSize", "senderAccountId"},
             NEW f \in {"contractId", "gas", "functionParameters",
                        "maxResultSize", "senderAccountId"},
             q[f] \in {1, Foreign}
      PROVE  ContractCallQueryRequest(q) #
               ContractCallQueryRequest([q EXCEPT ![f] = Null])
  <2>1. CASE f = "contractId"
    BY <1>6, <2>1, NullAssumption DEF ContractCallQueryRequest, Id, Scalar,
      Foreign
  <2>2. CASE f = "gas"
    BY <1>6, <2>2, NullAssumption DEF ContractCallQueryRequest, Id, Scalar,
      Foreign
  <2>3. CASE f = "functionParameters"
    BY <1>6, <2>3, NullAssumption DEF ContractCallQueryRequest, Id, Scalar,
      Foreign
  <2>4. CASE f = "maxResultSize"
    BY <1>6, <2>4, NullAssumption DEF ContractCallQueryRequest, Id, Scalar,
      Foreign
  <2>5. CASE f = "senderAccountId"
    BY <1>6, <2>5, NullAssumption DEF ContractCallQueryRequest, Id, Scalar,
      Foreign
  <2> QED
    BY <2>1, <2>2, <2>3, <2>4, <2>5
<1>7. ASSUME NEW q, DOMAIN q = {"contractId", "gas", "functionParameters",
                                  "maxResultSize", "senderAccountId"},
             NEW f \in {"contractId", "gas", "functionParameters",
                        "maxResultSize", "senderAccountId"},
             q[f] \in {1, Foreign},
             NEW r, r = ContractCallQueryRequest(q),
             NEW n, n = ContractCallQueryNew(ContractCallQueryFrom(r))
      PROVE  f \in {"contractId", "gas", "functionParameters",
                     "maxResultSize"} => n[f] \in {1, Foreign}
  BY <1>7, NullAssumption DEF ContractCallQueryRequest, ContractCallQueryFrom,
      ContractCallQueryNew, Constructed, Id, Scalar, Foreign
<1>8. AsksQuery("ContractCall")
  <2>1. ASSUME NEW q, DOMAIN q = QueryFields("ContractCall"),
               NEW f \in Asked("ContractCall"), q[f] \in {1, Foreign},
               NEW r, r = Request("ContractCall", q),
               NEW n,
               n = NewQuery("ContractCall", FromQuery("ContractCall", r))
        PROVE  /\ r # Request("ContractCall", [q EXCEPT ![f] = Null])
               /\ f \notin Of(Forgotten, "ContractCall") =>
                    n[f] \in {1, Foreign}
    <3>1. /\ r = ContractCallQueryRequest(q)
          /\ n = ContractCallQueryNew(ContractCallQueryFrom(r))
      BY <1>1, <2>1
    <3>2. r # Request("ContractCall", [q EXCEPT ![f] = Null])
      <4>1. DOMAIN q = {"contractId", "gas", "functionParameters",
                        "maxResultSize", "senderAccountId"}
        BY <1>3, <2>1
      <4>2. f \in {"contractId", "gas", "functionParameters",
                   "maxResultSize", "senderAccountId"}
        BY <1>3, <2>1
      <4>3. r # ContractCallQueryRequest([q EXCEPT ![f] = Null])
        BY <1>6, <2>1, <3>1, <4>1, <4>2
      <4> QED
        BY <1>1, <4>3
    <3> QED
      BY <1>1, <1>3, <1>7, <2>1, <3>1, <3>2
  <2> QED
    BY <2>1, Zenon DEF AsksQuery
<1>9. DropsChecksums("ContractCall")
  <2>1. ASSUME NEW q, NEW f \in {"contractId"},
               NEW r, r = ContractCallQueryRequest(q),
               NEW n, n = ContractCallQueryNew(ContractCallQueryFrom(r))
        PROVE  n[f] # Foreign
    BY <2>1, NullAssumption DEF ContractCallQueryRequest,
      ContractCallQueryFrom, ContractCallQueryNew, Constructed, Id, Foreign
  <2> QED
    BY <1>1, <2>1 DEF DropsChecksums
<1>10. AnswersQuery("ContractCall")
  BY <1>1 DEF AnswersQuery, ContractCallQueryExchange, ResponseMember,
      ClassOfQuery
<1> QED
  BY <1>4, <1>5, <1>8, <1>9, <1>10 DEF Truthful

(* ContractInfoQuery. *)
LEMMA ContractInfoTruthful == Truthful("ContractInfo")
<1>1. /\ \A p : NewQuery("ContractInfo", p) = ContractInfoQueryNew(p)
      /\ \A q : Request("ContractInfo", q) = ContractInfoQueryRequest(q)
      /\ \A r : FromQuery("ContractInfo", r) = ContractInfoQueryFrom(r)
      /\ Exchange("ContractInfo") = ContractInfoQueryExchange
      /\ CheckedQuery("ContractInfo") = {"contractId"}
      /\ \A f, v : 
           SetQuery("ContractInfo", f, v) = ContractInfoQuerySet(f, v)
  BY DEF NewQuery, Request, FromQuery, Exchange, CheckedQuery, SetQuery,
      ContractInfoQueryChecked
<1>2. \A p : DOMAIN ContractInfoQueryNew(p) =
                {"contractId"}
  BY DEF ContractInfoQueryNew, Constructed
<1>3. /\ QueryFields("ContractInfo") =
           {"contractId"}
      /\ Settable("ContractInfo") =
           {"contractId"}
      /\ Asked("ContractInfo") = {"contractId"}
      /\ Of(UncheckedIds, "ContractInfo") = {}
      /\ Of(Forgotten, "ContractInfo") = {}
  BY <1>1, <1>2
    DEF QueryFields, Settable, Asked, Of, Unasked, UncheckedIds, Forgotten
<1>4. BuildsQuery("ContractInfo")
  <2>1. \A f \in {"contractId"} :
          ContractInfoQueryNew(NoEffect)[f] = Null
    BY DEF ContractInfoQueryNew, Constructed, NoEffect
  <2> QED
    BY <1>1, <1>2, <1>3, <2>1 DEF BuildsQuery
<1>5. SetsQuery("ContractInfo")
  BY <1>1, <1>3 DEF SetsQuery, Identifiers, ContractInfoQuerySet
<1>6. ASSUME NEW q, DOMAIN q = {"contractId"},
             NEW f \in {"contractId"},
             q[f] \in {1, Foreign}
      PROVE  ContractInfoQueryRequest(q) #
               ContractInfoQueryRequest([q EXCEPT ![f] = Null])
  BY <1>6, NullAssumption DEF ContractInfoQueryRequest, Id, Scalar, Foreign
<1>7. ASSUME NEW q, DOMAIN q = {"contractId"},
             NEW f \in {"contractId"},
             q[f] \in {1, Foreign},
             NEW r, r = ContractInfoQueryRequest(q),
             NEW n, n = ContractInfoQueryNew(ContractInfoQueryFrom(r))
      PROVE  f \in {"contractId"} => n[f] \in {1, Foreign}
  BY <1>7, NullAssumption DEF ContractInfoQueryRequest, ContractInfoQueryFrom,
      ContractInfoQueryNew, Constructed, Id, Scalar, Foreign
<1>8. AsksQuery("ContractInfo")
  <2>1. ASSUME NEW q, DOMAIN q = QueryFields("ContractInfo"),
               NEW f \in Asked("ContractInfo"), q[f] \in {1, Foreign},
               NEW r, r = Request("ContractInfo", q),
               NEW n,
               n = NewQuery("ContractInfo", FromQuery("ContractInfo", r))
        PROVE  /\ r # Request("ContractInfo", [q EXCEPT ![f] = Null])
               /\ f \notin Of(Forgotten, "ContractInfo") =>
                    n[f] \in {1, Foreign}
    <3>1. /\ r = ContractInfoQueryRequest(q)
          /\ n = ContractInfoQueryNew(ContractInfoQueryFrom(r))
      BY <1>1, <2>1
    <3>2. r # Request("ContractInfo", [q EXCEPT ![f] = Null])
      BY <1>1, <1>3, <1>6, <2>1, <3>1
    <3> QED
      BY <1>1, <1>3, <1>7, <2>1, <3>1, <3>2
  <2> QED
    BY <2>1, Zenon DEF AsksQuery
<1>9. DropsChecksums("ContractInfo")
  <2>1. ASSUME NEW q, NEW f \in {"contractId"},
               NEW r, r = ContractInfoQueryRequest(q),
               NEW n, n = ContractInfoQueryNew(ContractInfoQueryFrom(r))
        PROVE  n[f] # Foreign
    BY <2>1, NullAssumption DEF ContractInfoQueryRequest,
      ContractInfoQueryFrom, ContractInfoQueryNew, Constructed, Id, Foreign
  <2> QED
    BY <1>1, <2>1 DEF DropsChecksums
<1>10. AnswersQuery("ContractInfo")
  BY <1>1 DEF AnswersQuery, ContractInfoQueryExchange, ResponseMember,
      ClassOfQuery
<1> QED
  BY <1>4, <1>5, <1>8, <1>9, <1>10 DEF Truthful

(* FileContentsQuery. *)
LEMMA FileContentsTruthful == Truthful("FileContents")
<1>1. /\ \A p : NewQuery("FileContents", p) = FileContentsQueryNew(p)
      /\ \A q : Request("FileContents", q) = FileContentsQueryRequest(q)
      /\ \A r : FromQuery("FileContents", r) = FileContentsQueryFrom(r)
      /\ Exchange("FileContents") = FileContentsQueryExchange
      /\ CheckedQuery("FileContents") = {"fileId"}
      /\ \A f, v : 
           SetQuery("FileContents", f, v) = FileContentsQuerySet(f, v)
  BY DEF NewQuery, Request, FromQuery, Exchange, CheckedQuery, SetQuery,
      FileContentsQueryChecked
<1>2. \A p : DOMAIN FileContentsQueryNew(p) =
                {"fileId"}
  BY DEF FileContentsQueryNew, Constructed
<1>3. /\ QueryFields("FileContents") =
           {"fileId"}
      /\ Settable("FileContents") =
           {"fileId"}
      /\ Asked("FileContents") = {"fileId"}
      /\ Of(UncheckedIds, "FileContents") = {}
      /\ Of(Forgotten, "FileContents") = {}
  BY <1>1, <1>2
    DEF QueryFields, Settable, Asked, Of, Unasked, UncheckedIds, Forgotten
<1>4. BuildsQuery("FileContents")
  <2>1. \A f \in {"fileId"} :
          FileContentsQueryNew(NoEffect)[f] = Null
    BY DEF FileContentsQueryNew, Constructed, NoEffect
  <2> QED
    BY <1>1, <1>2, <1>3, <2>1 DEF BuildsQuery
<1>5. SetsQuery("FileContents")
  BY <1>1, <1>3 DEF SetsQuery, Identifiers, FileContentsQuerySet
<1>6. ASSUME NEW q, DOMAIN q = {"fileId"},
             NEW f \in {"fileId"},
             q[f] \in {1, Foreign}
      PROVE  FileContentsQueryRequest(q) #
               FileContentsQueryRequest([q EXCEPT ![f] = Null])
  BY <1>6, NullAssumption DEF FileContentsQueryRequest, Id, Scalar, Foreign
<1>7. ASSUME NEW q, DOMAIN q = {"fileId"},
             NEW f \in {"fileId"},
             q[f] \in {1, Foreign},
             NEW r, r = FileContentsQueryRequest(q),
             NEW n, n = FileContentsQueryNew(FileContentsQueryFrom(r))
      PROVE  f \in {"fileId"} => n[f] \in {1, Foreign}
  BY <1>7, NullAssumption DEF FileContentsQueryRequest, FileContentsQueryFrom,
      FileContentsQueryNew, Constructed, Id, Scalar, Foreign
<1>8. AsksQuery("FileContents")
  <2>1. ASSUME NEW q, DOMAIN q = QueryFields("FileContents"),
               NEW f \in Asked("FileContents"), q[f] \in {1, Foreign},
               NEW r, r = Request("FileContents", q),
               NEW n,
               n = NewQuery("FileContents", FromQuery("FileContents", r))
        PROVE  /\ r # Request("FileContents", [q EXCEPT ![f] = Null])
               /\ f \notin Of(Forgotten, "FileContents") =>
                    n[f] \in {1, Foreign}
    <3>1. /\ r = FileContentsQueryRequest(q)
          /\ n = FileContentsQueryNew(FileContentsQueryFrom(r))
      BY <1>1, <2>1
    <3>2. r # Request("FileContents", [q EXCEPT ![f] = Null])
      BY <1>1, <1>3, <1>6, <2>1, <3>1
    <3> QED
      BY <1>1, <1>3, <1>7, <2>1, <3>1, <3>2
  <2> QED
    BY <2>1, Zenon DEF AsksQuery
<1>9. DropsChecksums("FileContents")
  <2>1. ASSUME NEW q, NEW f \in {"fileId"},
               NEW r, r = FileContentsQueryRequest(q),
               NEW n, n = FileContentsQueryNew(FileContentsQueryFrom(r))
        PROVE  n[f] # Foreign
    BY <2>1, NullAssumption DEF FileContentsQueryRequest,
      FileContentsQueryFrom, FileContentsQueryNew, Constructed, Id, Foreign
  <2> QED
    BY <1>1, <2>1 DEF DropsChecksums
<1>10. AnswersQuery("FileContents")
  BY <1>1 DEF AnswersQuery, FileContentsQueryExchange, ResponseMember,
      ClassOfQuery
<1> QED
  BY <1>4, <1>5, <1>8, <1>9, <1>10 DEF Truthful

(* FileInfoQuery. *)
LEMMA FileInfoTruthful == Truthful("FileInfo")
<1>1. /\ \A p : NewQuery("FileInfo", p) = FileInfoQueryNew(p)
      /\ \A q : Request("FileInfo", q) = FileInfoQueryRequest(q)
      /\ \A r : FromQuery("FileInfo", r) = FileInfoQueryFrom(r)
      /\ Exchange("FileInfo") = FileInfoQueryExchange
      /\ CheckedQuery("FileInfo") = {"fileId"}
      /\ \A f, v : 
           SetQuery("FileInfo", f, v) = FileInfoQuerySet(f, v)
  BY DEF NewQuery, Request, FromQuery, Exchange, CheckedQuery, SetQuery,
      FileInfoQueryChecked
<1>2. \A p : DOMAIN FileInfoQueryNew(p) =
                {"fileId"}
  BY DEF FileInfoQueryNew, Constructed
<1>3. /\ QueryFields("FileInfo") =
           {"fileId"}
      /\ Settable("FileInfo") =
           {"fileId"}
      /\ Asked("FileInfo") = {"fileId"}
      /\ Of(UncheckedIds, "FileInfo") = {}
      /\ Of(Forgotten, "FileInfo") = {}
  BY <1>1, <1>2
    DEF QueryFields, Settable, Asked, Of, Unasked, UncheckedIds, Forgotten
<1>4. BuildsQuery("FileInfo")
  <2>1. \A f \in {"fileId"} :
          FileInfoQueryNew(NoEffect)[f] = Null
    BY DEF FileInfoQueryNew, Constructed, NoEffect
  <2> QED
    BY <1>1, <1>2, <1>3, <2>1 DEF BuildsQuery
<1>5. SetsQuery("FileInfo")
  BY <1>1, <1>3 DEF SetsQuery, Identifiers, FileInfoQuerySet
<1>6. ASSUME NEW q, DOMAIN q = {"fileId"},
             NEW f \in {"fileId"},
             q[f] \in {1, Foreign}
      PROVE  FileInfoQueryRequest(q) #
               FileInfoQueryRequest([q EXCEPT ![f] = Null])
  BY <1>6, NullAssumption DEF FileInfoQueryRequest, Id, Scalar, Foreign
<1>7. ASSUME NEW q, DOMAIN q = {"fileId"},
             NEW f \in {"fileId"},
             q[f] \in {1, Foreign},
             NEW r, r = FileInfoQueryRequest(q),
             NEW n, n = FileInfoQueryNew(FileInfoQueryFrom(r))
      PROVE  f \in {"fileId"} => n[f] \in {1, Foreign}
  BY <1>7, NullAssumption DEF FileInfoQueryRequest, FileInfoQueryFrom,
      FileInfoQueryNew, Constructed, Id, Scalar, Foreign
<1>8. AsksQuery("FileInfo")
  <2>1. ASSUME NEW q, DOMAIN q = QueryFields("FileInfo"),
               NEW f \in Asked("FileInfo"), q[f] \in {1, Foreign},
               NEW r, r = Request("FileInfo", q),
               NEW n,
               n = NewQuery("FileInfo", FromQuery("FileInfo", r))
        PROVE  /\ r # Request("FileInfo", [q EXCEPT ![f] = Null])
               /\ f \notin Of(Forgotten, "FileInfo") =>
                    n[f] \in {1, Foreign}
    <3>1. /\ r = FileInfoQueryRequest(q)
          /\ n = FileInfoQueryNew(FileInfoQueryFrom(r))
      BY <1>1, <2>1
    <3>2. r # Request("FileInfo", [q EXCEPT ![f] = Null])
      BY <1>1, <1>3, <1>6, <2>1, <3>1
    <3> QED
      BY <1>1, <1>3, <1>7, <2>1, <3>1, <3>2
  <2> QED
    BY <2>1, Zenon DEF AsksQuery
<1>9. DropsChecksums("FileInfo")
  <2>1. ASSUME NEW q, NEW f \in {"fileId"},
               NEW r, r = FileInfoQueryRequest(q),
               NEW n, n = FileInfoQueryNew(FileInfoQueryFrom(r))
        PROVE  n[f] # Foreign
    BY <2>1, NullAssumption DEF FileInfoQueryRequest, FileInfoQueryFrom,
      FileInfoQueryNew, Constructed, Id, Foreign
  <2> QED
    BY <1>1, <2>1 DEF DropsChecksums
<1>10. AnswersQuery("FileInfo")
  BY <1>1 DEF AnswersQuery, FileInfoQueryExchange, ResponseMember,
      ClassOfQuery
<1> QED
  BY <1>4, <1>5, <1>8, <1>9, <1>10 DEF Truthful

(* NetworkVersionInfoQuery. *)
LEMMA NetworkVersionInfoTruthful == Truthful("NetworkVersionInfo")
<1>1. /\ \A p : NewQuery("NetworkVersionInfo", p) = NetworkVersionInfoQueryNew(p)
      /\ \A q : Request("NetworkVersionInfo", q) = NetworkVersionInfoQueryRequest(q)
      /\ \A r : FromQuery("NetworkVersionInfo", r) = NetworkVersionInfoQueryFrom(r)
      /\ Exchange("NetworkVersionInfo") = NetworkVersionInfoQueryExchange
      /\ CheckedQuery("NetworkVersionInfo") = {}
  BY DEF NewQuery, Request, FromQuery, Exchange, CheckedQuery
<1>2. \A p : DOMAIN NetworkVersionInfoQueryNew(p) =
                {}
  BY DEF NetworkVersionInfoQueryNew, Constructed
<1>3. /\ QueryFields("NetworkVersionInfo") =
           {}
      /\ Settable("NetworkVersionInfo") =
           {}
      /\ Asked("NetworkVersionInfo") = {}
      /\ Of(UncheckedIds, "NetworkVersionInfo") = {}
      /\ Of(Forgotten, "NetworkVersionInfo") = {}
  BY <1>1, <1>2
    DEF QueryFields, Settable, Asked, Of, Unasked, UncheckedIds, Forgotten
<1>4. BuildsQuery("NetworkVersionInfo")
  BY <1>1, <1>2, <1>3 DEF BuildsQuery
<1>5. SetsQuery("NetworkVersionInfo")
  BY <1>1, <1>3 DEF SetsQuery, Identifiers
<1>8. AsksQuery("NetworkVersionInfo")
  BY <1>3 DEF AsksQuery
<1>9. DropsChecksums("NetworkVersionInfo")
  BY <1>1 DEF DropsChecksums
<1>10. AnswersQuery("NetworkVersionInfo")
  BY <1>1 DEF AnswersQuery, NetworkVersionInfoQueryExchange, ResponseMember,
      ClassOfQuery
<1> QED
  BY <1>4, <1>5, <1>8, <1>9, <1>10 DEF Truthful

(* ScheduleInfoQuery. *)
LEMMA ScheduleInfoTruthful == Truthful("ScheduleInfo")
<1>1. /\ \A p : NewQuery("ScheduleInfo", p) = ScheduleInfoQueryNew(p)
      /\ \A q : Request("ScheduleInfo", q) = ScheduleInfoQueryRequest(q)
      /\ \A r : FromQuery("ScheduleInfo", r) = ScheduleInfoQueryFrom(r)
      /\ Exchange("ScheduleInfo") = ScheduleInfoQueryExchange
      /\ CheckedQuery("ScheduleInfo") = {"scheduleId"}
      /\ \A f, v : 
           SetQuery("ScheduleInfo", f, v) = ScheduleInfoQuerySet(f, v)
  BY DEF NewQuery, Request, FromQuery, Exchange, CheckedQuery, SetQuery,
      ScheduleInfoQueryChecked
<1>2. \A p : DOMAIN ScheduleInfoQueryNew(p) =
                {"scheduleId"}
  BY DEF ScheduleInfoQueryNew, Constructed
<1>3. /\ QueryFields("ScheduleInfo") =
           {"scheduleId"}
      /\ Settable("ScheduleInfo") =
           {"scheduleId"}
      /\ Asked("ScheduleInfo") = {"scheduleId"}
      /\ Of(UncheckedIds, "ScheduleInfo") = {}
      /\ Of(Forgotten, "ScheduleInfo") = {}
  BY <1>1, <1>2
    DEF QueryFields, Settable, Asked, Of, Unasked, UncheckedIds, Forgotten
<1>4. BuildsQuery("ScheduleInfo")
  <2>1. \A f \in {"scheduleId"} :
          ScheduleInfoQueryNew(NoEffect)[f] = Null
    BY DEF ScheduleInfoQueryNew, Constructed, NoEffect
  <2> QED
    BY <1>1, <1>2, <1>3, <2>1 DEF BuildsQuery
<1>5. SetsQuery("ScheduleInfo")
  BY <1>1, <1>3 DEF SetsQuery, Identifiers, ScheduleInfoQuerySet
<1>6. ASSUME NEW q, DOMAIN q = {"scheduleId"},
             NEW f \in {"scheduleId"},
             q[f] \in {1, Foreign}
      PROVE  ScheduleInfoQueryRequest(q) #
               ScheduleInfoQueryRequest([q EXCEPT ![f] = Null])
  BY <1>6, NullAssumption DEF ScheduleInfoQueryRequest, Id, Scalar, Foreign
<1>7. ASSUME NEW q, DOMAIN q = {"scheduleId"},
             NEW f \in {"scheduleId"},
             q[f] \in {1, Foreign},
             NEW r, r = ScheduleInfoQueryRequest(q),
             NEW n, n = ScheduleInfoQueryNew(ScheduleInfoQueryFrom(r))
      PROVE  f \in {"scheduleId"} => n[f] \in {1, Foreign}
  BY <1>7, NullAssumption DEF ScheduleInfoQueryRequest, ScheduleInfoQueryFrom,
      ScheduleInfoQueryNew, Constructed, Id, Scalar, Foreign
<1>8. AsksQuery("ScheduleInfo")
  <2>1. ASSUME NEW q, DOMAIN q = QueryFields("ScheduleInfo"),
               NEW f \in Asked("ScheduleInfo"), q[f] \in {1, Foreign},
               NEW r, r = Request("ScheduleInfo", q),
               NEW n,
               n = NewQuery("ScheduleInfo", FromQuery("ScheduleInfo", r))
        PROVE  /\ r # Request("ScheduleInfo", [q EXCEPT ![f] = Null])
               /\ f \notin Of(Forgotten, "ScheduleInfo") =>
                    n[f] \in {1, Foreign}
    <3>1. /\ r = ScheduleInfoQueryRequest(q)
          /\ n = ScheduleInfoQueryNew(ScheduleInfoQueryFrom(r))
      BY <1>1, <2>1
    <3>2. r # Request("ScheduleInfo", [q EXCEPT ![f] = Null])
      BY <1>1, <1>3, <1>6, <2>1, <3>1
    <3> QED
      BY <1>1, <1>3, <1>7, <2>1, <3>1, <3>2
  <2> QED
    BY <2>1, Zenon DEF AsksQuery
<1>9. DropsChecksums("ScheduleInfo")
  <2>1. ASSUME NEW q, NEW f \in {"scheduleId"},
               NEW r, r = ScheduleInfoQueryRequest(q),
               NEW n, n = ScheduleInfoQueryNew(ScheduleInfoQueryFrom(r))
        PROVE  n[f] # Foreign
    BY <2>1, NullAssumption DEF ScheduleInfoQueryRequest,
      ScheduleInfoQueryFrom, ScheduleInfoQueryNew, Constructed, Id, Foreign
  <2> QED
    BY <1>1, <2>1 DEF DropsChecksums
<1>10. AnswersQuery("ScheduleInfo")
  BY <1>1 DEF AnswersQuery, ScheduleInfoQueryExchange, ResponseMember,
      ClassOfQuery
<1> QED
  BY <1>4, <1>5, <1>8, <1>9, <1>10 DEF Truthful

(* TokenInfoQuery. *)
LEMMA TokenInfoTruthful == Truthful("TokenInfo")
<1>1. /\ \A p : NewQuery("TokenInfo", p) = TokenInfoQueryNew(p)
      /\ \A q : Request("TokenInfo", q) = TokenInfoQueryRequest(q)
      /\ \A r : FromQuery("TokenInfo", r) = TokenInfoQueryFrom(r)
      /\ Exchange("TokenInfo") = TokenInfoQueryExchange
      /\ CheckedQuery("TokenInfo") = {"tokenId"}
      /\ \A f, v : 
           SetQuery("TokenInfo", f, v) = TokenInfoQuerySet(f, v)
  BY DEF NewQuery, Request, FromQuery, Exchange, CheckedQuery, SetQuery,
      TokenInfoQueryChecked
<1>2. \A p : DOMAIN TokenInfoQueryNew(p) =
                {"tokenId"}
  BY DEF TokenInfoQueryNew, Constructed
<1>3. /\ QueryFields("TokenInfo") =
           {"tokenId"}
      /\ Settable("TokenInfo") =
           {"tokenId"}
      /\ Asked("TokenInfo") = {"tokenId"}
      /\ Of(UncheckedIds, "TokenInfo") = {}
      /\ Of(Forgotten, "TokenInfo") = {}
  BY <1>1, <1>2
    DEF QueryFields, Settable, Asked, Of, Unasked, UncheckedIds, Forgotten
<1>4. BuildsQuery("TokenInfo")
  <2>1. \A f \in {"tokenId"} :
          TokenInfoQueryNew(NoEffect)[f] = Null
    BY DEF TokenInfoQueryNew, Constructed, NoEffect
  <2> QED
    BY <1>1, <1>2, <1>3, <2>1 DEF BuildsQuery
<1>5. SetsQuery("TokenInfo")
  BY <1>1, <1>3 DEF SetsQuery, Identifiers, TokenInfoQuerySet
<1>6. ASSUME NEW q, DOMAIN q = {"tokenId"},
             NEW f \in {"tokenId"},
             q[f] \in {1, Foreign}
      PROVE  TokenInfoQueryRequest(q) #
               TokenInfoQueryRequest([q EXCEPT ![f] = Null])
  BY <1>6, NullAssumption DEF TokenInfoQueryRequest, Id, Scalar, Foreign
<1>7. ASSUME NEW q, DOMAIN q = {"tokenId"},
             NEW f \in {"tokenId"},
             q[f] \in {1, Foreign},
             NEW r, r = TokenInfoQueryRequest(q),
             NEW n, n = TokenInfoQueryNew(TokenInfoQueryFrom(r))
      PROVE  f \in {"tokenId"} => n[f] \in {1, Foreign}
  BY <1>7, NullAssumption DEF TokenInfoQueryRequest, TokenInfoQueryFrom,
      TokenInfoQueryNew, Constructed, Id, Scalar, Foreign
<1>8. AsksQuery("TokenInfo")
  <2>1. ASSUME NEW q, DOMAIN q = QueryFields("TokenInfo"),
               NEW f \in Asked("TokenInfo"), q[f] \in {1, Foreign},
               NEW r, r = Request("TokenInfo", q),
               NEW n,
               n = NewQuery("TokenInfo", FromQuery("TokenInfo", r))
        PROVE  /\ r # Request("TokenInfo", [q EXCEPT ![f] = Null])
               /\ f \notin Of(Forgotten, "TokenInfo") =>
                    n[f] \in {1, Foreign}
    <3>1. /\ r = TokenInfoQueryRequest(q)
          /\ n = TokenInfoQueryNew(TokenInfoQueryFrom(r))
      BY <1>1, <2>1
    <3>2. r # Request("TokenInfo", [q EXCEPT ![f] = Null])
      BY <1>1, <1>3, <1>6, <2>1, <3>1
    <3> QED
      BY <1>1, <1>3, <1>7, <2>1, <3>1, <3>2
  <2> QED
    BY <2>1, Zenon DEF AsksQuery
<1>9. DropsChecksums("TokenInfo")
  <2>1. ASSUME NEW q, NEW f \in {"tokenId"},
               NEW r, r = TokenInfoQueryRequest(q),
               NEW n, n = TokenInfoQueryNew(TokenInfoQueryFrom(r))
        PROVE  n[f] # Foreign
    BY <2>1, NullAssumption DEF TokenInfoQueryRequest, TokenInfoQueryFrom,
      TokenInfoQueryNew, Constructed, Id, Foreign
  <2> QED
    BY <1>1, <2>1 DEF DropsChecksums
<1>10. AnswersQuery("TokenInfo")
  BY <1>1 DEF AnswersQuery, TokenInfoQueryExchange, ResponseMember,
      ClassOfQuery
<1> QED
  BY <1>4, <1>5, <1>8, <1>9, <1>10 DEF Truthful

(* TokenNftInfoQuery. *)
LEMMA TokenNftInfoTruthful == Truthful("TokenNftInfo")
<1>1. /\ \A p : NewQuery("TokenNftInfo", p) = TokenNftInfoQueryNew(p)
      /\ \A q : Request("TokenNftInfo", q) = TokenNftInfoQueryRequest(q)
      /\ \A r : FromQuery("TokenNftInfo", r) = TokenNftInfoQueryFrom(r)
      /\ Exchange("TokenNftInfo") = TokenNftInfoQueryExchange
      /\ CheckedQuery("TokenNftInfo") = {}
      /\ \A f, v : 
           SetQuery("TokenNftInfo", f, v) = TokenNftInfoQuerySet(f, v)
  BY DEF NewQuery, Request, FromQuery, Exchange, CheckedQuery, SetQuery
<1>2. \A p : DOMAIN TokenNftInfoQueryNew(p) =
                {"nftId", "accountId", "tokenId", "start", "end"}
  BY DEF TokenNftInfoQueryNew, Constructed
<1>3. /\ QueryFields("TokenNftInfo") =
           {"nftId", "accountId", "tokenId", "start", "end"}
      /\ Settable("TokenNftInfo") =
           {"nftId", "accountId", "tokenId", "start", "end"}
      /\ Asked("TokenNftInfo") = {"nftId"}
      /\ Of(UncheckedIds, "TokenNftInfo") = {"nftId", "accountId", "tokenId"}
      /\ Of(Forgotten, "TokenNftInfo") = {}
  BY <1>1, <1>2
    DEF QueryFields, Settable, Asked, Of, Unasked, UncheckedIds, Forgotten
<1>4. BuildsQuery("TokenNftInfo")
  <2>1. \A f \in {"nftId"} :
          TokenNftInfoQueryNew(NoEffect)[f] = Null
    BY DEF TokenNftInfoQueryNew, Constructed, NoEffect
  <2> QED
    BY <1>1, <1>2, <1>3, <2>1 DEF BuildsQuery
<1>5. SetsQuery("TokenNftInfo")
  BY <1>1, <1>3 DEF SetsQuery, Identifiers, TokenNftInfoQuerySet
<1>6. ASSUME NEW q, DOMAIN q = {"nftId", "accountId", "tokenId", "start",
                                  "end"},
             NEW f \in {"nftId"},
             q[f] \in {1, Foreign}
      PROVE  TokenNftInfoQueryRequest(q) #
               TokenNftInfoQueryRequest([q EXCEPT ![f] = Null])
  BY <1>6, NullAssumption DEF TokenNftInfoQueryRequest, Id, Scalar, Foreign
<1>7. ASSUME NEW q, DOMAIN q = {"nftId", "accountId", "tokenId", "start",
                                  "end"},
             NEW f \in {"nftId"},
             q[f] \in {1, Foreign},
             NEW r, r = TokenNftInfoQueryRequest(q),
             NEW n, n = TokenNftInfoQueryNew(TokenNftInfoQueryFrom(r))
      PROVE  f \in {"nftId"} => n[f] \in {1, Foreign}
  BY <1>7, NullAssumption DEF TokenNftInfoQueryRequest, TokenNftInfoQueryFrom,
      TokenNftInfoQueryNew, Constructed, Id, Scalar, Foreign
<1>8. AsksQuery("TokenNftInfo")
  <2>1. ASSUME NEW q, DOMAIN q = QueryFields("TokenNftInfo"),
               NEW f \in Asked("TokenNftInfo"), q[f] \in {1, Foreign},
               NEW r, r = Request("TokenNftInfo", q),
               NEW n,
               n = NewQuery("TokenNftInfo", FromQuery("TokenNftInfo", r))
        PROVE  /\ r # Request("TokenNftInfo", [q EXCEPT ![f] = Null])
               /\ f \notin Of(Forgotten, "TokenNftInfo") =>
                    n[f] \in {1, Foreign}
    <3>1. /\ r = TokenNftInfoQueryRequest(q)
          /\ n = TokenNftInfoQueryNew(TokenNftInfoQueryFrom(r))
      BY <1>1, <2>1
    <3>2. r # Request("TokenNftInfo", [q EXCEPT ![f] = Null])
      BY <1>1, <1>3, <1>6, <2>1, <3>1
    <3> QED
      BY <1>1, <1>3, <1>7, <2>1, <3>1, <3>2
  <2> QED
    BY <2>1, Zenon DEF AsksQuery
<1>9. DropsChecksums("TokenNftInfo")
  BY <1>1 DEF DropsChecksums
<1>10. AnswersQuery("TokenNftInfo")
  BY <1>1 DEF AnswersQuery, TokenNftInfoQueryExchange, ResponseMember,
      ClassOfQuery
<1> QED
  BY <1>4, <1>5, <1>8, <1>9, <1>10 DEF Truthful

(* TopicInfoQuery. *)
LEMMA TopicInfoTruthful == Truthful("TopicInfo")
<1>1. /\ \A p : NewQuery("TopicInfo", p) = TopicInfoQueryNew(p)
      /\ \A q : Request("TopicInfo", q) = TopicInfoQueryRequest(q)
      /\ \A r : FromQuery("TopicInfo", r) = TopicInfoQueryFrom(r)
      /\ Exchange("TopicInfo") = TopicInfoQueryExchange
      /\ CheckedQuery("TopicInfo") = {"topicId"}
      /\ \A f, v : 
           SetQuery("TopicInfo", f, v) = TopicInfoQuerySet(f, v)
  BY DEF NewQuery, Request, FromQuery, Exchange, CheckedQuery, SetQuery,
      TopicInfoQueryChecked
<1>2. \A p : DOMAIN TopicInfoQueryNew(p) =
                {"topicId"}
  BY DEF TopicInfoQueryNew, Constructed
<1>3. /\ QueryFields("TopicInfo") =
           {"topicId"}
      /\ Settable("TopicInfo") =
           {"topicId"}
      /\ Asked("TopicInfo") = {"topicId"}
      /\ Of(UncheckedIds, "TopicInfo") = {}
      /\ Of(Forgotten, "TopicInfo") = {}
  BY <1>1, <1>2
    DEF QueryFields, Settable, Asked, Of, Unasked, UncheckedIds, Forgotten
<1>4. BuildsQuery("TopicInfo")
  <2>1. \A f \in {"topicId"} :
          TopicInfoQueryNew(NoEffect)[f] = Null
    BY DEF TopicInfoQueryNew, Constructed, NoEffect
  <2> QED
    BY <1>1, <1>2, <1>3, <2>1 DEF BuildsQuery
<1>5. SetsQuery("TopicInfo")
  BY <1>1, <1>3 DEF SetsQuery, Identifiers, TopicInfoQuerySet
<1>6. ASSUME NEW q, DOMAIN q = {"topicId"},
             NEW f \in {"topicId"},
             q[f] \in {1, Foreign}
      PROVE  TopicInfoQueryRequest(q) #
               TopicInfoQueryRequest([q EXCEPT ![f] = Null])
  BY <1>6, NullAssumption DEF TopicInfoQueryRequest, Id, Scalar, Foreign
<1>7. ASSUME NEW q, DOMAIN q = {"topicId"},
             NEW f \in {"topicId"},
             q[f] \in {1, Foreign},
             NEW r, r = TopicInfoQueryRequest(q),
             NEW n, n = TopicInfoQueryNew(TopicInfoQueryFrom(r))
      PROVE  f \in {"topicId"} => n[f] \in {1, Foreign}
  BY <1>7, NullAssumption DEF TopicInfoQueryRequest, TopicInfoQueryFrom,
      TopicInfoQueryNew, Constructed, Id, Scalar, Foreign
<1>8. AsksQuery("TopicInfo")
  <2>1. ASSUME NEW q, DOMAIN q = QueryFields("TopicInfo"),
               NEW f \in Asked("TopicInfo"), q[f] \in {1, Foreign},
               NEW r, r = Request("TopicInfo", q),
               NEW n,
               n = NewQuery("TopicInfo", FromQuery("TopicInfo", r))
        PROVE  /\ r # Request("TopicInfo", [q EXCEPT ![f] = Null])
               /\ f \notin Of(Forgotten, "TopicInfo") =>
                    n[f] \in {1, Foreign}
    <3>1. /\ r = TopicInfoQueryRequest(q)
          /\ n = TopicInfoQueryNew(TopicInfoQueryFrom(r))
      BY <1>1, <2>1
    <3>2. r # Request("TopicInfo", [q EXCEPT ![f] = Null])
      BY <1>1, <1>3, <1>6, <2>1, <3>1
    <3> QED
      BY <1>1, <1>3, <1>7, <2>1, <3>1, <3>2
  <2> QED
    BY <2>1, Zenon DEF AsksQuery
<1>9. DropsChecksums("TopicInfo")
  <2>1. ASSUME NEW q, NEW f \in {"topicId"},
               NEW r, r = TopicInfoQueryRequest(q),
               NEW n, n = TopicInfoQueryNew(TopicInfoQueryFrom(r))
        PROVE  n[f] # Foreign
    BY <2>1, NullAssumption DEF TopicInfoQueryRequest, TopicInfoQueryFrom,
      TopicInfoQueryNew, Constructed, Id, Foreign
  <2> QED
    BY <1>1, <2>1 DEF DropsChecksums
<1>10. AnswersQuery("TopicInfo")
  BY <1>1 DEF AnswersQuery, TopicInfoQueryExchange, ResponseMember,
      ClassOfQuery
<1> QED
  BY <1>4, <1>5, <1>8, <1>9, <1>10 DEF Truthful

(* TransactionReceiptQuery. *)
LEMMA TransactionReceiptTruthful == Truthful("TransactionReceipt")
<1>1. /\ \A p : NewQuery("TransactionReceipt", p) = TransactionReceiptQueryNew(p)
      /\ \A q : Request("TransactionReceipt", q) = TransactionReceiptQueryRequest(q)
      /\ \A r : FromQuery("TransactionReceipt", r) = TransactionReceiptQueryFrom(r)
      /\ Exchange("TransactionReceipt") = TransactionReceiptQueryExchange
      /\ CheckedQuery("TransactionReceipt") = {"transactionId"}
      /\ \A f, v : 
           SetQuery("TransactionReceipt", f, v) = TransactionReceiptQuerySet(f, v)
  BY DEF NewQuery, Request, FromQuery, Exchange, CheckedQuery, SetQuery,
      TransactionReceiptQueryChecked
<1>2. \A p : DOMAIN TransactionReceiptQueryNew(p) =
                {"transactionId", "includeChildren", "includeDuplicates",
                 "validateStatus"}
  BY DEF TransactionReceiptQueryNew, Constructed
<1>3. /\ QueryFields("TransactionReceipt") =
           {"transactionId", "includeChildren", "includeDuplicates",
            "validateStatus"}
      /\ Settable("TransactionReceipt") =
           {"transactionId", "includeChildren", "includeDuplicates",
            "validateStatus"}
      /\ Asked("TransactionReceipt") = {"transactionId", "includeChildren",
                                       "includeDuplicates"}
      /\ Of(UncheckedIds, "TransactionReceipt") = {}
      /\ Of(Forgotten, "TransactionReceipt") = {}
  BY <1>1, <1>2
    DEF QueryFields, Settable, Asked, Of, Unasked, UncheckedIds, Forgotten
<1>4. BuildsQuery("TransactionReceipt")
  <2>1. \A f \in {"transactionId", "includeChildren", "includeDuplicates"} :
          TransactionReceiptQueryNew(NoEffect)[f] = Null
    BY DEF TransactionReceiptQueryNew, Constructed, NoEffect
  <2> QED
    BY <1>1, <1>2, <1>3, <2>1 DEF BuildsQuery
<1>5. SetsQuery("TransactionReceipt")
  BY <1>1, <1>3 DEF SetsQuery, Identifiers, TransactionReceiptQuerySet
<1>6. ASSUME NEW q, DOMAIN q = {"transactionId", "includeChildren",
                                  "includeDuplicates", "validateStatus"},
             NEW f \in {"transactionId", "includeChildren",
                        "includeDuplicates"},
             q[f] \in {1, Foreign}
      PROVE  TransactionReceiptQueryRequest(q) #
               TransactionReceiptQueryRequest([q EXCEPT ![f] = Null])
  <2>1. CASE f = "transactionId"
    BY <1>6, <2>1, NullAssumption DEF TransactionReceiptQueryRequest, Id,
      Scalar, Foreign
  <2>2. CASE f = "includeChildren"
    BY <1>6, <2>2, NullAssumption DEF TransactionReceiptQueryRequest, Id,
      Scalar, Foreign
  <2>3. CASE f = "includeDuplicates"
    BY <1>6, <2>3, NullAssumption DEF TransactionReceiptQueryRequest, Id,
      Scalar, Foreign
  <2> QED
    BY <2>1, <2>2, <2>3
<1>7. ASSUME NEW q, DOMAIN q = {"transactionId", "includeChildren",
                                  "includeDuplicates", "validateStatus"},
             NEW f \in {"transactionId", "includeChildren",
                        "includeDuplicates"},
             q[f] \in {1, Foreign},
             NEW r, r = TransactionReceiptQueryRequest(q),
             NEW n, n = TransactionReceiptQueryNew(TransactionReceiptQueryFrom(r))
      PROVE  f \in {"transactionId", "includeChildren", "includeDuplicates"} => n[f] \in {1, Foreign}
  BY <1>7, NullAssumption DEF TransactionReceiptQueryRequest,
      TransactionReceiptQueryFrom, TransactionReceiptQueryNew, Constructed,
      Id, Scalar, Foreign
<1>8. AsksQuery("TransactionReceipt")
  <2>1. ASSUME NEW q, DOMAIN q = QueryFields("TransactionReceipt"),
               NEW f \in Asked("TransactionReceipt"), q[f] \in {1, Foreign},
               NEW r, r = Request("TransactionReceipt", q),
               NEW n,
               n = NewQuery("TransactionReceipt", FromQuery("TransactionReceipt", r))
        PROVE  /\ r # Request("TransactionReceipt", [q EXCEPT ![f] = Null])
               /\ f \notin Of(Forgotten, "TransactionReceipt") =>
                    n[f] \in {1, Foreign}
    <3>1. /\ r = TransactionReceiptQueryRequest(q)
          /\ n = TransactionReceiptQueryNew(TransactionReceiptQueryFrom(r))
      BY <1>1, <2>1
    <3>2. r # Request("TransactionReceipt", [q EXCEPT ![f] = Null])
      BY <1>1, <1>3, <1>6, <2>1, <3>1
    <3> QED
      BY <1>1, <1>3, <1>7, <2>1, <3>1, <3>2
  <2> QED
    BY <2>1, Zenon DEF AsksQuery
<1>9. DropsChecksums("TransactionReceipt")
  <2>1. ASSUME NEW q, NEW f \in {"transactionId"},
               NEW r, r = TransactionReceiptQueryRequest(q),
               NEW n, n = TransactionReceiptQueryNew(TransactionReceiptQueryFrom(r))
        PROVE  n[f] # Foreign
    BY <2>1, NullAssumption DEF TransactionReceiptQueryRequest,
      TransactionReceiptQueryFrom, TransactionReceiptQueryNew, Constructed,
      Id, Foreign
  <2> QED
    BY <1>1, <2>1 DEF DropsChecksums
<1>10. AnswersQuery("TransactionReceipt")
  BY <1>1 DEF AnswersQuery, TransactionReceiptQueryExchange, ResponseMember,
      ClassOfQuery
<1> QED
  BY <1>4, <1>5, <1>8, <1>9, <1>10 DEF Truthful

(* What the constructor of a record query does with the fields it is asked  *)
(* with.                                                                    *)
LEMMA RecordQueryConstructor ==
    ASSUME NEW p, NEW f \in {"transactionId", "includeChildren"}
    PROVE  TransactionRecordQueryNew(p)[f] =
             IF f \in DOMAIN p /\ p[f] # Null THEN p[f] ELSE Null
<1> DEFINE b == Constructed([transactionId |-> Null, includeChildren |-> Null,
                             includeDuplicates |-> Null, duplicates |-> Null,
                             validateReceiptStatus |-> 1], p)
<1>1. /\ f \in DOMAIN b
      /\ b[f] = IF f \in DOMAIN p /\ p[f] # Null THEN p[f] ELSE Null
  BY DEF Constructed
<1>2. TransactionRecordQueryNew(p) =
        [b EXCEPT !.duplicates = IF "includeDuplicates" \in DOMAIN p
                                 THEN p.includeDuplicates ELSE Null,
                  !.includeDuplicates = Null]
  BY DEF TransactionRecordQueryNew
<1> HIDE DEF b
<1> QED
  BY <1>1, <1>2

(* TransactionRecordQuery. *)
LEMMA TransactionRecordTruthful == Truthful("TransactionRecord")
<1>1. /\ \A p : NewQuery("TransactionRecord", p) = TransactionRecordQueryNew(p)
      /\ \A q : Request("TransactionRecord", q) = TransactionRecordQueryRequest(q)
      /\ \A r : FromQuery("TransactionRecord", r) = TransactionRecordQueryFrom(r)
      /\ Exchange("TransactionRecord") = TransactionRecordQueryExchange
      /\ CheckedQuery("TransactionRecord") = {"transactionId"}
      /\ \A f, v : 
           SetQuery("TransactionRecord", f, v) = TransactionRecordQuerySet(f, v)
  BY DEF NewQuery, Request, FromQuery, Exchange, CheckedQuery, SetQuery,
      TransactionRecordQueryChecked
<1>2. \A p : DOMAIN TransactionRecordQueryNew(p) =
                {"transactionId", "includeChildren", "includeDuplicates",
                 "duplicates", "validateReceiptStatus"}
  BY DEF TransactionRecordQueryNew, Constructed
<1>3. /\ QueryFields("TransactionRecord") =
           {"transactionId", "includeChildren", "includeDuplicates",
            "duplicates", "validateReceiptStatus"}
      /\ Settable("TransactionRecord") =
           {"transactionId", "includeChildren", "includeDuplicates",
            "validateReceiptStatus"}
      /\ Asked("TransactionRecord") = {"transactionId", "includeChildren"}
      /\ Of(UncheckedIds, "TransactionRecord") = {}
      /\ Of(Forgotten, "TransactionRecord") = {}
  BY <1>1, <1>2
    DEF QueryFields, Settable, Asked, Of, Unasked, UncheckedIds, Forgotten
<1>4. BuildsQuery("TransactionRecord")
  <2>1. \A f \in {"transactionId", "includeChildren"} :
          TransactionRecordQueryNew(NoEffect)[f] = Null
    BY RecordQueryConstructor DEF NoEffect
  <2> QED
    BY <1>1, <1>2, <1>3, <2>1 DEF BuildsQuery
<1>5. SetsQuery("TransactionRecord")
  BY <1>1, <1>3 DEF SetsQuery, Identifiers, TransactionRecordQuerySet
<1>6. ASSUME NEW q, DOMAIN q = {"transactionId", "includeChildren",
                                  "includeDuplicates", "duplicates",
                                  "validateReceiptStatus"},
             NEW f \in {"transactionId", "includeChildren"},
             q[f] \in {1, Foreign}
      PROVE  TransactionRecordQueryRequest(q) #
               TransactionRecordQueryRequest([q EXCEPT ![f] = Null])
  <2>1. CASE f = "transactionId"
    BY <1>6, <2>1, NullAssumption DEF TransactionRecordQueryRequest, Id,
      Scalar, Foreign
  <2>2. CASE f = "includeChildren"
    BY <1>6, <2>2, NullAssumption DEF TransactionRecordQueryRequest, Id,
      Scalar, Foreign
  <2> QED
    BY <2>1, <2>2
<1>7. ASSUME NEW q, DOMAIN q = {"transactionId", "includeChildren",
                                  "includeDuplicates", "duplicates",
                                  "validateReceiptStatus"},
             NEW f \in {"transactionId", "includeChildren"},
             q[f] \in {1, Foreign},
             NEW r, r = TransactionRecordQueryRequest(q),
             NEW n, n = TransactionRecordQueryNew(TransactionRecordQueryFrom(r))
      PROVE  f \in {"transactionId", "includeChildren"} => n[f] \in {1, Foreign}
  BY <1>7, NullAssumption, RecordQueryConstructor DEF
      TransactionRecordQueryRequest, TransactionRecordQueryFrom, Id, Scalar,
      Foreign
<1>8. AsksQuery("TransactionRecord")
  <2>1. ASSUME NEW q, DOMAIN q = QueryFields("TransactionRecord"),
               NEW f \in Asked("TransactionRecord"), q[f] \in {1, Foreign},
               NEW r, r = Request("TransactionRecord", q),
               NEW n,
               n = NewQuery("TransactionRecord", FromQuery("TransactionRecord", r))
        PROVE  /\ r # Request("TransactionRecord", [q EXCEPT ![f] = Null])
               /\ f \notin Of(Forgotten, "TransactionRecord") =>
                    n[f] \in {1, Foreign}
    <3>1. /\ r = TransactionRecordQueryRequest(q)
          /\ n = TransactionRecordQueryNew(TransactionRecordQueryFrom(r))
      BY <1>1, <2>1
    <3>2. r # Request("TransactionRecord", [q EXCEPT ![f] = Null])
      BY <1>1, <1>3, <1>6, <2>1, <3>1
    <3> QED
      BY <1>1, <1>3, <1>7, <2>1, <3>1, <3>2
  <2> QED
    BY <2>1, Zenon DEF AsksQuery
<1>9. DropsChecksums("TransactionRecord")
  <2>1. ASSUME NEW q, NEW f \in {"transactionId"},
               NEW r, r = TransactionRecordQueryRequest(q),
               NEW n, n = TransactionRecordQueryNew(TransactionRecordQueryFrom(r))
        PROVE  n[f] # Foreign
    BY <2>1, NullAssumption, RecordQueryConstructor DEF
      TransactionRecordQueryRequest, TransactionRecordQueryFrom, Id, Foreign
  <2> QED
    BY <1>1, <2>1 DEF DropsChecksums
<1>10. AnswersQuery("TransactionRecord")
  BY <1>1 DEF AnswersQuery, TransactionRecordQueryExchange, ResponseMember,
      ClassOfQuery
<1> QED
  BY <1>4, <1>5, <1>8, <1>9, <1>10 DEF Truthful

(* The facts hold for every class that is asked. *)
LEMMA QueriesTruthful == \A c \in QueryClasses : Truthful(c)
<1>1. \A c \in QueryRegistry : Truthful(c)
  BY AccountBalanceTruthful, AccountInfoTruthful, AccountRecordsTruthful,
      AccountStakersTruthful, LiveHashTruthful, ContractByteCodeTruthful,
      ContractCallTruthful, ContractInfoTruthful, FileContentsTruthful,
      FileInfoTruthful, NetworkVersionInfoTruthful, ScheduleInfoTruthful,
      TokenInfoTruthful, TokenNftInfoTruthful, TopicInfoTruthful,
      TransactionReceiptTruthful, TransactionRecordTruthful
    DEF QueryRegistry
<1> QED
  BY <1>1, QueryClassesAssumption

(* The fields of a balance query. *)
LEMMA AccountBalanceFields ==
    /\ QueryFields("AccountBalance") = {"accountId", "contractId"}
    /\ Settable("AccountBalance") = {"accountId", "contractId"}
<1>1. \A p : NewQuery("AccountBalance", p) = AccountBalanceQueryNew(p)
  BY DEF NewQuery
<1>2. \A p : DOMAIN AccountBalanceQueryNew(p) = {"accountId", "contractId"}
  BY DEF AccountBalanceQueryNew, Constructed
<1> QED
  BY <1>1, <1>2 DEF QueryFields, Settable

(* Of the two IDs of a balance query the node reads the contract's, and the *)
(* account's when there is no other.                                        *)
LEMMA BalanceUnderstood ==
    ASSUME NEW q, DOMAIN q = {"accountId", "contractId"},
           NEW f \in {"accountId", "contractId"}, q[f] \in {1, Foreign},
           f = "accountId" => q.contractId = Null
    PROVE  Understood("AccountBalance", Request("AccountBalance", q))
             # Understood("AccountBalance",
                          Request("AccountBalance", [q EXCEPT ![f] = Null]))
<1>1. \A r : Request("AccountBalance", r) = AccountBalanceQueryRequest(r)
  BY DEF Request
<1>2. \A a : /\ a \in {1, Foreign} => Id(a) # Null
            /\ Id(Null) = Null
  BY NullAssumption DEF Id, Scalar, Foreign
<1>3. \A r : Understood("AccountBalance", r) =
              IF r.contractID # Null THEN [r EXCEPT !.accountID = Null] ELSE r
  BY DEF Understood
<1> DEFINE p == [q EXCEPT ![f] = Null]
<1>4. CASE f = "accountId"
  <2>1. /\ q.contractId = Null /\ p.contractId = Null
        /\ p.accountId = Null /\ q.accountId \in {1, Foreign}
    BY <1>4
  <2>2. /\ AccountBalanceQueryRequest(q).contractID = Null
        /\ AccountBalanceQueryRequest(p).contractID = Null
        /\ AccountBalanceQueryRequest(q).accountID # Null
        /\ AccountBalanceQueryRequest(p).accountID = Null
    BY <1>2, <2>1 DEF AccountBalanceQueryRequest
  <2> QED
    BY <1>1, <1>3, <2>2
<1>5. CASE f = "contractId"
  <2>1. p.contractId = Null /\ q.contractId \in {1, Foreign}
    BY <1>5
  <2>2. /\ AccountBalanceQueryRequest(q).contractID # Null
        /\ AccountBalanceQueryRequest(p).contractID = Null
        /\ DOMAIN AccountBalanceQueryRequest(q) = {"accountID", "contractID"}
    BY <1>2, <2>1 DEF AccountBalanceQueryRequest
  <2>3. [AccountBalanceQueryRequest(q) EXCEPT !.accountID = Null].contractID
          # Null
    BY <2>2
  <2> QED
    BY <1>1, <1>3, <2>2, <2>3
<1> QED
  BY <1>4, <1>5

(* The member of a request tells the class of the query. *)
LEMMA SameQueryClass ==
    ASSUME NEW c \in QueryClasses
    PROVE  Registered(Exchange(c).request) = c
<1>1. \A d \in QueryClasses :
        Exchange(d).request = Exchange(c).request => d = c
  BY QueriesTruthful DEF Truthful, AnswersQuery
<1> QED
  BY <1>1 DEF Registered

-----------------------------------------------------------------------------
(* The inductive invariant of a query *)

QueryTyped ==
    /\ queryClass \in QueryClasses
    /\ DOMAIN query = QueryFields(queryClass)
    /\ DOMAIN wanted = Settable(queryClass)
    /\ \A f \in DOMAIN wanted : wanted[f] = Null \/ wanted[f] \in ValuesOf(f)
    /\ reborn \in BOOLEAN
    /\ verdict \in {"none", "checked", "unchecked", "refused"}

(* What was set is in the object, unless the bytes lost it; and an ID that  *)
(* the check looks at has the checksum it was given with, until the object  *)
(* goes through bytes.                                                      *)
WantedHeld ==
    \A f \in Asked(queryClass) :
      /\ wanted[f] # Null /\ ~(reborn /\ f \in Of(Forgotten, queryClass)) =>
           query[f] \in {1, Foreign}
      /\ f \in CheckedQuery(queryClass) =>
           (query[f] = Foreign <=> wanted[f] = Foreign /\ ~reborn)

(* What the verdict says of the object, which no longer changes. *)
VerdictMeans ==
    /\ verdict \in {"checked", "unchecked"} =>
         question = Understood(queryClass, Request(queryClass, query))
    /\ verdict = "checked" =>
         \A f \in CheckedQuery(queryClass) : query[f] # Foreign
    /\ verdict = "refused" =>
         \E f \in CheckedQuery(queryClass) : query[f] = Foreign
    /\ reply # "TypeError"

QueryInv == QueryTyped /\ WantedHeld /\ VerdictMeans

(* A new query. *)
LEMMA QueryInitInv == QueryInit => QueryInv
<1> SUFFICES ASSUME QueryInit PROVE QueryInv
  OBVIOUS
<1>1. Truthful(queryClass)
  BY QueriesTruthful DEF QueryInit
<1>2. QueryTyped
  BY DEF QueryTyped, QueryInit, QueryFields
<1>3. ASSUME NEW f \in Asked(queryClass)
      PROVE  wanted[f] = Null /\ query[f] = Null
  BY <1>1 DEF QueryInit, Truthful, BuildsQuery, Asked
<1>4. WantedHeld
  BY <1>3, NullAssumption DEF WantedHeld, Foreign
<1>5. VerdictMeans
  BY DEF VerdictMeans, QueryInit
<1> QED
  BY <1>2, <1>4, <1>5 DEF QueryInv

(* A setter writes the field it is named for, or one that is not asked.     *)
LEMMA SetQueryFieldKeeps ==
    ASSUME QueryInv, NEW f \in DOMAIN wanted, NEW v \in ValuesOf(f),
           SetQueryField(f, v)
    PROVE  QueryInv'
<1>1. Truthful(queryClass) /\ f \in Settable(queryClass)
  BY QueriesTruthful DEF QueryInv, QueryTyped
<1>2. v \in {1, Foreign} /\ v # Null
  BY NullAssumption DEF ValuesOf, Foreign
<1>3. PICK set : /\ set = SetQuery(queryClass, f, v)
                 /\ query' = [query EXCEPT ![set.field] = set.value]
  BY DEF SetQueryField
<1>4. /\ wanted' = [wanted EXCEPT ![f] = v]
      /\ ~reborn /\ verdict = "none"
      /\ UNCHANGED <<queryClass, reborn, verdict, question, reply>>
  BY DEF SetQueryField
<1>5. QueryTyped'
  BY <1>3, <1>4 DEF QueryInv, QueryTyped
<1>6. ASSUME f \in Asked(queryClass) PROVE WantedHeld'
  <2>1. /\ set.field = f /\ set.value \in {1, Foreign}
        /\ f \in CheckedQuery(queryClass) => set.value = v
    BY <1>1, <1>2, <1>3, <1>6 DEF Truthful, SetsQuery, Id, Foreign
  <2>2. f \in DOMAIN query /\ f \in DOMAIN wanted
    BY <1>1 DEF QueryInv, QueryTyped, Settable, QueryFields
  <2>3. /\ query'[f] = set.value /\ wanted'[f] = v
        /\ \A g \in Asked(queryClass) \ {f} :
             query'[g] = query[g] /\ wanted'[g] = wanted[g]
    <3>1. Asked(queryClass) \subseteq DOMAIN query \cap DOMAIN wanted
      BY DEF Asked, QueryInv, QueryTyped, Settable, QueryFields
    <3> QED
      BY <1>3, <1>4, <2>1, <2>2, <3>1
  <2>4. ASSUME NEW g \in Asked(queryClass)
        PROVE  /\ wanted'[g] # Null => query'[g] \in {1, Foreign}
               /\ g \in CheckedQuery(queryClass) =>
                    (query'[g] = Foreign <=> wanted'[g] = Foreign)
    BY <1>2, <1>4, <2>1, <2>3 DEF QueryInv, WantedHeld
  <2> QED
    BY <1>4, <2>4 DEF WantedHeld
<1>7. ASSUME f \notin Asked(queryClass) PROVE WantedHeld'
  <2>1. set.field \notin Asked(queryClass)
    BY <1>1, <1>3, <1>7 DEF Truthful, SetsQuery
  <2>2. Asked(queryClass) \subseteq DOMAIN query \cap DOMAIN wanted
    BY DEF Asked, QueryInv, QueryTyped, Settable, QueryFields
  <2>3. \A g \in Asked(queryClass) :
          query'[g] = query[g] /\ wanted'[g] = wanted[g]
    BY <1>3, <1>4, <1>7, <2>1, <2>2
  <2> QED
    BY <1>4, <2>3 DEF QueryInv, WantedHeld
<1>8. VerdictMeans'
  BY <1>4 DEF QueryInv, VerdictMeans
<1> QED
  BY <1>5, <1>6, <1>7, <1>8 DEF QueryInv

(* The bytes give an object of the same class, without checksums.           *)
LEMMA QueryFromBytesKeeps ==
    ASSUME QueryInv, QueryFromBytes
    PROVE  QueryInv'
<1>1. Truthful(queryClass) /\ queryClass \in QueryClasses
  BY QueriesTruthful DEF QueryInv, QueryTyped
<1>2. queryClass' = queryClass
  BY <1>1, SameQueryClass DEF QueryFromBytes
<1>3. query' = NewQuery(queryClass, FromQuery(queryClass,
                                              Request(queryClass, query)))
  BY <1>2 DEF QueryFromBytes
<1>4. /\ reborn' = TRUE /\ ~reborn /\ verdict = "none"
      /\ UNCHANGED <<wanted, verdict, question, reply>>
  BY DEF QueryFromBytes
<1>5. DOMAIN query' = QueryFields(queryClass)
  BY <1>1, <1>3, Zenon DEF Truthful, BuildsQuery
<1>6. QueryTyped'
  BY <1>2, <1>4, <1>5 DEF QueryInv, QueryTyped
<1>7. ASSUME NEW f \in Asked(queryClass), wanted[f] # Null,
             f \notin Of(Forgotten, queryClass)
      PROVE  query'[f] \in {1, Foreign}
  <2>1. query[f] \in {1, Foreign}
    BY <1>4, <1>7 DEF QueryInv, WantedHeld
  <2>2. DOMAIN query = QueryFields(queryClass)
    BY DEF QueryInv, QueryTyped
  <2> QED
    BY <1>1, <1>3, <1>7, <2>1, <2>2 DEF Truthful, AsksQuery
<1>8. \A f \in CheckedQuery(queryClass) : query'[f] # Foreign
  BY <1>1, <1>3 DEF Truthful, DropsChecksums
<1>9. WantedHeld'
  BY <1>2, <1>4, <1>7, <1>8 DEF WantedHeld
<1>10. VerdictMeans'
  BY <1>4 DEF QueryInv, VerdictMeans
<1> QED
  BY <1>6, <1>9, <1>10 DEF QueryInv

(* What is sent is the request of the object, and the check is what decides. *)
LEMMA AskKeeps ==
    ASSUME QueryInv, NEW check \in BOOLEAN, Ask(check)
    PROVE  QueryInv'
<1>1. /\ UNCHANGED <<queryClass, query, wanted, reborn, reply>>
      /\ verdict' \in {"checked", "unchecked", "refused"}
  BY DEF Ask
<1>2. QueryTyped' /\ WantedHeld'
  BY <1>1 DEF QueryInv, QueryTyped, WantedHeld
<1>3. VerdictMeans'
  BY DEF QueryInv, VerdictMeans, Ask
<1> QED
  BY <1>2, <1>3 DEF QueryInv

(* The answer is found. *)
LEMMA ReplyKeeps ==
    ASSUME QueryInv, Reply
    PROVE  QueryInv'
<1>1. UNCHANGED <<queryClass, query, wanted, reborn, verdict, question>>
  BY DEF Reply
<1>2. QueryTyped' /\ WantedHeld'
  BY <1>1 DEF QueryInv, QueryTyped, WantedHeld
<1>3. AnswersQuery(queryClass)
  BY QueriesTruthful DEF Truthful, QueryInv, QueryTyped
<1>4. reply' # "TypeError"
  BY <1>3 DEF Reply, AnswersQuery
<1>5. VerdictMeans'
  BY <1>1, <1>4 DEF QueryInv, VerdictMeans
<1> QED
  BY <1>2, <1>5 DEF QueryInv

LEMMA QueryInductive == QuerySpec => []QueryInv
<1>1. QueryInv /\ [QueryNext]_queryVars => QueryInv'
  <2> SUFFICES ASSUME QueryInv, [QueryNext]_queryVars PROVE QueryInv'
    OBVIOUS
  <2>1. CASE \E f \in DOMAIN wanted : \E v \in ValuesOf(f) : SetQueryField(f, v)
    BY <2>1, SetQueryFieldKeeps
  <2>2. CASE QueryFromBytes
    BY <2>2, QueryFromBytesKeeps
  <2>3. CASE \E check \in BOOLEAN : Ask(check)
    BY <2>3, AskKeeps
  <2>4. CASE Reply
    BY <2>4, ReplyKeeps
  <2>5. CASE UNCHANGED queryVars
    BY <2>5 DEF queryVars, QueryInv, QueryTyped, WantedHeld, VerdictMeans
  <2> QED
    BY <2>1, <2>2, <2>3, <2>4, <2>5 DEF QueryNext
<1> QED
  BY QueryInitInv, <1>1, PTL DEF QuerySpec

(* For every class of queries, any number of fields and the two settings of *)
(* the check: what the application set is what the node is asked, through   *)
(* bytes too, but for an account that a contract displaces; the answer is   *)
(* read where the node puts it; and the check refuses the queries with an   *)
(* ID of another ledger and no others.                                      *)
THEOREM QueriesCorrect == QuerySpec => []QueriesFaithful
<1>1. QueryInv => QueriesFaithful
  <2> SUFFICES ASSUME QueryInv PROVE QueriesFaithful
    OBVIOUS
  <2>1. Truthful(queryClass) /\ reply # "TypeError"
    BY QueriesTruthful DEF QueryInv, QueryTyped, VerdictMeans
  <2>2. ASSUME verdict \in {"checked", "unchecked"},
               NEW f \in DOMAIN wanted, wanted[f] # Null,
               f \notin Of(Unasked, queryClass),
               ~(reborn /\ f \in Of(Forgotten, queryClass)),
               ~Displaced(f), NEW field, NEW unset,
               field = SetQuery(queryClass, f, 1).field,
               unset = [query EXCEPT ![field]
                                       = NewQuery(queryClass, NoEffect)[f]]
        PROVE  question # Understood(queryClass, Request(queryClass, unset))
    <3>1. f \in Asked(queryClass) /\ f \in Settable(queryClass)
      BY <2>2 DEF Asked, QueryInv, QueryTyped
    <3>2. field = f
      BY <2>1, <2>2, <3>1 DEF Truthful, SetsQuery
    <3>3. NewQuery(queryClass, NoEffect)[f] = Null
      BY <2>1, <3>1 DEF Truthful, BuildsQuery
    <3>4. /\ query[f] \in {1, Foreign}
          /\ question = Understood(queryClass, Request(queryClass, query))
      BY <2>2, <3>1 DEF QueryInv, WantedHeld, VerdictMeans
    <3>5. DOMAIN query = QueryFields(queryClass)
      BY DEF QueryInv, QueryTyped
    <3>6. Request(queryClass, query)
            # Request(queryClass, [query EXCEPT ![f] = Null])
      BY <2>1, <3>1, <3>4, <3>5 DEF Truthful, AsksQuery
    <3>7. unset = [query EXCEPT ![f] = Null]
      BY <2>2, <3>2, <3>3
    <3>8. CASE queryClass = "AccountBalance"
      <4>1. f = "accountId" => query.contractId = Null
        BY <2>2, <3>8 DEF Displaced
      <4>2. f \in {"accountId", "contractId"}
            /\ DOMAIN query = {"accountId", "contractId"}
        BY <3>1, <3>5, <3>8, AccountBalanceFields
      <4>3. Understood("AccountBalance", Request("AccountBalance", query))
              # Understood("AccountBalance", Request("AccountBalance", unset))
        BY <3>4, <3>7, <4>1, <4>2, BalanceUnderstood
      <4> QED
        BY <3>4, <3>8, <4>3
    <3>9. CASE queryClass # "AccountBalance"
      BY <3>4, <3>6, <3>7, <3>9 DEF Understood
    <3> QED
      BY <3>8, <3>9
  <2>3. QuestionSent
    BY <2>1, <2>2 DEF QuestionSent
  <2>4. ASSUME verdict = "checked", NEW f \in DOMAIN wanted,
               wanted[f] = Foreign, ~reborn
        PROVE  f \in Of(UncheckedIds, queryClass)
    <3>1. f \in Settable(queryClass) \cap Identifiers
      BY <2>4, NullAssumption DEF QueryInv, QueryTyped, ValuesOf, Foreign
    <3>2. f \in CheckedQuery(queryClass) => query[f] = Foreign
      BY <2>1, <2>4 DEF QueryInv, WantedHeld, Truthful, SetsQuery
    <3>3. f \notin CheckedQuery(queryClass)
      BY <2>4, <3>2 DEF QueryInv, VerdictMeans
    <3> QED
      BY <2>1, <3>1, <3>3 DEF Truthful, SetsQuery
  <2>5. ASSUME verdict = "refused"
        PROVE  \E f \in DOMAIN wanted : wanted[f] = Foreign /\ ~reborn
    <3>1. PICK f \in CheckedQuery(queryClass) : query[f] = Foreign
      BY <2>5 DEF QueryInv, VerdictMeans
    <3>2. f \in Asked(queryClass) /\ f \in DOMAIN wanted
      BY <2>1 DEF Truthful, SetsQuery, Asked, QueryInv, QueryTyped
    <3> QED
      BY <3>1, <3>2 DEF QueryInv, WantedHeld
  <2>6. ForeignQueriesRefused
    BY <2>4, <2>5 DEF ForeignQueriesRefused
  <2> QED
    BY <2>3, <2>6 DEF QueriesFaithful
<1> QED
  BY QueryInductive, <1>1, PTL
=============================================================================
