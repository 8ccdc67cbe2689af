---------------------------- MODULE QueryPayments ----------------------------
(***************************************************************************)
(* How a query is paid for: Query._beforeExecute() with the cost query,    *)
(* the payment transactions, one for each node, and the requests of the    *)
(* retry loop, which take the payment at the index of their node. Several  *)
(* execute() of one query may run at the same time: each of them waits for *)
(* the cost, and for the signer of every payment, before it goes on.       *)
(***************************************************************************)
EXTENDS Wire, List, FiniteSets

CONSTANTS PayNodes,      \* what getNodeAccountIdsForExecute() may return
          Costs,         \* costs that nodes answer
          Fees,          \* arguments of setQueryPayment(), or Null
          Maxima,        \* the greatest payment of the query or of the client
          IntRange,      \* the number of values of a 32-bit integer, scaled
          Asker,         \* execute() calls at the same time
          MaxAsks        \* bound: calls of execute(), and attempts of each

\* A payment: the position and the account of its node, the amount, the ID.
PaymentType == [at : Nat, node : Nat, amount : Nat, id : Nat]

ASSUME NullIsNone == Null \notin Nat /\ Null \notin PaymentType

ASSUME PayConstants ==
  /\ PayNodes \subseteq Seq(Nat) \ {<<>>}
  /\ Costs \subseteq Nat /\ Maxima \subseteq Nat /\ Fees \subseteq Nat \cup {Null}
  /\ IntRange \in Nat \ {0} /\ MaxAsks \in Nat

VARIABLES paid,          \* _isPaymentRequired() of the class
          operated,      \* the client has an operator
          payNodes,      \* _nodeAccountIds
          payId,         \* _paymentTransactionId, 0 if the application set it
          payIds,        \* payment IDs generated so far
          fee,           \* _queryPayment
          maximum,       \* _maxQueryPayment, or that of the client
          payments,      \* _paymentTransactions
          askPc,         \* askPc[e]: where execute() is
          making,        \* making[e]: the payment that is being signed
          asking,        \* asking[e]: node and payment of the request
          tries,         \* tries[e]: attempts so far
          asks,          \* calls of execute() so far
          explicit,      \* the payment was set by the application
          overlapped,    \* an execute() began while another one prepared
          interrupted    \* a signer failed when there were payments already

payVars == <<paid, operated, payNodes, payId, payIds, fee, maximum, payments,
             askPc, making, asking, tries, asks, explicit, overlapped,
             interrupted>>

\* Long.toInt(): the low bits, as a signed number.
ToInt(n) == ((n + IntRange \div 2) % IntRange) - IntRange \div 2

\* getCost(): a tenth more, rounded.
CostWithMargin(c) == (11 * c + 5) \div 10

PayInit ==
  /\ paid \in BOOLEAN /\ operated \in BOOLEAN
  /\ \E nodes \in PayNodes :
       payNodes \in {NewList, SetLocked(SetList(NewList, nodes))}
  /\ payId \in {Null, 0} /\ payIds = 0
  /\ fee \in Fees /\ explicit = (fee # Null)
  /\ maximum \in Maxima
  /\ payments = <<>>
  /\ askPc = [e \in Asker |-> "idle"]
  /\ making = [e \in Asker |-> Null]
  /\ asking = [e \in Asker |-> Null]
  /\ tries = [e \in Asker |-> 0]
  /\ asks = 0 /\ overlapped = FALSE /\ interrupted = FALSE

\* ---- _beforeExecute()

\* The nodes, if they are not set.
WithNodes == IF IsEmpty(payNodes)
             THEN {SetList(payNodes, nodes) : nodes \in PayNodes}
             ELSE {payNodes}

\* Mutant: every execute() generates a payment ID.
ChoosePaymentId_Always == payId' = payIds + 1 /\ payIds' = payIds + 1

\* The payment ID, once; without a payment it names no account.
ChoosePaymentId ==
  IF payId = Null THEN payId' = payIds + 1 /\ payIds' = payIds + 1
  ELSE UNCHANGED <<payId, payIds>>

\* _makePaymentTransaction() for the node at a position.
Payment(nodes, at, amount, id) ==
  [at |-> at, node |-> nodes.list[at], amount |-> amount, id |-> id]

\* The loop over the nodes begins: the cost is kept, the nodes are locked.
StartPaying(e, nodes, cost, id) ==
  /\ fee' = cost
  /\ payNodes' = SetLocked(nodes)
  /\ making' = [making EXCEPT ![e] = Payment(nodes, 1, cost, id)]
  /\ askPc' = [askPc EXCEPT ![e] = "paying"]

Preparing(e) == askPc[e] \in {"costing", "paying"}

\* execute() of a query that has payments goes straight to the retry loop.
ExecutePaid(e) ==
  /\ askPc[e] = "idle" /\ asks < MaxAsks /\ payments # <<>>
  /\ askPc' = [askPc EXCEPT ![e] = "loop"]
  /\ asks' = asks + 1
  /\ tries' = [tries EXCEPT ![e] = 0]
  /\ overlapped' = (overlapped \/ \E f \in Asker : Preparing(f))
  /\ UNCHANGED <<paid, operated, payNodes, payId, payIds, fee, maximum,
                 payments, making, asking, explicit, interrupted>>

\* execute() of a query without payments, up to its first await.
ExecuteUnpaid(e) ==
  /\ askPc[e] = "idle" /\ asks < MaxAsks /\ payments = <<>>
  /\ paid => operated \/ payId # Null
  /\ ChoosePaymentId
  /\ \E nodes \in WithNodes :
       IF fee # Null \/ ~paid
       THEN StartPaying(e, nodes, IF fee # Null THEN fee ELSE 0, payId')
       ELSE /\ payNodes' = nodes
            /\ askPc' = [askPc EXCEPT ![e] = "costing"]
            /\ UNCHANGED <<fee, making>>
  /\ asks' = asks + 1
  /\ tries' = [tries EXCEPT ![e] = 0]
  /\ overlapped' = (overlapped \/ \E f \in Asker : Preparing(f))
  /\ UNCHANGED <<paid, operated, maximum, payments, asking, explicit,
                 interrupted>>

\* Nobody can pay: execute() rejects, but the nodes are set.
ExecuteRefused(e) ==
  /\ askPc[e] = "idle" /\ asks < MaxAsks /\ payments = <<>>
  /\ paid /\ ~operated /\ payId = Null
  /\ payNodes' \in WithNodes
  /\ asks' = asks + 1
  /\ UNCHANGED <<paid, operated, payId, payIds, fee, maximum, payments, askPc,
                 making, asking, tries, explicit, overlapped, interrupted>>

\* getCost() of the application: CostQuery leaves nodes and a payment ID.
GetCost ==
  /\ operated /\ payId = Null
  /\ payNodes' \in WithNodes
  /\ ChoosePaymentId
  /\ UNCHANGED <<paid, operated, fee, maximum, payments, askPc, making, asking,
                 tries, asks, explicit, overlapped, interrupted>>

\* Mutant: the maximum is not looked at.
CostAnswered_NoMaximum(e, c) ==
  /\ askPc[e] = "costing" /\ operated
  /\ StartPaying(e, payNodes, CostWithMargin(c), payId)
  /\ UNCHANGED <<paid, operated, payId, payIds, maximum, payments, asking,
                 tries, asks, explicit, overlapped, interrupted>>

\* The cost arrives: more than the maximum rejects.
CostAnswered(e, c) ==
  /\ askPc[e] = "costing" /\ operated
  /\ IF ToInt(maximum) < ToInt(CostWithMargin(c))
     THEN /\ askPc' = [askPc EXCEPT ![e] = "idle"]
          /\ UNCHANGED <<payNodes, fee, making>>
     ELSE StartPaying(e, payNodes, CostWithMargin(c), payId)
  /\ UNCHANGED <<paid, operated, payId, payIds, maximum, payments, asking,
                 tries, asks, explicit, overlapped, interrupted>>

\* The cost query fails.
CostFails(e) ==
  /\ askPc[e] = "costing"
  /\ askPc' = [askPc EXCEPT ![e] = "idle"]
  /\ UNCHANGED <<paid, operated, payNodes, payId, payIds, fee, maximum,
                 payments, making, asking, tries, asks, explicit, overlapped,
                 interrupted>>

\* Mutant: there is no payment for the last node.
Pay_NotLast(e) ==
  /\ askPc[e] = "paying"
  /\ payments' = Append(payments, making[e])
  /\ IF making[e].at + 1 < Len(payNodes.list)
     THEN /\ making' = [making EXCEPT ![e] =
                          Payment(payNodes, making[e].at + 1, fee, payId)]
          /\ UNCHANGED askPc
     ELSE /\ making' = [making EXCEPT ![e] = Null]
          /\ askPc' = [askPc EXCEPT ![e] = "loop"]
  /\ UNCHANGED <<paid, operated, payNodes, payId, payIds, fee, maximum, asking,
                 tries, asks, explicit, overlapped, interrupted>>

\* A payment is signed and pushed, and the next one begun.
Pay(e) ==
  /\ askPc[e] = "paying"
  /\ payments' = Append(payments, making[e])
  /\ IF making[e].at < Len(payNodes.list)
     THEN /\ making' = [making EXCEPT ![e] =
                          Payment(payNodes, making[e].at + 1, fee, payId)]
          /\ UNCHANGED askPc
     ELSE /\ making' = [making EXCEPT ![e] = Null]
          /\ askPc' = [askPc EXCEPT ![e] = "loop"]
  /\ UNCHANGED <<paid, operated, payNodes, payId, payIds, fee, maximum, asking,
                 tries, asks, explicit, overlapped, interrupted>>

\* The operator's signer rejects.
PayFails(e) ==
  /\ askPc[e] = "paying" /\ paid /\ operated
  /\ askPc' = [askPc EXCEPT ![e] = "idle"]
  /\ making' = [making EXCEPT ![e] = Null]
  /\ interrupted' = (interrupted \/ payments # <<>>)
  /\ UNCHANGED <<paid, operated, payNodes, payId, payIds, fee, maximum,
                 payments, asking, tries, asks, explicit, overlapped>>

\* ---- The retry loop

\* Mutant: every node gets the first payment.
MakeRequest_FirstPayment(e) ==
  /\ askPc[e] = "loop" /\ tries[e] < MaxAsks
  /\ asking' = [asking EXCEPT ![e] =
       [node |-> Current(payNodes),
        payment |-> IF paid /\ payments # <<>> THEN payments[1] ELSE Null]]
  /\ askPc' = [askPc EXCEPT ![e] = "made"]
  /\ tries' = [tries EXCEPT ![e] = @ + 1]
  /\ UNCHANGED <<paid, operated, payNodes, payId, payIds, fee, maximum,
                 payments, making, asks, explicit, overlapped, interrupted>>

\* _makeRequestAsync(): the payment at the index of the node.
MakeRequest(e) ==
  /\ askPc[e] = "loop" /\ tries[e] < MaxAsks
  /\ asking' = [asking EXCEPT ![e] =
       [node |-> Current(payNodes),
        payment |-> IF paid /\ payNodes.index <= Len(payments)
                    THEN payments[payNodes.index] ELSE Null]]
  /\ askPc' = [askPc EXCEPT ![e] = "made"]
  /\ tries' = [tries EXCEPT ![e] = @ + 1]
  /\ UNCHANGED <<paid, operated, payNodes, payId, payIds, fee, maximum,
                 payments, making, asks, explicit, overlapped, interrupted>>

\* The list of nodes moves on, and the request is sent.
SendRequest(e) ==
  /\ askPc[e] = "made"
  /\ payNodes' = Advanced(payNodes)
  /\ askPc' = [askPc EXCEPT ![e] = "sent"]
  /\ UNCHANGED <<paid, operated, payId, payIds, fee, maximum, payments, making,
                 asking, tries, asks, explicit, overlapped, interrupted>>

\* The answer is retried, or settles execute().
Responded(e, retry) ==
  /\ askPc[e] = "sent"
  /\ askPc' = [askPc EXCEPT ![e] = IF retry /\ tries[e] < MaxAsks
                                   THEN "loop" ELSE "idle"]
  /\ asking' = [asking EXCEPT ![e] = Null]
  /\ UNCHANGED <<paid, operated, payNodes, payId, payIds, fee, maximum,
                 payments, making, tries, asks, explicit, overlapped,
                 interrupted>>

PayNext ==
  \/ GetCost
  \/ \E e \in Asker :
       \/ ExecutePaid(e) \/ ExecuteUnpaid(e) \/ ExecuteRefused(e)
       \/ \E c \in Costs : CostAnswered(e, c)
       \/ CostFails(e) \/ Pay(e) \/ PayFails(e)
       \/ MakeRequest(e) \/ SendRequest(e)
       \/ \E retry \in BOOLEAN : Responded(e, retry)

PaySpec == PayInit /\ [][PayNext]_payVars

\* ---- Properties

Sending(e) == askPc[e] \in {"made", "sent"}

\* The payment in a request is for the node that the request goes to, although
\* both come from lists that are read at an index; unless a second execute()
\* began while the first was still preparing: it pushes its own payments between
\* those of the first, and the positions no longer fit.
PaysTheNodeAsked ==
  \A e \in Asker :
    Sending(e) /\ asking[e].payment # Null =>
      asking[e].payment.node = asking[e].node \/ overlapped

\* A query that must be paid for is not sent without a payment, unless
\* execute() calls overlapped, or a signer failed half-way and the payments it
\* left behind made the next execute() believe that all are there.
NotSentUnpaid ==
  \A e \in Asker :
    Sending(e) /\ paid /\ asking[e].payment = Null =>
      overlapped \/ interrupted

\* A payment that the application did not set itself is not more than the
\* maximum, whatever nodes answer, as long as the two fit a 32-bit integer.
WithinMaximum ==
  \A i \in DOMAIN payments :
    \/ explicit \/ payments[i].amount <= maximum
    \/ IntRange \div 2 <= payments[i].amount \/ IntRange \div 2 <= maximum

\* However many nodes a query is sent to, and however often it is executed, all
\* its payments have one transaction ID: the network carries out one of them.
ChargedOnce ==
  Cardinality({payments[i].id : i \in DOMAIN payments}) <= 1

=============================================================================
