----------------------------- MODULE Executable -----------------------------
(***************************************************************************)
(* Executable.execute(): the retry loop of every transaction and query,    *)
(* run by several requests at the same time over one network.              *)
(*                                                                         *)
(* JavaScript runs one piece of code up to its next await: running names   *)
(* the request whose code is at work, and nobody else takes a step then.   *)
(* The waits are those of _beforeExecute, _makeRequestAsync, the gRPC call *)
(* (raced with the gRPC deadline) and the delay between two attempts.      *)
(*                                                                         *)
(* What a subclass adds (the payment of a query, the signatures of a       *)
(* transaction, which statuses are retried) is a choice here, made by      *)
(* modules of its own.                                                     *)
(***************************************************************************)
EXTENDS ManagedNetwork, Sequences

CONSTANTS
    Request,             \* requests executed at the same time
    NodeAccountIds,      \* NodeAccountIds[r]: the locked list, <<>> if unlocked
    NoRequest,           \* nobody's code is at work
    Null,                \* a setting that is not set
    ClientMaxAttempts,   \* client._maxAttempts, or Null
    RequestMaxAttempts,  \* _maxAttempts of the request, 10 by default
    RequestTimeout,      \* _requestTimeout, or Null
    GrpcDeadline,        \* GrpcDeadline[r]: _grpcDeadline, Null unless it is set
    DelayMin, DelayMax   \* _minBackoff and _maxBackoff of the request

ASSUME RequestAssumption ==
    /\ NoRequest \notin Request
    /\ NodeAccountIds \in [Request -> Seq(Key)]
ASSUME LimitAssumption ==
    /\ {ClientMaxAttempts, RequestTimeout} \subseteq Nat \cup {Null}
    /\ GrpcDeadline \in [Request -> Nat \cup {Null}]
    /\ Null \notin Nat
    /\ RequestMaxAttempts \in Nat
    /\ DelayMin \in Nat /\ DelayMax \in Nat

VARIABLES
    pc,          \* where the code of a request is
    attempt,     \* attempt, of the for loop
    index,       \* _nodeAccountIds.index, counted from 1
    nodeId,      \* nodeAccountId
    node,        \* node, the object getNode() returned
    timeoutIn,   \* time left until startTime + _requestTimeout
    waitIn,      \* time left until the deadline, or of the delay
    calls,       \* gRPC calls sent
    failed,      \* the node whose call ended the attempt before, if one did
    outcome,     \* how execute() settled
    running      \* whose code is at work

requestVars == <<pc, attempt, index, nodeId, node, timeoutIn, waitIn, calls,
                 failed, outcome, running>>
execVars == <<vars, requestVars>>

Places == {"idle", "before", "loop", "making", "calling", "delay", "settled"}
Results == {"none", "response", "statusError", "callError", "deadline",
            "timeout", "maxAttempts", "requestError", "noNode"}

Locked(r) == NodeAccountIds[r] # <<>>

(* "maxAttempts" of the loop: the client's setting comes first. *)
MaxAttempts == IF ClientMaxAttempts # Null THEN ClientMaxAttempts ELSE RequestMaxAttempts

(* delayForAttempt *)
DelayFor(n) == Smaller(DelayMin * 2^n, DelayMax)

(* The initial value of a countdown; an unset one never runs out. *)
Timer(setting) == IF setting = Null THEN 0 ELSE setting

Idle == running = NoRequest
Turn(r) == running = r
------------------------------------------------------------------------------
ExecInit ==
    /\ Init
    /\ pc = [r \in Request |-> "idle"]
    /\ attempt = [r \in Request |-> 1]
    /\ index = [r \in Request |-> 1]
    /\ nodeId = [r \in Request |-> NoNode]
    /\ node = [r \in Request |-> NoNode]
    /\ timeoutIn = [r \in Request |-> 0]
    /\ waitIn = [r \in Request |-> 0]
    /\ calls = [r \in Request |-> 0]
    /\ failed = [r \in Request |-> NoNode]
    /\ outcome = [r \in Request |-> "none"]
    /\ running = NoRequest

(* execute() settles, and its local variables are gone. *)
Settle(r, result) ==
    /\ pc' = [pc EXCEPT ![r] = "settled"]
    /\ outcome' = [outcome EXCEPT ![r] = result]
    /\ node' = [node EXCEPT ![r] = NoNode]
    /\ failed' = [failed EXCEPT ![r] = NoNode]
    /\ nodeId' = [nodeId EXCEPT ![r] = NoNode]
    /\ timeoutIn' = [timeoutIn EXCEPT ![r] = 0]
    /\ waitIn' = [waitIn EXCEPT ![r] = 0]
    /\ attempt' = [attempt EXCEPT ![r] = 1]
    /\ running' = NoRequest
    /\ UNCHANGED <<index, calls>>

(* execute(): up to the await of _beforeExecute *)
Execute(r) ==
    /\ Idle /\ pc[r] = "idle"
    /\ pc' = [pc EXCEPT ![r] = "before"]
    /\ UNCHANGED <<vars, attempt, index, nodeId, node, timeoutIn, waitIn, calls,
                   failed, outcome, running>>

(* _beforeExecute is done: the clock of the request timeout starts. *)
BeforeExecuted(r) ==
    /\ Idle /\ pc[r] = "before"
    /\ pc' = [pc EXCEPT ![r] = "loop"]
    /\ timeoutIn' = [timeoutIn EXCEPT ![r] = Timer(RequestTimeout)]
    /\ running' = r
    /\ UNCHANGED <<vars, attempt, index, nodeId, node, waitIn, calls, failed, outcome>>

(* _beforeExecute, or later _makeRequestAsync, rejects. *)
RequestFails(r) ==
    /\ Idle /\ pc[r] \in {"before", "making"}
    /\ Settle(r, "requestError")
    /\ UNCHANGED vars

(* The head of the loop: out of attempts, or out of time *)
GiveUp(r) ==
    /\ Turn(r)
    /\ \/ attempt[r] > MaxAttempts /\ Settle(r, "maxAttempts")
       \/ /\ attempt[r] <= MaxAttempts
          /\ RequestTimeout # Null /\ timeoutIn[r] = 0
          /\ Settle(r, "timeout")
    /\ UNCHANGED vars

MayAttempt(r) ==
    /\ Turn(r)
    /\ attempt[r] <= MaxAttempts
    /\ RequestTimeout # Null => timeoutIn[r] # 0

(* The head of the loop, up to the await of _makeRequestAsync: a node that  *)
(* the locked list names or, without a list, any healthy one               *)
Attempt(r) ==
    /\ MayAttempt(r)
    /\ \E n \in Node :
         /\ IF Locked(r)
            THEN /\ GetNodeByKey(NodeAccountIds[r][index[r]], n)
                 /\ nodeId' = [nodeId EXCEPT ![r] = NodeAccountIds[r][index[r]]]
            ELSE /\ GetNode(n)
                 /\ nodeId' = [nodeId EXCEPT ![r] = KeyOf[n]]
         /\ node' = [node EXCEPT ![r] = n]
    /\ pc' = [pc EXCEPT ![r] = "making"]
    /\ running' = NoRequest
    /\ UNCHANGED <<attempt, index, timeoutIn, waitIn, calls, failed, outcome>>

(* getNode() throws, or reads an entry of an empty map. *)
AttemptThrows(r) ==
    /\ MayAttempt(r)
    /\ IF Locked(r) THEN GetNodeByKeyThrows ELSE GetNodeThrows
    /\ Settle(r, "noNode")

(* _advanceRequest *)
Advance(r) == IF Locked(r) THEN (index[r] % Len(NodeAccountIds[r])) + 1 ELSE 1

(* Mutant: an attempt that is skipped is not counted. *)
SkipUnhealthy_SameAttempt(r) ==
    /\ Idle /\ pc[r] = "making"
    /\ readmitIn[node[r]] > 0
    /\ index' = [index EXCEPT ![r] = Advance(r)]
    /\ pc' = [pc EXCEPT ![r] = "loop"]
    /\ node' = [node EXCEPT ![r] = NoNode]
    /\ failed' = [failed EXCEPT ![r] = NoNode]
    /\ running' = r
    /\ UNCHANGED <<vars, attempt, nodeId, timeoutIn, waitIn, calls, outcome>>

(* The request is built but its node has become unhealthy: no call, and the *)
(* next attempt at once.                                                   *)
SkipUnhealthy(r) ==
    /\ Idle /\ pc[r] = "making"
    /\ readmitIn[node[r]] > 0
    /\ index' = [index EXCEPT ![r] = Advance(r)]
    /\ attempt' = [attempt EXCEPT ![r] = @ + 1]
    /\ pc' = [pc EXCEPT ![r] = "loop"]
    /\ node' = [node EXCEPT ![r] = NoNode]
    /\ failed' = [failed EXCEPT ![r] = NoNode]
    /\ running' = r
    /\ UNCHANGED <<vars, nodeId, timeoutIn, waitIn, calls, outcome>>

(* The request is built and sent. *)
Send(r) ==
    /\ Idle /\ pc[r] = "making"
    /\ readmitIn[node[r]] = 0
    /\ index' = [index EXCEPT ![r] = Advance(r)]
    /\ pc' = [pc EXCEPT ![r] = "calling"]
    /\ waitIn' = [waitIn EXCEPT ![r] = Timer(GrpcDeadline[r])]
    /\ calls' = [calls EXCEPT ![r] = @ + 1]
    /\ UNCHANGED <<vars, attempt, nodeId, node, timeoutIn, failed, outcome, running>>

(* Mutant: a retry, but the node is not reported. *)
CallFails_NoBackoff(r) ==
    /\ Idle /\ pc[r] = "calling"
    /\ attempt' = [attempt EXCEPT ![r] = @ + 1]
    /\ pc' = [pc EXCEPT ![r] = "loop"]
    /\ failed' = [failed EXCEPT ![r] = node[r]]
    /\ node' = [node EXCEPT ![r] = NoNode]
    /\ running' = r
    /\ UNCHANGED <<vars, index, nodeId, timeoutIn, waitIn, calls, outcome>>

(* Mutant: the node is taken off the healthy list behind the network's back. *)
CallFails_Bypass(r) ==
    /\ Idle /\ pc[r] = "calling"
    /\ healthyNodes' = healthyNodes \ {node[r]}
    /\ attempt' = [attempt EXCEPT ![r] = @ + 1]
    /\ pc' = [pc EXCEPT ![r] = "loop"]
    /\ failed' = [failed EXCEPT ![r] = node[r]]
    /\ node' = [node EXCEPT ![r] = NoNode]
    /\ running' = r
    /\ UNCHANGED <<nodes, network, first, unhealthyNodesCount, readmitSweepIn,
                   settings, objectVars, thrown, index, nodeId, timeoutIn, waitIn,
                   calls, outcome>>

(* The call fails with a status _shouldRetryExceptionally accepts. *)
CallFails(r) ==
    /\ Idle /\ pc[r] = "calling"
    /\ IncreaseBackoff(node[r])
    /\ attempt' = [attempt EXCEPT ![r] = @ + 1]
    /\ pc' = [pc EXCEPT ![r] = "loop"]
    /\ failed' = [failed EXCEPT ![r] = node[r]]
    /\ node' = [node EXCEPT ![r] = NoNode]
    /\ waitIn' = [waitIn EXCEPT ![r] = 0]
    /\ running' = r
    /\ UNCHANGED <<index, nodeId, timeoutIn, calls, outcome>>

(* The call fails with any other error. *)
CallErrs(r) ==
    /\ Idle /\ pc[r] = "calling"
    /\ Settle(r, "callError")
    /\ UNCHANGED vars

(* The gRPC deadline wins the race: its Error is neither a GrpcServiceError *)
(* nor an HttpError and is thrown; the answer, when it comes, is dropped.  *)
DeadlineExceeded(r) ==
    /\ Idle /\ pc[r] = "calling"
    /\ GrpcDeadline[r] # Null /\ waitIn[r] = 0
    /\ Settle(r, "deadline")
    /\ UNCHANGED vars

(* Mutant: the answer of a call that was given up on settles it again. *)
Answered_Late(r) ==
    /\ Idle /\ pc[r] = "settled" /\ outcome[r] = "deadline"
    /\ Settle(r, "response")
    /\ UNCHANGED vars

(* An answer with a status _shouldRetry calls Finished, or Error *)
Answered(r) ==
    /\ Idle /\ pc[r] = "calling"
    /\ DecreaseBackoff(node[r])
    /\ \E result \in {"response", "statusError"} : Settle(r, result)

(* An answer with a status _shouldRetry calls Retry *)
AnsweredRetry(r) ==
    /\ Idle /\ pc[r] = "calling"
    /\ DecreaseBackoff(node[r])
    /\ pc' = [pc EXCEPT ![r] = "delay"]
    /\ waitIn' = [waitIn EXCEPT ![r] = DelayFor(attempt[r])]
    /\ node' = [node EXCEPT ![r] = NoNode]
    /\ failed' = [failed EXCEPT ![r] = NoNode]
    /\ UNCHANGED <<attempt, index, nodeId, timeoutIn, calls, outcome, running>>

(* The delay is over: the next attempt *)
DelayOver(r) ==
    /\ Idle /\ pc[r] = "delay" /\ waitIn[r] = 0
    /\ attempt' = [attempt EXCEPT ![r] = @ + 1]
    /\ pc' = [pc EXCEPT ![r] = "loop"]
    /\ running' = r
    /\ UNCHANGED <<vars, index, nodeId, node, timeoutIn, waitIn, calls, failed, outcome>>

(* The application configures the network between two turns.  An object a   *)
(* request still refers to is not handed out by a constructor.             *)
Configure ==
    /\ Idle
    /\ ConfigureStep
    /\ \A r \in Request : {node[r], failed[r]} \cap (nodes' \ nodes) = {}
    /\ UNCHANGED requestVars

(* Time passes, for the network and for the timers of the requests. *)
ExecTick ==
    /\ Idle
    /\ \/ readmitSweepIn > 0
       \/ \E n \in Node : readmitIn[n] > 0
       \/ \E r \in Request : timeoutIn[r] > 0 \/ waitIn[r] > 0
    /\ Elapse
    /\ timeoutIn' = [r \in Request |-> Larger(timeoutIn[r] - 1, 0)]
    /\ waitIn' = [r \in Request |-> Larger(waitIn[r] - 1, 0)]
    /\ UNCHANGED <<pc, attempt, index, nodeId, node, calls, failed, outcome, running>>

RequestAction(r) ==
    \/ Execute(r) \/ BeforeExecuted(r) \/ RequestFails(r)
    \/ GiveUp(r) \/ Attempt(r) \/ AttemptThrows(r)
    \/ SkipUnhealthy(r) \/ Send(r)
    \/ CallFails(r) \/ CallErrs(r) \/ DeadlineExceeded(r)
    \/ Answered(r) \/ AnsweredRetry(r) \/ DelayOver(r)

ExecNext == (\E r \in Request : RequestAction(r)) \/ Configure \/ ExecTick

ExecSpec == ExecInit /\ [][ExecNext]_execVars

(***************************************************************************)
(* The event loop comes round to every timer that is over, and the code of *)
(* a request that is at work goes on to its next await.  Nothing is assumed *)
(* about the promises of others: _beforeExecute, _makeRequestAsync (which  *)
(* may ask a signer) and the gRPC call may settle either way or never.     *)
(* NodeChannel gives a deadline to waitForReady only, and a node may hold  *)
(* the connection and return nothing.                                      *)
(***************************************************************************)
ExecFairness ==
    /\ WF_execVars(ExecTick)
    /\ \A r \in Request :
          /\ WF_execVars(GiveUp(r) \/ Attempt(r) \/ AttemptThrows(r))
          /\ WF_execVars(DeadlineExceeded(r))
          /\ WF_execVars(DelayOver(r))

ExecFairSpec == ExecSpec /\ ExecFairness
------------------------------------------------------------------------------

(* The loop as a whole only ever uses the network the way ManagedNetwork   *)
(* describes, so that what holds of the node pool holds under any number   *)
(* of concurrent requests.                                                 *)
UsesNetwork == Spec

(* What the caller of execute() sees of the loop: the refinement mapping. *)
Answers == {"response", "statusError", "callError", "deadline"}
StateSeen ==
    [r \in Request |->
        IF pc[r] = "idle" THEN "new"
        ELSE IF pc[r] \in {"before", "loop", "making", "delay"} THEN "pending"
        ELSE pc[r]]
Promised == INSTANCE Promises
    WITH Caller <- Request, Limit <- MaxAttempts, Answer <- Answers,
         Refusal <- Results \ (Answers \cup {"none"}), NoResult <- "none",
         state <- StateSeen, made <- calls, result <- outcome

(* Every execute() keeps what Promises says: one call at a time and no more *)
(* than allowed, none after it has settled, and a result that does not     *)
(* change, taken from a call only while that call is the one under way (an *)
(* answer that loses the race with the deadline is dropped).               *)
KeepsPromise == Promised!PromiseSpec

(* A request without a list of nodes never retries on the node whose call   *)
(* has just failed: increaseBackoff took it off the healthy list before    *)
(* the next getNode().                                                     *)
FailedNodeAvoided ==
    \A r \in Request :
        pc[r] = "making" /\ ~ Locked(r) /\ failed[r] # NoNode => node[r] # failed[r]

(* What getNode() hands out and what is known of its nodes. *)
PoolSeen ==
    <<nodes, network, first, nodes \cap healthyNodes,
      [n \in nodes |-> <<readmitIn[n], currentBackoff[n]>>]>>

(* A call that ends on a node which was replaced or removed while the       *)
(* request was built or under way changes nothing for the nodes of the     *)
(* network, not even for the one that has its account now: increaseBackoff *)
(* and decreaseBackoff are about the object.                               *)
StaleCallHarmless ==
    [][\A r \in Request :
          pc[r] = "calling" /\ pc'[r] # "calling" /\ node[r] \notin nodes
          => PoolSeen' = PoolSeen]_execVars

(* Where the code of a request may wait for ever. *)
MayHang(r) ==
    {"before", "making"} \cup (IF GrpcDeadline[r] = Null THEN {"calling"} ELSE {})

(* Every execute() settles, under every schedule of failures, unless it     *)
(* waits for ever for the promise of somebody else: with a gRPC deadline   *)
(* that is never a node which holds the connection and returns nothing.    *)
Settles ==
    \A r \in Request :
        pc[r] = "before" ~> pc[r] = "settled" \/ [](pc[r] \in MayHang(r))
==============================================================================
