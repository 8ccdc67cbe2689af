----------------------- MODULE TopicMessageQueryProofs -----------------------
(***************************************************************************)
(* Proofs about a subscription, for any topic, any limit and any number of *)
(* attempts: the handle and the streams, the limit, what is delivered      *)
(* once, and what is delivered whole.                                      *)
(***************************************************************************)
EXTENDS TopicMessageQuery, FiniteSetTheorems, TLAPS

(* The types the arguments below need; Assembling has that of delivered. *)
SubscriptionTyped ==
    /\ published \in 0..Len(Topic)
    /\ wanted \in Nat /\ limit \in Nat
    /\ startTime \in Nat /\ attempt \in Nat /\ timers \in Nat
    /\ streams \in Seq(StreamType) /\ call \in Nat
    /\ receivedBy \in [Position -> Nat]

(* A query has one stream, or one timer of a reconnection, or neither: it   *)
(* is why the handle always holds the stream that is open.                 *)
OneStream ==
    /\ timers <= 1
    /\ call = Len(streams)
    /\ \A i \in DOMAIN streams : Live(i) => i = Len(streams) /\ timers = 0
    /\ call = 0 => timers = 0

(* The open stream will bring the chunk that a reconnection would ask for,  *)
(* if the start time is set, and nothing at or after it has been received.  *)
InStep ==
    /\ \A i \in DOMAIN streams :
          Live(i) => startTime = 0 \/ streams[i].next = startTime
    /\ \A p \in Received : p < startTime

LEMMA NewStreamType == SubscriptionTyped => NewStream \in StreamType /\ NewStream.open
<1> SUFFICES ASSUME SubscriptionTyped PROVE NewStream \in StreamType /\ NewStream.open
  OBVIOUS
<1>1. startTime \in Nat /\ limit \in Nat /\ (limit = 0) \in BOOLEAN
  BY DEF SubscriptionTyped
<1>2. [m \in Message |-> <<>>] \in [Message -> Seq(Nat)]
  OBVIOUS
<1> QED
  BY <1>1, <1>2 DEF NewStream, StreamType

(* A stream that is opened comes last. *)
LEMMA StreamOpened ==
    ASSUME SubscriptionTyped, MakeServerStreamRequest
    PROVE  /\ streams' \in Seq(StreamType) /\ Len(streams') = Len(streams) + 1
           /\ call' = Len(streams')
           /\ DOMAIN streams' = DOMAIN streams \cup {Len(streams')}
           /\ \A i \in DOMAIN streams : streams'[i] = streams[i]
           /\ streams'[Len(streams')] = NewStream
<1>1. streams \in Seq(StreamType) /\ NewStream \in StreamType
  BY NewStreamType DEF SubscriptionTyped
<1>2. streams' = Append(streams, NewStream) /\ call' = Len(streams')
  BY DEF MakeServerStreamRequest
<1> HIDE DEF MakeServerStreamRequest
<1> QED
  BY <1>1, <1>2

(* A stream that changes leaves the other ones as they are. *)
LEMMA StreamChanged ==
    ASSUME SubscriptionTyped, NEW i \in DOMAIN streams, NEW s \in StreamType,
           streams' = [streams EXCEPT ![i] = s]
    PROVE  /\ streams' \in Seq(StreamType) /\ Len(streams') = Len(streams)
           /\ DOMAIN streams' = DOMAIN streams
           /\ streams'[i] = s
           /\ \A j \in DOMAIN streams \ {i} : streams'[j] = streams[j]
  BY DEF SubscriptionTyped

LEMMA StreamTaken ==
    ASSUME SubscriptionTyped, NEW i \in DOMAIN streams, Opens(i)
    PROVE  /\ streams' \in Seq(StreamType) /\ Len(streams') = Len(streams)
           /\ DOMAIN streams' = DOMAIN streams
           /\ \E n \in Nat : streams'[i] = [streams[i] EXCEPT !.next = n]
           /\ \A j \in DOMAIN streams \ {i} : streams'[j] = streams[j]
<1> DEFINE s == [streams[i] EXCEPT !.next = published + 1]
<1>1. streams[i] \in StreamType /\ published + 1 \in Nat
  BY DEF SubscriptionTyped
<1>2. s \in StreamType
  BY <1>1 DEF StreamType
<1>3. streams' = [streams EXCEPT ![i] = s]
  BY DEF Opens
<1>4. \E n \in Nat : s = [streams[i] EXCEPT !.next = n]
  BY <1>1
<1> HIDE DEF s
<1> QED
  BY <1>2, <1>3, <1>4, StreamChanged

LEMMA StreamOver ==
    ASSUME SubscriptionTyped, NEW i \in DOMAIN streams, Over(i)
    PROVE  /\ streams' \in Seq(StreamType) /\ Len(streams') = Len(streams)
           /\ DOMAIN streams' = DOMAIN streams
           /\ ~ streams'[i].open
           /\ \A j \in DOMAIN streams \ {i} : streams'[j] = streams[j]
<1> DEFINE s == [streams[i] EXCEPT !.open = FALSE]
<1>1. streams[i] \in StreamType
  BY DEF SubscriptionTyped
<1>2. s \in StreamType /\ ~ s.open
  BY <1>1 DEF StreamType
<1>3. streams' = [streams EXCEPT ![i] = s]
  BY DEF Over
<1> HIDE DEF s
<1> QED
  BY <1>2, <1>3, StreamChanged

LEMMA StreamCancelled ==
    ASSUME SubscriptionTyped, OneStream, Unsubscribe
    PROVE  /\ streams' \in Seq(StreamType) /\ Len(streams') = Len(streams)
           /\ DOMAIN streams' = DOMAIN streams
           /\ \A j \in DOMAIN streams :
                 /\ streams'[j].open = streams[j].open
                 /\ streams'[j].next = streams[j].next
                 /\ streams'[j].left = streams[j].left
                 /\ streams'[j].unlimited = streams[j].unlimited
<1>1. call \in DOMAIN streams
  BY DEF SubscriptionTyped, OneStream, Unsubscribe
<1> DEFINE c == streams[call].cancelled \/ Live(call)
           s == [streams[call] EXCEPT !.cancelled = c]
<1>2. streams[call] \in StreamType
  BY <1>1 DEF SubscriptionTyped
<1>3. c \in BOOLEAN
  BY <1>2 DEF StreamType
<1>4. streams' = [streams EXCEPT ![call] = s]
  BY DEF Unsubscribe
<1> HIDE DEF c
<1>5. /\ s \in StreamType
      /\ s.open = streams[call].open /\ s.next = streams[call].next
      /\ s.left = streams[call].left /\ s.unlimited = streams[call].unlimited
  BY <1>2, <1>3 DEF StreamType
<1> HIDE DEF s
<1> QED
  BY <1>1, <1>4, <1>5, StreamChanged

(* The callback for a chunk moves its stream, and the start time with it. *)
LEMMA ChunkReceived ==
    ASSUME SubscriptionTyped, NEW i \in DOMAIN streams, Data(i)
    PROVE  /\ streams' \in Seq(StreamType) /\ Len(streams') = Len(streams)
           /\ DOMAIN streams' = DOMAIN streams
           /\ streams'[i].open /\ streams'[i].next = streams[i].next + 1
           /\ streams'[i].unlimited = streams[i].unlimited
           /\ streams'[i].left = IF streams[i].unlimited THEN streams[i].left
                                 ELSE streams[i].left - 1
           /\ streams[i].unlimited \/ streams[i].left > 0
           /\ streams[i].next \in 1..published
           /\ \A j \in DOMAIN streams \ {i} : streams'[j] = streams[j]
           /\ startTime' = streams[i].next + 1
           /\ limit' = IF limit > 0 THEN limit - 1 ELSE limit
           /\ receivedBy' = [receivedBy EXCEPT ![streams[i].next] = i]
           /\ UNCHANGED <<published, attempt, call, timers, begin, wanted>>
<1>1. streams[i] \in StreamType /\ streams[i].open
  <2>1. streams \in Seq(StreamType)
    BY DEF SubscriptionTyped
  <2>2. streams[i] \in StreamType
    BY <2>1
  <2>3. Live(i)
    BY Zenon DEF Data
  <2>4. streams[i].open
    BY <2>3, Zenon DEF Live
  <2> QED
    BY <2>2, <2>4
<1>6. /\ streams[i].next \in 1..published
      /\ streams[i].unlimited \/ streams[i].left > 0
  BY Zenon DEF Data
<1>7. /\ startTime' = streams[i].next + 1
      /\ limit' = IF limit > 0 THEN limit - 1 ELSE limit
      /\ receivedBy' = [receivedBy EXCEPT ![streams[i].next] = i]
      /\ UNCHANGED <<published, attempt, call, timers, begin, wanted>>
  BY Zenon DEF Data, CountDown, PlusNano
<1> DEFINE p == streams[i].next
           chunk == Topic[p]
           list == [streams[i].list EXCEPT ![chunk.msg] = Append(@, chunk.number)]
           whole == chunk.total = 1 \/ Len(list[chunk.msg]) = chunk.total
           rest == IF streams[i].unlimited THEN streams[i].left ELSE streams[i].left - 1
           after == IF whole THEN Completed(list, chunk.msg) ELSE list
           s == [streams[i] EXCEPT !.next = p + 1, !.left = rest, !.list = after]
<1>2. streams' = [streams EXCEPT ![i] = s]
  BY DEF Data
<1>3. p + 1 \in Nat /\ rest \in Nat
  BY <1>1, <1>6 DEF StreamType
<1>4. after \in [Message -> Seq(Nat)]
  <2>1. p \in Position /\ chunk \in ChunkType
    <3>1. p \in 1..published
      BY <1>6
    <3>2. Topic \in Seq(ChunkType)
      BY TopicAssumption
    <3>3. p \in 1..Len(Topic)
      BY <3>1, <3>2 DEF SubscriptionTyped
    <3> QED
      BY <3>2, <3>3 DEF Position
  <2>2. chunk.msg \in Message /\ chunk.number \in Nat
    BY <2>1 DEF ChunkType
  <2>3. streams[i].list \in [Message -> Seq(Nat)]
    BY <1>1 DEF StreamType
  <2>4. list \in [Message -> Seq(Nat)]
    BY <2>2, <2>3
  <2> HIDE DEF list, chunk, whole
  <2>5. Completed(list, chunk.msg) \in [Message -> Seq(Nat)]
    <3>1. <<>> \in Seq(Nat)
      OBVIOUS
    <3>2. ASSUME NEW e \in Seq(Nat)
          PROVE  [list EXCEPT ![chunk.msg] = e] \in [Message -> Seq(Nat)]
      BY <2>4
    <3> QED
      BY <3>1, <3>2, Zenon DEF Completed
  <2> QED
    BY <2>4, <2>5
<1> HIDE DEF rest, after
<1>5. /\ s \in StreamType /\ s.open /\ s.next = p + 1
      /\ s.unlimited = streams[i].unlimited /\ s.left = rest
  BY <1>1, <1>3, <1>4 DEF StreamType
<1>8. rest = IF streams[i].unlimited THEN streams[i].left
             ELSE streams[i].left - 1
  BY DEF rest
<1> HIDE DEF s
<1> QED
  BY <1>2, <1>5, <1>6, <1>7, <1>8, StreamChanged
------------------------------------------------------------------------------
LEMMA SubscriptionInit == TopicInit => SubscriptionTyped /\ OneStream /\ InStep
<1> SUFFICES ASSUME TopicInit PROVE SubscriptionTyped /\ OneStream /\ InStep
  OBVIOUS
<1> USE DEF TopicInit
<1>1. Len(Topic) \in Nat
  BY TopicAssumption
<1>2. SubscriptionTyped
  BY <1>1, SettingAssumption DEF SubscriptionTyped
<1> QED
  BY <1>2 DEF OneStream, InStep, Received

LEMMA SubscriptionTypedStep ==
    SubscriptionTyped /\ OneStream /\ [TopicNext]_topicVars => SubscriptionTyped'
<1> SUFFICES ASSUME SubscriptionTyped, OneStream, [TopicNext]_topicVars
             PROVE  SubscriptionTyped'
  OBVIOUS
<1> USE DEF SubscriptionTyped
<1>1. Len(Topic) \in Nat
  BY TopicAssumption
<1>2. CASE Publish
  BY <1>1, <1>2 DEF Publish, queryVars, history
<1>3. CASE Subscribe
  BY <1>3, StreamOpened DEF Subscribe, history
<1>4. CASE Reconnect
  BY <1>4, StreamOpened DEF Reconnect, history
<1>5. CASE Unsubscribe
  BY <1>5, StreamCancelled DEF Unsubscribe, queryVars, history
<1>10. ASSUME NEW i \in DOMAIN streams, Opens(i) PROVE SubscriptionTyped'
  BY <1>10, StreamTaken DEF Opens, queryVars, history
<1>6. ASSUME NEW i \in DOMAIN streams, Data(i) PROVE SubscriptionTyped'
  <2>1. streams[i] \in StreamType /\ i \in Nat
    OBVIOUS
  <2>2. streams[i].next + 1 \in Nat
    BY <2>1 DEF StreamType
  <2> QED
    <3>1. limit' \in Nat /\ startTime' \in Nat
      BY <1>6, <2>2, ChunkReceived
    <3>2. receivedBy' \in [Position -> Nat]
      BY <1>6, <2>1, ChunkReceived
    <3> QED
      BY <1>6, <3>1, <3>2, ChunkReceived
<1>7. ASSUME NEW i \in DOMAIN streams, Completes(i) \/ FailsSilently(i)
      PROVE  SubscriptionTyped'
  BY <1>7, StreamOver DEF Completes, FailsSilently, queryVars, history
<1>8. ASSUME NEW i \in DOMAIN streams, FailsAndRetries(i) PROVE SubscriptionTyped'
  BY <1>8, StreamOver DEF FailsAndRetries, history
<1>9. CASE UNCHANGED topicVars
  BY <1>9 DEF topicVars, queryVars, history
<1> QED
  BY <1>2, <1>3, <1>4, <1>5, <1>6, <1>7, <1>8, <1>9, <1>10 DEF TopicNext

LEMMA OneStreamStep ==
    SubscriptionTyped /\ OneStream /\ [TopicNext]_topicVars => OneStream'
<1> SUFFICES ASSUME SubscriptionTyped, OneStream, [TopicNext]_topicVars
             PROVE  OneStream'
  OBVIOUS
<1> USE DEF SubscriptionTyped, OneStream, Live
<1>1. CASE UNCHANGED <<streams, call, timers>>
  BY <1>1
<1>2. CASE Subscribe
  <2>1. Len(streams) = 0
    BY <1>2 DEF Subscribe
  <2>2. \A i \in DOMAIN streams : FALSE
    BY <2>1
  <2> QED
    BY <1>2, <2>2, StreamOpened DEF Subscribe
<1>3. CASE Reconnect
  BY <1>3, StreamOpened DEF Reconnect
<1>4. CASE Unsubscribe
  BY <1>4, StreamCancelled DEF Unsubscribe, queryVars
<1>5. ASSUME NEW i \in DOMAIN streams, Data(i) PROVE OneStream'
  BY <1>5, ChunkReceived DEF Data
<1>6. ASSUME NEW i \in DOMAIN streams, Completes(i) \/ FailsSilently(i) PROVE OneStream'
  BY <1>6, StreamOver DEF Completes, FailsSilently, queryVars
<1>7. ASSUME NEW i \in DOMAIN streams, FailsAndRetries(i) PROVE OneStream'
  <2>1. Over(i) /\ Live(i) /\ timers' = timers + 1 /\ call' = call
    BY <1>7 DEF FailsAndRetries
  <2> QED
    BY <2>1, StreamOver
<1>8. ASSUME NEW i \in DOMAIN streams, Opens(i) PROVE OneStream'
  <2>1. Live(i) /\ call' = call /\ timers' = timers
    BY <1>8 DEF Opens, queryVars
  <2>2. streams[i] \in StreamType
    OBVIOUS
  <2>3. streams'[i].open = streams[i].open
    BY <1>8, <2>2, StreamTaken DEF StreamType
  <2> QED
    BY <1>8, <2>1, <2>3, StreamTaken
<1> QED
  BY <1>1, <1>2, <1>3, <1>4, <1>5, <1>6, <1>7, <1>8
  DEF TopicNext, Publish, topicVars, queryVars

(* The handle the application got from subscribe() closes whatever stream   *)
(* is open, after any number of reconnections: there is never a second     *)
(* stream, because a reconnection is only started by the end of one.       *)
THEOREM HandleCorrect == TopicSpec => []HandleCancelsStream
<1>1. OneStream => HandleCancelsStream
  BY DEF OneStream, HandleCancelsStream
<1> QED
  BY <1>1, SubscriptionInit, SubscriptionTypedStep, OneStreamStep, PTL DEF TopicSpec
------------------------------------------------------------------------------
LEMMA ReceivedPositions ==
    Len(Topic) \in Nat /\ Received \subseteq 1..Len(Topic)
<1>1. Topic \in Seq(ChunkType)
  BY TopicAssumption
<1> QED
  BY <1>1 DEF Received, Position

(* A chunk that arrives is at or after the start time, and new. *)
LEMMA ChunkIsNew ==
    ASSUME SubscriptionTyped, OneStream, InStep, NEW i \in DOMAIN streams, Data(i),
           NEW p, p = streams[i].next
    PROVE  /\ startTime <= p /\ startTime' = p + 1
           /\ p \in Position /\ p \notin Received
           /\ Received' = Received \cup {p}
<1>1. p \in 1..published /\ startTime' = p + 1
  BY ChunkReceived
<1>2. Topic \in Seq(ChunkType)
  BY TopicAssumption
<1>3. p \in 1..Len(Topic) /\ p \in Nat
  BY <1>1, <1>2 DEF SubscriptionTyped
<1>4. p \in Position
  BY <1>2, <1>3 DEF Position
<1>5. startTime <= p
  <2>1. Live(i)
    BY Zenon DEF Data
  <2>2. startTime = 0 \/ p = startTime
    BY <2>1, Zenon DEF InStep
  <2> QED
    BY <1>3, <2>2 DEF SubscriptionTyped
<1>6. p \notin Received
  <2> SUFFICES ASSUME p \in Received PROVE FALSE
    OBVIOUS
  <2>1. p < startTime
    BY DEF InStep
  <2> QED
    BY <1>3, <1>5, <2>1 DEF SubscriptionTyped
<1>7. receivedBy' = [receivedBy EXCEPT ![p] = i] /\ i # 0
  BY <1>1, ChunkReceived DEF SubscriptionTyped
<1>8. Received' = Received \cup {p}
  BY <1>4, <1>7 DEF Received, SubscriptionTyped
<1> QED
  BY <1>1, <1>4, <1>5, <1>6, <1>8

LEMMA InStepStep ==
    SubscriptionTyped /\ OneStream /\ InStep /\ [TopicNext]_topicVars => InStep'
<1> SUFFICES ASSUME SubscriptionTyped, OneStream, InStep, [TopicNext]_topicVars
             PROVE  InStep'
  OBVIOUS
<1> USE DEF InStep, Live
<1>1. CASE UNCHANGED <<streams, startTime, receivedBy>>
  BY <1>1 DEF Received
<1>2. CASE Subscribe \/ Reconnect
  <2>1. NewStream.next = startTime
    BY DEF NewStream
  <2> QED
    BY <1>2, <2>1, StreamOpened DEF Subscribe, Reconnect, Received, history
<1>3. CASE Unsubscribe
  BY <1>3, StreamCancelled DEF Unsubscribe, queryVars, Received, history
<1>6. ASSUME NEW i \in DOMAIN streams, Opens(i) PROVE InStep'
  <2>1. Live(i) /\ streams[i].next = 0 /\ UNCHANGED <<startTime, receivedBy>>
    BY <1>6 DEF Opens, queryVars, history
  <2>2. startTime = 0
    BY <2>1
  <2> QED
    BY <1>6, <2>1, <2>2, StreamTaken DEF Received
<1>4. ASSUME NEW i \in DOMAIN streams, Data(i) PROVE InStep'
  <2>1. \A j \in DOMAIN streams' : streams'[j].open => streams'[j].next = startTime'
    <3> SUFFICES ASSUME NEW j \in DOMAIN streams, streams'[j].open
                 PROVE  streams'[j].next = startTime'
      BY <1>4, ChunkReceived
    <3>1. CASE j = i
      BY <1>4, <3>1, ChunkReceived
    <3>2. CASE j # i
      <4>1. Live(i) /\ streams'[j] = streams[j]
        BY <1>4, <3>2, ChunkReceived, Zenon DEF Data
      <4>2. Live(j)
        BY <4>1
      <4> QED
        BY <3>2, <4>1, <4>2, Zenon DEF OneStream
    <3> QED
      BY <3>1, <3>2
  <2>2. \A p \in Received' : p < startTime'
    <3> DEFINE n == streams[i].next
    <3>1. n \in 1..published /\ published \in Nat
      BY <1>4, ChunkReceived DEF SubscriptionTyped
    <3>2. /\ startTime <= n /\ startTime' = n + 1
          /\ Received' = Received \cup {n}
      BY <1>4, ChunkIsNew
    <3> HIDE DEF n
    <3>3. ASSUME NEW p \in Received PROVE p < n + 1
      <4>1. p \in Nat /\ p < startTime
        BY ReceivedPositions
      <4> QED
        BY <3>1, <3>2, <4>1 DEF SubscriptionTyped
    <3>4. n < n + 1
      BY <3>1
    <3> QED
      BY <3>2, <3>3, <3>4
  <2> QED
    BY <2>1, <2>2
<1>5. ASSUME NEW i \in DOMAIN streams,
             Completes(i) \/ FailsSilently(i) \/ FailsAndRetries(i)
      PROVE  InStep'
  BY <1>5, StreamOver
  DEF Completes, FailsSilently, FailsAndRetries, queryVars, Received, history
<1> QED
  BY <1>1, <1>2, <1>3, <1>4, <1>5, <1>6
  DEF TopicNext, Publish, topicVars, queryVars, history

(* The open stream brings as many chunks as the next request would ask for, *)
(* and the first request is made with the limit that the application set.  *)
LimitShape ==
    /\ streams = <<>> => limit = wanted
    /\ \A i \in DOMAIN streams :
          /\ streams[i].unlimited /\ wanted > 0 => i > 1
          /\ Live(i) => IF streams[i].unlimited THEN limit = 0
                        ELSE streams[i].left = limit

LEMMA LimitShapeStep ==
    SubscriptionTyped /\ OneStream /\ LimitShape /\ [TopicNext]_topicVars
    => LimitShape'
<1> SUFFICES ASSUME SubscriptionTyped, OneStream, LimitShape, [TopicNext]_topicVars
             PROVE  LimitShape'
  OBVIOUS
<1>1. CASE UNCHANGED <<streams, limit, wanted>>
  BY <1>1 DEF LimitShape, Live
<1>2. CASE Subscribe \/ Reconnect
  <2>1. /\ MakeServerStreamRequest
        /\ limit' = limit /\ wanted' = wanted
    BY <1>2 DEF Subscribe, Reconnect, history
  <2>2. /\ NewStream.unlimited = (limit = 0) /\ NewStream.left = limit
    BY DEF NewStream
  <2>3. limit \in Nat /\ wanted \in Nat /\ Len(streams) \in Nat
    BY DEF SubscriptionTyped
  <2>4. DOMAIN streams = 1..Len(streams)
    BY DEF SubscriptionTyped
  <2> DEFINE n == Len(streams')
  <2>5. /\ n = Len(streams) + 1 /\ streams'[n] = NewStream
        /\ DOMAIN streams' = DOMAIN streams \cup {n}
        /\ \A i \in DOMAIN streams : streams'[i] = streams[i]
    BY <2>1, StreamOpened
  <2>6. streams' # <<>>
    BY <2>3, <2>5
  <2>7. ASSUME NEW i \in DOMAIN streams
        PROVE  ~ Live(i)
    <3>1. CASE Subscribe
      <4>1. Len(streams) = 0
        BY <3>1 DEF Subscribe, OneStream
      <4> QED
        BY <2>4, <4>1
    <3>2. CASE Reconnect
      BY <3>2 DEF Reconnect, OneStream, SubscriptionTyped
    <3> QED
      BY <1>2, <3>1, <3>2
  <2>8. NewStream.unlimited /\ wanted > 0 => n > 1
    <3> SUFFICES ASSUME NewStream.unlimited, wanted > 0, ~ n > 1 PROVE FALSE
      OBVIOUS
    <3>1. limit = 0
      BY <2>2, Zenon
    <3>2. Len(streams) = 0
      <4>1. n = Len(streams) + 1
        BY <2>5
      <4> HIDE DEF n
      <4> QED
        BY <2>3, <4>1
    <3>3. streams = <<>>
      BY <3>2 DEF SubscriptionTyped
    <3> QED
      BY <3>1, <3>3 DEF LimitShape
  <2> QED
    BY <2>1, <2>2, <2>5, <2>6, <2>7, <2>8 DEF LimitShape, Live
<1>3. CASE Unsubscribe
  <2>1. limit' = limit /\ wanted' = wanted
    BY <1>3 DEF Unsubscribe, queryVars, history
  <2>2. streams # <<>>
    BY <1>3 DEF Unsubscribe, OneStream
  <2>3. streams' # <<>>
    BY <1>3, <2>2, StreamCancelled DEF SubscriptionTyped
  <2> QED
    BY <1>3, <2>1, <2>3, StreamCancelled DEF LimitShape, Live
<1>4. ASSUME NEW i \in DOMAIN streams, Data(i) PROVE LimitShape'
  <2>1. /\ DOMAIN streams' = DOMAIN streams
        /\ streams'[i].unlimited = streams[i].unlimited
        /\ streams'[i].left = IF streams[i].unlimited THEN streams[i].left
                              ELSE streams[i].left - 1
        /\ streams[i].unlimited \/ streams[i].left > 0
        /\ \A j \in DOMAIN streams \ {i} : streams'[j] = streams[j]
        /\ limit' = IF limit > 0 THEN limit - 1 ELSE limit
        /\ wanted' = wanted
    BY <1>4, ChunkReceived
  <2>2. Live(i)
    BY <1>4, Zenon DEF Data
  <2>3. \A j \in DOMAIN streams \ {i} : ~ Live(j)
    BY <2>2 DEF OneStream
  <2>4. streams # <<>> /\ streams' # <<>>
    BY <1>4, ChunkReceived DEF SubscriptionTyped
  <2>5. IF streams[i].unlimited THEN limit' = 0 ELSE streams'[i].left = limit'
    BY <2>1, <2>2 DEF LimitShape, SubscriptionTyped
  <2> QED
    BY <2>1, <2>3, <2>4, <2>5 DEF LimitShape, Live
<1>5. ASSUME NEW i \in DOMAIN streams,
             Completes(i) \/ FailsSilently(i) \/ FailsAndRetries(i)
      PROVE  LimitShape'
  <2>1. Over(i) /\ limit' = limit /\ wanted' = wanted
    BY <1>5 DEF Completes, FailsSilently, FailsAndRetries, queryVars, history
  <2>2. streams[i] \in StreamType /\ streams' = [streams EXCEPT ![i].open = FALSE]
    BY <2>1 DEF Over, SubscriptionTyped
  <2>3. streams'[i].unlimited = streams[i].unlimited
    BY <2>2 DEF StreamType
  <2>4. streams # <<>> /\ streams' # <<>>
    BY <2>1, StreamOver DEF SubscriptionTyped
  <2> QED
    BY <2>1, <2>3, <2>4, StreamOver DEF LimitShape, Live
<1>6. ASSUME NEW i \in DOMAIN streams, Opens(i) PROVE LimitShape'
  <2>1. limit' = limit /\ wanted' = wanted
    BY <1>6 DEF Opens, queryVars, history
  <2>2. streams[i] \in StreamType
    BY DEF SubscriptionTyped
  <2>3. /\ streams'[i].unlimited = streams[i].unlimited
        /\ streams'[i].left = streams[i].left
        /\ streams'[i].open = streams[i].open
    BY <1>6, <2>2, StreamTaken DEF StreamType
  <2>4. streams # <<>> /\ streams' # <<>>
    BY <1>6, StreamTaken DEF SubscriptionTyped
  <2> QED
    BY <1>6, <2>1, <2>3, <2>4, StreamTaken DEF LimitShape, Live
<1> QED
  BY <1>1, <1>2, <1>3, <1>4, <1>5, <1>6
  DEF TopicNext, Publish, topicVars, queryVars, history

LEMMA LimitStep ==
    SubscriptionTyped /\ OneStream /\ InStep /\ LimitShape /\ LimitConserved
    /\ [TopicNext]_topicVars => LimitConserved'
<1> SUFFICES ASSUME SubscriptionTyped, OneStream, InStep, LimitShape, LimitConserved,
                    [TopicNext]_topicVars, wanted' > 0
             PROVE  LET count == Cardinality(Received)
                    IN (\/ count + limit = wanted
                        \/ count > wanted /\ limit = 0 /\ AskedForAll)'
  BY DEF LimitConserved
<1>1. wanted' = wanted
  <2>1. ASSUME NEW i \in DOMAIN streams, Data(i) PROVE wanted' = wanted
    BY <2>1, ChunkReceived
  <2> QED
    BY <2>1 DEF TopicNext, Publish, Subscribe, Reconnect, Unsubscribe, Opens,
      Completes, FailsSilently, FailsAndRetries, topicVars, queryVars, history
<1>2. AskedForAll => AskedForAll'
  <2> SUFFICES ASSUME NEW k \in DOMAIN streams, k > 1, streams[k].unlimited
               PROVE  k \in DOMAIN streams' /\ streams'[k].unlimited
    BY DEF AskedForAll
  <2>1. streams \in Seq(StreamType) /\ streams[k] \in StreamType
    BY DEF SubscriptionTyped
  <2>2. CASE UNCHANGED streams
    BY <2>2
  <2>3. CASE Subscribe \/ Reconnect
    BY <2>3, StreamOpened DEF Subscribe, Reconnect
  <2>4. CASE Unsubscribe
    BY <2>4, StreamCancelled
  <2>5. ASSUME NEW i \in DOMAIN streams, Data(i)
        PROVE  k \in DOMAIN streams' /\ streams'[k].unlimited
    BY <2>5, ChunkReceived
  <2>6. ASSUME NEW i \in DOMAIN streams,
               Completes(i) \/ FailsSilently(i) \/ FailsAndRetries(i)
        PROVE  k \in DOMAIN streams' /\ streams'[k].unlimited
    <3>1. Over(i)
      BY <2>6 DEF Completes, FailsSilently, FailsAndRetries
    <3> QED
      BY <2>1, <3>1 DEF Over, StreamType
  <2>7. ASSUME NEW i \in DOMAIN streams, Opens(i)
        PROVE  k \in DOMAIN streams' /\ streams'[k].unlimited
    BY <2>1, <2>7, StreamTaken DEF StreamType
  <2> QED
    BY <2>2, <2>3, <2>4, <2>5, <2>6, <2>7 DEF TopicNext, Publish, topicVars
<1>3. CASE UNCHANGED <<limit, receivedBy>>
  BY <1>1, <1>2, <1>3 DEF LimitConserved, Received
<1>4. ASSUME NEW i \in DOMAIN streams, Data(i)
      PROVE  LET count == Cardinality(Received)
             IN (\/ count + limit = wanted
                 \/ count > wanted /\ limit = 0 /\ AskedForAll)'
  <2>1. limit' = IF limit > 0 THEN limit - 1 ELSE limit
    BY <1>4, ChunkReceived
  <2>2. IsFiniteSet(Received)
    <3>1. IsFiniteSet(1..Len(Topic)) /\ Received \subseteq 1..Len(Topic)
      BY ReceivedPositions, FS_Interval
    <3> QED
      BY <3>1, FS_Subset
  <2>3. Cardinality(Received') = Cardinality(Received) + 1
    <3> DEFINE p == streams[i].next
    <3>1. Received' = Received \cup {p} /\ p \notin Received
      BY <1>4, ChunkIsNew
    <3> HIDE DEF p
    <3>2. Cardinality(Received \cup {p}) =
            IF p \in Received THEN Cardinality(Received) ELSE Cardinality(Received) + 1
      BY <2>2, FS_AddElement, Zenon
    <3> QED
      BY <3>1, <3>2
  <2>4. Cardinality(Received) \in Nat
    BY <2>2, FS_CardinalityType
  <2>5. limit = 0 => AskedForAll
    <3>1. Live(i) /\ (streams[i].unlimited \/ streams[i].left > 0)
      BY <1>4, ChunkReceived, Zenon DEF Data
    <3>2. limit = 0 => streams[i].unlimited
      BY <3>1 DEF LimitShape
    <3>3. streams[i].unlimited => i > 1
      BY <1>1 DEF LimitShape
    <3> QED
      BY <3>2, <3>3 DEF AskedForAll
  <2>6. \/ Cardinality(Received) + limit = wanted
        \/ Cardinality(Received) > wanted /\ limit = 0
    BY <1>1 DEF LimitConserved
  <2>7. limit \in Nat /\ wanted \in Nat
    BY DEF SubscriptionTyped
  <2>8. \/ Cardinality(Received') + limit' = wanted
        \/ Cardinality(Received') > wanted /\ limit' = 0 /\ limit = 0
    BY <2>1, <2>3, <2>4, <2>6, <2>7
  <2> QED
    BY <1>1, <1>2, <2>5, <2>8
<1> QED
  BY <1>3, <1>4
  DEF TopicNext, Publish, Subscribe, Reconnect, Unsubscribe, Opens, Completes,
      FailsSilently, FailsAndRetries, topicVars, queryVars, history

(* Over all the streams of a subscription, whatever breaks them, the chunks *)
(* received and the limit of the next request add up to the limit the      *)
(* application set: nothing is asked for twice or left out, until a request *)
(* of a reconnection asks for everything because nothing is missing.       *)
THEOREM LimitCorrect == TopicSpec => []LimitConserved
<1>1. TopicInit => LimitShape /\ LimitConserved
  <2> SUFFICES ASSUME TopicInit PROVE LimitShape /\ LimitConserved
    OBVIOUS
  <2>1. Received = {}
    BY DEF TopicInit, Received
  <2>2. wanted \in Nat /\ limit = wanted /\ streams = <<>>
    BY SettingAssumption DEF TopicInit
  <2> QED
    BY <2>1, <2>2, FS_EmptySet DEF LimitShape, LimitConserved
<1> QED
  BY <1>1, SubscriptionInit, SubscriptionTypedStep, OneStreamStep, InStepStep,
     LimitShapeStep, LimitStep, PTL DEF TopicSpec
------------------------------------------------------------------------------
(* What the listener can be called with. *)
Deliverable == {[msg |-> m, chunks |-> OfMany(c)] : m \in Message, c \in Seq(Nat)}

(* The chunks of m that stream i has brought. *)
Brought(i, m) == {p \in Chunks(m) : receivedBy[p] = i}

(* A stream holds no more chunks of a message than it has brought, and of a *)
(* message that was delivered every chunk has been received.               *)
Assembling ==
    /\ delivered \in Seq(Deliverable)
    /\ \A i \in DOMAIN streams : \A m \in Message :
          Len(streams[i].list[m]) <= Cardinality(Brought(i, m))
    /\ \A d \in DOMAIN delivered : Chunks(delivered[d].msg) \subseteq Received

(* A message has at most as many chunks as each of them says. *)
LEMMA ChunksCounted ==
    ASSUME NEW p \in Position
    PROVE  /\ Topic[p] \in ChunkType
           /\ IsFiniteSet(Chunks(Topic[p].msg))
           /\ Cardinality(Chunks(Topic[p].msg)) <= Topic[p].total
<1> DEFINE m == Topic[p].msg
           total == Topic[p].total
<1>1. Topic \in Seq(ChunkType)
  BY TopicAssumption
<1>2. \A q \in Position : Topic[q] \in ChunkType
  BY <1>1 DEF Position
<1>3. Chunks(m) \subseteq 1..Len(Topic) /\ Len(Topic) \in Nat
  BY <1>1 DEF Chunks, Position
<1>4. IsFiniteSet(Chunks(m))
  <2>1. IsFiniteSet(1..Len(Topic))
    BY <1>3, FS_Interval
  <2> QED
    BY <1>3, <2>1, FS_Subset
<1>5. total \in Nat /\ IsFiniteSet(1..total) /\ Cardinality(1..total) = total
  <2>1. total \in Nat \ {0}
    BY <1>2 DEF ChunkType
  <2> HIDE DEF total
  <2>2. /\ IsFiniteSet(1..total)
        /\ Cardinality(1..total) = IF 1 > total THEN 0 ELSE total - 1 + 1
    BY <2>1, FS_Interval
  <2> QED
    BY <2>1, <2>2
<1>6. ASSUME total < Cardinality(Chunks(m)) PROVE FALSE
  <2> DEFINE f == [q \in Chunks(m) |-> Topic[q].number]
  <2>1. ASSUME NEW q \in Chunks(m) PROVE Topic[q].number \in 1..total
    <3>1. q \in Position /\ Topic[q].msg = m
      BY DEF Chunks
    <3>2. Topic[q].number <= Topic[q].total /\ Topic[q].total = total
      BY <3>1, TopicAssumption DEF Position
    <3>3. Topic[q].number \in Nat \ {0}
      BY <1>2, <3>1 DEF ChunkType
    <3> QED
      BY <1>5, <3>2, <3>3
  <2>2. f \in [Chunks(m) -> 1..total]
    BY <2>1
  <2>3. Cardinality(1..total) < Cardinality(Chunks(m))
    BY <1>5, <1>6
  <2>4. \E x, y \in Chunks(m) : x # y /\ f[x] = f[y]
    <3> HIDE DEF f, m, total
    <3> QED
      BY <1>4, <1>5, <2>2, <2>3, FS_PigeonHole
  <2>5. PICK x, y \in Chunks(m) : x # y /\ Topic[x].number = Topic[y].number
    BY <2>4
  <2> QED
    BY <2>5, TopicAssumption DEF Chunks, Position
<1> QED
  BY <1>2, <1>4, <1>5, <1>6, FS_CardinalityType

LEMMA BroughtFinite ==
    ASSUME NEW i, NEW m
    PROVE  IsFiniteSet(Brought(i, m)) /\ Cardinality(Brought(i, m)) \in Nat
<1>1. Topic \in Seq(ChunkType)
  BY TopicAssumption
<1>2. Brought(i, m) \subseteq 1..Len(Topic) /\ Len(Topic) \in Nat
  BY <1>1 DEF Brought, Chunks, Position
<1>3. IsFiniteSet(1..Len(Topic))
  BY <1>2, FS_Interval
<1> QED
  BY <1>2, <1>3, FS_Subset, FS_CardinalityType

(* Only the callback for a chunk changes what a stream holds. *)
LEMMA ListsKept ==
    ASSUME SubscriptionTyped, OneStream,
           \/ Unsubscribe
           \/ \E i \in DOMAIN streams :
                 Opens(i) \/ Completes(i) \/ FailsAndRetries(i) \/ FailsSilently(i)
    PROVE  /\ DOMAIN streams' = DOMAIN streams
           /\ \A j \in DOMAIN streams : streams'[j].list = streams[j].list
<1>1. \A j \in DOMAIN streams : streams[j] \in StreamType
  BY DEF SubscriptionTyped
<1>2. ASSUME NEW i \in DOMAIN streams, Over(i)
      PROVE  /\ DOMAIN streams' = DOMAIN streams
             /\ \A j \in DOMAIN streams : streams'[j].list = streams[j].list
  BY <1>1, <1>2 DEF Over, StreamType
<1>3. CASE Unsubscribe
  BY <1>1, <1>3 DEF Unsubscribe, StreamType
<1>4. ASSUME NEW i \in DOMAIN streams, Opens(i)
      PROVE  /\ DOMAIN streams' = DOMAIN streams
             /\ \A j \in DOMAIN streams : streams'[j].list = streams[j].list
  BY <1>1, <1>4, StreamTaken DEF StreamType
<1> QED
  BY <1>2, <1>3, <1>4 DEF Completes, FailsAndRetries, FailsSilently

(* What the callback for a chunk does to the lists and to the listener. *)
LEMMA ChunkHandled ==
    ASSUME SubscriptionTyped, NEW i \in DOMAIN streams, Data(i),
           streams[i].next \in Position
    PROVE  LET p == streams[i].next
               m == Topic[p].msg
               old == streams[i].list
               new == streams'[i].list
           IN /\ m \in Message
              /\ old \in [Message -> Seq(Nat)]
              /\ \A k \in Message \ {m} : new[k] = old[k]
              /\ Len(new[m]) \in Nat /\ Len(new[m]) <= Len(old[m]) + 1
              /\ \/ delivered' = delivered
                 \/ /\ Topic[p].total = 1 \/ Len(old[m]) + 1 = Topic[p].total
                    /\ \E e \in Deliverable :
                          e.msg = m /\ delivered' = Append(delivered, e)
<1> DEFINE p == streams[i].next
           chunk == Topic[p]
           m == chunk.msg
           old == streams[i].list
           list == [old EXCEPT ![m] = Append(@, chunk.number)]
           whole == chunk.total = 1 \/ Len(list[m]) = chunk.total
           after == IF whole THEN Completed(list, m) ELSE list
<1>1. streams[i] \in StreamType /\ chunk \in ChunkType
  BY ChunksCounted DEF SubscriptionTyped
<1>2. m \in Message /\ chunk.number \in Nat /\ old \in [Message -> Seq(Nat)]
  BY <1>1 DEF StreamType, ChunkType
<1>3. streams'[i].list = after
  BY <1>1 DEF Data, StreamType
<1>4. /\ list[m] = Append(old[m], chunk.number) /\ list[m] \in Seq(Nat)
      /\ \A k \in Message \ {m} : list[k] = old[k]
      /\ DOMAIN list = Message
  BY <1>2
<1>6. delivered' = IF whole THEN Append(delivered, [msg |-> m, chunks |-> OfMany(list[m])])
                   ELSE delivered
  BY Zenon DEF Data
<1> HIDE DEF list, chunk
<1>5. Len(list[m]) = Len(old[m]) + 1 /\ Len(old[m]) \in Nat
  <2>1. old[m] \in Seq(Nat)
    BY <1>2
  <2> QED
    BY <1>2, <1>4, <2>1
<1>7. [msg |-> m, chunks |-> OfMany(list[m])] \in Deliverable
  <2>1. ASSUME NEW k \in Message, NEW c \in Seq(Nat)
        PROVE  [msg |-> k, chunks |-> OfMany(c)] \in Deliverable
    BY DEF Deliverable
  <2> QED
    BY <1>2, <1>4, <2>1, Zenon
<1>8. /\ \A k \in Message \ {m} : after[k] = old[k]
      /\ Len(after[m]) \in Nat /\ Len(after[m]) <= Len(old[m]) + 1
  <2>1. CASE whole
    <3>1. after = [list EXCEPT ![m] = <<>>]
      BY <2>1, Zenon DEF Completed
    <3>2. after[m] = <<>> /\ \A k \in Message \ {m} : after[k] = list[k]
      BY <1>2, <1>4, <3>1, Zenon
    <3>3. Len(<<>>) = 0
      OBVIOUS
    <3> HIDE DEF after
    <3> QED
      BY <1>4, <1>5, <3>2, <3>3
  <2>2. CASE ~ whole
    BY <1>4, <1>5, <2>2
  <2> QED
    BY <2>1, <2>2
<1> QED
  BY <1>2, <1>3, <1>5, <1>6, <1>7, <1>8 DEF chunk

(* Every step keeps the lists within what their streams brought: a message that is
   delivered has all its chunks, so that no later chunk can be one of it. *)
LEMMA AssemblingStep ==
    ASSUME SubscriptionTyped, OneStream, InStep, Assembling, DeliveredOnce,
           [TopicNext]_topicVars
    PROVE  Assembling' /\ DeliveredOnce'
<1>1. CASE UNCHANGED <<streams, receivedBy, delivered>>
  BY <1>1 DEF Assembling, DeliveredOnce, Brought, Received
<1>2. CASE Subscribe \/ Reconnect
  <2>1. MakeServerStreamRequest /\ UNCHANGED <<receivedBy, delivered>>
    BY <1>2 DEF Subscribe, Reconnect, history
  <2>2. DeliveredOnce' /\ Received' = Received
    BY <2>1 DEF DeliveredOnce, Received
  <2>3. ASSUME NEW j \in DOMAIN streams', NEW m \in Message
        PROVE  Len(streams'[j].list[m]) <= Cardinality(Brought(j, m)')
    <3>1. Brought(j, m)' = Brought(j, m)
      BY <2>1 DEF Brought
    <3>2. CASE j \in DOMAIN streams
      BY <2>1, <3>1, <3>2, StreamOpened DEF Assembling
    <3>3. CASE j = Len(streams')
      <4>1. streams'[j].list[m] = <<>>
        BY <2>1, <3>3, StreamOpened DEF NewStream
      <4>2. Cardinality(Brought(j, m)) \in Nat
        BY BroughtFinite
      <4>3. Len(<<>>) = 0
        OBVIOUS
      <4> QED
        BY <3>1, <4>1, <4>2, <4>3
    <3> QED
      BY <2>1, <3>2, <3>3, StreamOpened
  <2> QED
    BY <2>1, <2>2, <2>3 DEF Assembling
<1>3. CASE \/ Unsubscribe
           \/ \E i \in DOMAIN streams :
                 Opens(i) \/ Completes(i) \/ FailsAndRetries(i) \/ FailsSilently(i)
  <2>1. UNCHANGED <<receivedBy, delivered>>
    BY <1>3 DEF Unsubscribe, Opens, Completes, FailsAndRetries, FailsSilently,
      queryVars, history
  <2> QED
    BY <1>3, <2>1, ListsKept DEF Assembling, DeliveredOnce, Brought, Received
<1>4. ASSUME NEW i \in DOMAIN streams, Data(i) PROVE Assembling' /\ DeliveredOnce'
  <2>1. PICK p \in Position :
             /\ streams[i].next = p /\ p \notin Received /\ Received' = Received \cup {p}
    BY <1>4, ChunkIsNew
  <2> DEFINE m == Topic[p].msg
             old == streams[i].list
             new == streams'[i].list
  <2>2. /\ m \in Message /\ old \in [Message -> Seq(Nat)]
        /\ \A k \in Message \ {m} : new[k] = old[k]
        /\ Len(new[m]) \in Nat /\ Len(new[m]) <= Len(old[m]) + 1
        /\ \/ delivered' = delivered
           \/ /\ Topic[p].total = 1 \/ Len(old[m]) + 1 = Topic[p].total
              /\ \E e \in Deliverable : e.msg = m /\ delivered' = Append(delivered, e)
    BY <1>4, <2>1, ChunkHandled
  <2>3. /\ receivedBy' = [receivedBy EXCEPT ![p] = i] /\ receivedBy[p] = 0 /\ i # 0
        /\ DOMAIN streams' = DOMAIN streams
        /\ \A j \in DOMAIN streams \ {i} : streams'[j] = streams[j]
    BY <1>4, <2>1, ChunkReceived DEF Received, SubscriptionTyped
  <2>4. p \in Chunks(m) /\ p \notin Brought(i, m)
    BY <2>1, <2>3 DEF Chunks, Brought
  <2>5. Brought(i, m)' = Brought(i, m) \cup {p}
    <3>1. receivedBy'[p] = i /\ \A q \in Position \ {p} : receivedBy'[q] = receivedBy[q]
      BY <2>1, <2>3 DEF SubscriptionTyped
    <3>2. Chunks(m) \subseteq Position
      BY DEF Chunks
    <3>3. Brought(i, m)' = {q \in Chunks(m) : receivedBy'[q] = i}
      BY DEF Brought
    <3>4. Brought(i, m) = {q \in Chunks(m) : receivedBy[q] = i}
      BY DEF Brought
    <3> HIDE DEF m
    <3> QED
      BY <2>4, <3>1, <3>2, <3>3, <3>4
  <2>6. \A j, k : j # 0 /\ <<j, k>> # <<i, m>> => Brought(j, k)' = Brought(j, k)
    BY <2>1, <2>3 DEF Brought, SubscriptionTyped, Chunks
  <2>7. /\ IsFiniteSet(Brought(i, m)) /\ Cardinality(Brought(i, m)) \in Nat
        /\ Cardinality(Brought(i, m)') = Cardinality(Brought(i, m)) + 1
        /\ Len(old[m]) <= Cardinality(Brought(i, m)) /\ Len(old[m]) \in Nat
    <3>1. IsFiniteSet(Brought(i, m)) /\ Cardinality(Brought(i, m)) \in Nat
      BY BroughtFinite
    <3>2. Cardinality(Brought(i, m) \cup {p}) = Cardinality(Brought(i, m)) + 1
      BY <2>4, <3>1, FS_AddElement
    <3>3. Len(old[m]) <= Cardinality(Brought(i, m))
      BY <2>2 DEF Assembling
    <3>4. old[m] \in Seq(Nat)
      BY <2>2
    <3> QED
      BY <2>5, <3>1, <3>2, <3>3, <3>4
  <2> HIDE DEF m, old, new
  <2>8. ASSUME NEW j \in DOMAIN streams', NEW k \in Message
        PROVE  Len(streams'[j].list[k]) <= Cardinality(Brought(j, k)')
    <3>1. j \in DOMAIN streams /\ j # 0 /\ Len(streams[j].list[k]) <= Cardinality(Brought(j, k))
      BY <2>3 DEF Assembling, SubscriptionTyped
    <3>2. CASE j = i /\ k = m
      <4>1. Len(new[m]) <= Cardinality(Brought(i, m)')
        BY <2>2, <2>7
      <4>2. streams'[j].list[k] = new[m] /\ Brought(j, k)' = Brought(i, m)'
        BY <3>2 DEF new
      <4> QED
        BY <4>1, <4>2
    <3>3. CASE j = i /\ k # m
      BY <2>2, <2>6, <3>1, <3>3 DEF new, old
    <3>4. CASE j # i
      BY <2>3, <2>6, <3>1, <3>4
    <3> QED
      BY <3>2, <3>3, <3>4
  <2>9. CASE delivered' = delivered
    BY <2>1, <2>8, <2>9 DEF Assembling, DeliveredOnce
  <2>10. ASSUME Topic[p].total = 1 \/ Len(old[m]) + 1 = Topic[p].total,
                NEW e \in Deliverable, e.msg = m, delivered' = Append(delivered, e)
         PROVE  Assembling' /\ DeliveredOnce'
    <3>1. IsFiniteSet(Chunks(m)) /\ Cardinality(Chunks(m)) <= Topic[p].total
      BY <2>1, ChunksCounted DEF m
    <3>2. Topic[p].total \in Nat \ {0} /\ Cardinality(Chunks(m)) \in Nat
      BY <2>1, <3>1, ChunksCounted, FS_CardinalityType DEF ChunkType
    <3>3. Brought(i, m)' \subseteq Chunks(m) /\ Brought(i, m)' \subseteq Received'
      BY <2>3, <2>5, <2>4, <2>1 DEF Brought, Received, Chunks
    <3>4. Cardinality(Brought(i, m)') <= Cardinality(Chunks(m))
      BY <3>1, <3>3, FS_Subset
    <3>5. Cardinality(Brought(i, m)') = Cardinality(Chunks(m))
      BY <2>7, <2>10, <3>1, <3>2, <3>4
    <3>6. Chunks(m) \subseteq Received'
      BY <3>1, <3>3, <3>5, FS_Subset
    <3>7. /\ delivered \in Seq(Deliverable)
          /\ DOMAIN delivered' = DOMAIN delivered \cup {Len(delivered) + 1}
          /\ \A d \in DOMAIN delivered : delivered'[d] = delivered[d]
          /\ delivered'[Len(delivered) + 1] = e
          /\ delivered' \in Seq(Deliverable)
      BY <2>10 DEF Assembling
    <3>8. \A d \in DOMAIN delivered : delivered[d].msg # m
      BY <2>1, <2>4 DEF Assembling
    <3>9. DeliveredOnce'
      BY <2>10, <3>7, <3>8 DEF DeliveredOnce
    <3>10. \A d \in DOMAIN delivered' : Chunks(delivered'[d].msg) \subseteq Received'
      BY <2>1, <2>10, <3>6, <3>7 DEF Assembling
    <3> QED
      BY <2>8, <3>7, <3>9, <3>10 DEF Assembling
  <2> QED
    BY <2>2, <2>9, <2>10
<1> QED
  BY <1>1, <1>2, <1>3, <1>4 DEF TopicNext, Publish, topicVars, queryVars, history

(* No message reaches the listener twice, for any topic whose chunks are    *)
(* numbered within their messages, however often the stream breaks and     *)
(* whatever of a message the streams before it had brought.                *)
THEOREM DeliveredCorrect == TopicSpec => []DeliveredOnce
<1>1. TopicInit => Assembling /\ DeliveredOnce
  BY DEF TopicInit, Assembling, DeliveredOnce
<1> QED
  BY <1>1, SubscriptionInit, SubscriptionTypedStep, OneStreamStep, InStepStep,
     AssemblingStep, PTL DEF TopicSpec
------------------------------------------------------------------------------
(* Different numbers within an interval are no more than it has.            *)
(* Counting replaces induction in this and in the next lemmas.             *)
LEMMA Injected ==
    ASSUME NEW a \in Int, NEW b \in Int, NEW c \in Int, NEW d \in Int,
           NEW f \in [a..b -> c..d], a <= b,
           \A x, y \in a..b : f[x] = f[y] => x = y
    PROVE  b - a <= d - c
<1> SUFFICES ASSUME d - c < b - a PROVE FALSE
  OBVIOUS
<1>1. IsFiniteSet(a..b) /\ Cardinality(a..b) = b - a + 1
  BY FS_Interval
<1>2. IsFiniteSet(c..d) /\ Cardinality(c..d) = IF c > d THEN 0 ELSE d - c + 1
  BY FS_Interval
<1>3. Cardinality(c..d) < Cardinality(a..b)
  BY <1>1, <1>2
<1> QED
  BY <1>1, <1>2, <1>3, FS_PigeonHole

(* Numbers that grow and stay within 1..t, t of them, are 1 to t. *)
LEMMA Increasing ==
    ASSUME NEW t \in Nat, NEW f \in [1..t -> 1..t], NEW n \in 1..t,
           \A x, y \in 1..t : x < y => f[x] < f[y]
    PROVE  f[n] = n
<1>1. \A x, y \in 1..t : f[x] = f[y] => x = y
  <2> SUFFICES ASSUME NEW x \in 1..t, NEW y \in 1..t, f[x] = f[y], x # y PROVE FALSE
    OBVIOUS
  <2>1. f[x] \in Int /\ (f[x] < f[y] \/ f[y] < f[x])
    OBVIOUS
  <2> QED
    BY <2>1
<1>2. n <= f[n]
  <2> DEFINE g == [x \in 1..n |-> f[x]]
  <2>1. ASSUME NEW x \in 1..n PROVE f[x] \in 1..f[n] /\ x \in 1..t
    <3>1. x \in 1..t /\ f[x] \in 1..t /\ f[n] \in 1..t
      OBVIOUS
    <3>2. x = n \/ x < n
      OBVIOUS
    <3>3. x = n \/ f[x] < f[n]
      BY <3>1, <3>2, Zenon
    <3>4. PICK u \in 1..t, v \in 1..t : u = f[x] /\ v = f[n]
      BY <3>1, Zenon
    <3>5. u = v \/ u < v
      BY <3>3, <3>4, Zenon
    <3>6. u \in 1..v
      BY <3>5
    <3> QED
      BY <3>1, <3>4, <3>6, Zenon
  <2>2. g \in [1..n -> 1..f[n]]
    BY <2>1
  <2>3. \A x, y \in 1..n : g[x] = g[y] => x = y
    BY <1>1, <2>1
  <2>4. 1 \in Int /\ n \in Int /\ f[n] \in Int /\ 1 <= n
    OBVIOUS
  <2> HIDE DEF g
  <2>5. n - 1 <= f[n] - 1
    BY <2>2, <2>3, <2>4, Injected
  <2> QED
    BY <2>4, <2>5
<1>3. f[n] <= n
  <2> DEFINE g == [x \in n..t |-> f[x]]
  <2>1. ASSUME NEW x \in n..t PROVE f[x] \in f[n]..t /\ x \in 1..t
    <3>1. x \in 1..t /\ f[x] \in 1..t /\ f[n] \in 1..t
      OBVIOUS
    <3>2. x = n \/ n < x
      OBVIOUS
    <3>3. x = n \/ f[n] < f[x]
      BY <3>1, <3>2, Zenon
    <3>4. PICK u \in 1..t, v \in 1..t : u = f[x] /\ v = f[n]
      BY <3>1, Zenon
    <3>5. u = v \/ v < u
      BY <3>3, <3>4, Zenon
    <3>6. u \in v..t
      BY <3>5
    <3> QED
      BY <3>1, <3>4, <3>6, Zenon
  <2>2. g \in [n..t -> f[n]..t]
    BY <2>1
  <2>3. \A x, y \in n..t : g[x] = g[y] => x = y
    BY <1>1, <2>1
  <2>4. t \in Int /\ n \in Int /\ f[n] \in Int /\ n <= t
    OBVIOUS
  <2> HIDE DEF g
  <2>5. t - n <= t - f[n]
    BY <2>2, <2>3, <2>4, Injected
  <2> QED
    BY <2>4, <2>5
<1>4. n \in Int /\ f[n] \in Int
  OBVIOUS
<1> QED
  BY <1>2, <1>3, <1>4

(* Of t different numbers within 1..t, none is missing. *)
Different(f, t) == \A x, y \in 1..t : f[x] = f[y] => x = y
Onto(f, t) == \A n \in 1..t : \E x \in 1..t : f[x] = n

LEMMA AllNumbers ==
    \A t \in Nat : \A f \in [1..t -> 1..t] : Different(f, t) => Onto(f, t)
<1> SUFFICES ASSUME NEW t \in Nat, NEW f \in [1..t -> 1..t], Different(f, t),
                    NEW n \in 1..t
             PROVE  \E x \in 1..t : f[x] = n
  BY Zenon DEF Onto
<1> SUFFICES ASSUME \A x \in 1..t : f[x] # n PROVE FALSE
  OBVIOUS
<1>1. PICK S, T : S = 1..t /\ T = (1..t) \ {n}
  OBVIOUS
<1>2. f \in [S -> T]
  BY <1>1
<1>3. IsFiniteSet(S) /\ Cardinality(S) = t
  <2>1. IsFiniteSet(1..t) /\ Cardinality(1..t) = IF 1 > t THEN 0 ELSE t - 1 + 1
    BY FS_Interval
  <2> QED
    BY <1>1, <2>1
<1>4. IsFiniteSet(T) /\ Cardinality(T) = t - 1
  <2>1. T = S \ {n} /\ n \in S
    BY <1>1
  <2>2. /\ IsFiniteSet(S \ {n})
        /\ Cardinality(S \ {n}) = IF n \in S THEN Cardinality(S) - 1 ELSE Cardinality(S)
    BY <1>3, FS_RemoveElement, Zenon
  <2> QED
    BY <1>3, <2>1, <2>2
<1>5. Cardinality(T) < Cardinality(S)
  BY <1>3, <1>4
<1>6. \E x, y \in S : x # y /\ f[x] = f[y]
  <2>1. ASSUME NEW g \in [S -> T] PROVE \E x, y \in S : x # y /\ g[x] = g[y]
    BY <1>3, <1>4, <1>5, FS_PigeonHole
  <2> QED
    BY <1>2, <2>1, Zenon
<1> QED
  BY <1>1, <1>6, Zenon DEF Different

(* _ofMany: the chunks of a message, in any order, become 1, 2, and so on. *)
LEMMA SortedNumbers ==
    ASSUME NEW t \in Nat, NEW r \in Seq(Nat), Len(r) = t,
           \A x \in 1..t : r[x] \in 1..t,
           \A x, y \in 1..t : r[x] = r[y] => x = y
    PROVE  OfMany(r) = [n \in 1..t |-> n]
<1> DEFINE D == DOMAIN r
           Fits(f) == \A a, b \in D : /\ f[a] = f[b] => a = b
                                      /\ a < b => r[f[a]] <= r[f[b]]
           order == CHOOSE f \in [D -> D] : Fits(f)
           s == [n \in D |-> r[order[n]]]
<1>1. D = 1..t
  OBVIOUS
<1>2. OfMany(r) = s
  BY DEF OfMany
<1> HIDE DEF D
<1>3. r \in [1..t -> 1..t]
  BY <1>1 DEF D
<1>4. \A n \in 1..t : \E x \in 1..t : r[x] = n
  <2>1. Different(r, t)
    BY Zenon DEF Different
  <2>2. Onto(r, t)
    BY <1>3, <2>1, AllNumbers, Zenon
  <2> QED
    BY <2>2, Zenon DEF Onto
<1>5. \E f \in [D -> D] : Fits(f)
  <2> DEFINE g == [n \in 1..t |-> CHOOSE x \in 1..t : r[x] = n]
  <2>1. g \in [1..t -> 1..t] /\ \A n \in 1..t : r[g[n]] = n
    BY <1>4
  <2> HIDE DEF g
  <2>2. Fits(g)
    BY <1>1, <2>1
  <2> QED
    BY <1>1, <2>1, <2>2
<1>6. order \in [1..t -> 1..t] /\ Fits(order)
  <2> HIDE DEF Fits
  <2>1. order \in [D -> D] /\ Fits(order)
    BY <1>5, Zenon
  <2> QED
    BY <1>1, <2>1
<1> HIDE DEF order
<1>7. s \in [1..t -> 1..t]
  BY <1>1, <1>3, <1>6
<1>8. \A x, y \in 1..t : x < y => s[x] < s[y]
  <2> SUFFICES ASSUME NEW x \in 1..t, NEW y \in 1..t, x < y PROVE s[x] < s[y]
    OBVIOUS
  <2>1. order[x] \in 1..t /\ order[y] \in 1..t /\ order[x] # order[y]
    BY <1>1, <1>6
  <2>2. r[order[x]] <= r[order[y]] /\ r[order[x]] # r[order[y]]
    BY <1>1, <1>6, <2>1
  <2>3. r[order[x]] \in Int /\ r[order[y]] \in Int
    <3>1. \A z \in 1..t : r[z] \in Int
      OBVIOUS
    <3> QED
      BY <2>1, <3>1, Zenon
  <2> QED
    BY <1>1, <2>2, <2>3
<1> HIDE DEF s
<1>9. \A n \in 1..t : s[n] = n
  BY <1>7, <1>8, Increasing
<1> QED
  BY <1>2, <1>7, <1>9
------------------------------------------------------------------------------
(* The listener was called with message m. *)
IsDelivered(m) == \E d \in DOMAIN delivered : delivered[d].msg = m

(* The list l that stream i holds of message m: chunks that it has brought, *)
(* each once, all of them unless m was delivered, and one less than the    *)
(* message has at most.                                                    *)
Listed(i, m, l) ==
    /\ \A j \in DOMAIN l : \E p \in Brought(i, m) : Topic[p].number = l[j]
    /\ \A j, k \in DOMAIN l : l[j] = l[k] => j = k
    /\ \A p \in Chunks(m) : Len(l) < Topic[p].total
    /\ \/ \A p \in Brought(i, m) : \E j \in DOMAIN l : l[j] = Topic[p].number
       \/ IsDelivered(m)

(* The inductive invariant of the assembly: streams bring chunks once they  *)
(* are open, every stream holds the right lists, and what was delivered is *)
(* whole.                                                                  *)
Listing ==
    /\ \A p \in Position : receivedBy[p] \in 0..Len(streams)
    /\ \A i \in DOMAIN streams : \A m \in Message : Listed(i, m, streams[i].list[m])
    /\ WholeMessages

(* A stream that has brought nothing of a message holds nothing of it. *)
LEMMA NothingListed ==
    ASSUME NEW i, NEW m, Brought(i, m) = {}
    PROVE  Listed(i, m, <<>>)
<1>1. ASSUME NEW p \in Chunks(m) PROVE Len(<<>>) < Topic[p].total
  <2>1. Topic[p] \in ChunkType
    BY ChunksCounted DEF Chunks
  <2> QED
    BY <2>1 DEF ChunkType
<1> QED
  BY <1>1 DEF Listed

(* What the callback for a chunk does, in terms of the list of its message. *)
LEMMA ChunkAssembled ==
    ASSUME SubscriptionTyped, NEW i \in DOMAIN streams, Data(i),
           NEW p \in Position, streams[i].next = p
    PROVE  \E o, l :
              /\ o = streams[i].list[Topic[p].msg] /\ l = Append(o, Topic[p].number)
              /\ Topic[p].msg \in Message /\ o \in Seq(Nat)
              /\ \A k \in Message \ {Topic[p].msg} :
                    streams'[i].list[k] = streams[i].list[k]
              /\ \/ /\ Topic[p].total # 1 /\ Len(l) # Topic[p].total
                    /\ streams'[i].list[Topic[p].msg] = l /\ delivered' = delivered
                 \/ /\ Topic[p].total = 1 \/ Len(l) = Topic[p].total
                    /\ streams'[i].list[Topic[p].msg] = <<>>
                    /\ delivered' = Append(delivered, [msg |-> Topic[p].msg,
                                                       chunks |-> OfMany(l)])
<1> DEFINE chunk == Topic[streams[i].next]
           m == chunk.msg
           old == streams[i].list
           list == [old EXCEPT ![m] = Append(@, chunk.number)]
           whole == chunk.total = 1 \/ Len(list[m]) = chunk.total
           after == IF whole THEN Completed(list, m) ELSE list
<1>0. chunk = Topic[p]
  OBVIOUS
<1>1. streams[i] \in StreamType /\ chunk \in ChunkType
  BY ChunksCounted DEF SubscriptionTyped
<1>2. m \in Message /\ chunk.number \in Nat /\ old \in [Message -> Seq(Nat)]
  BY <1>1 DEF StreamType, ChunkType
<1>3. streams'[i].list = after
  BY <1>1 DEF Data, StreamType
<1>4. /\ list[m] = Append(old[m], chunk.number) /\ DOMAIN list = Message
      /\ \A k \in Message \ {m} : list[k] = old[k]
  BY <1>2
<1>5. delivered' = IF whole THEN Append(delivered, [msg |-> m, chunks |-> OfMany(list[m])])
                   ELSE delivered
  BY Zenon DEF Data
<1>6. old[m] \in Seq(Nat)
  BY <1>2
<1> HIDE DEF list, chunk
<1>7. CASE whole
  <2>1. after = [list EXCEPT ![m] = <<>>]
    BY <1>7, Zenon DEF Completed
  <2>2. after[m] = <<>> /\ \A k \in Message \ {m} : after[k] = list[k]
    BY <1>2, <1>4, <2>1, Zenon
  <2>3. delivered' = Append(delivered, [msg |-> m, chunks |-> OfMany(list[m])])
    BY <1>5, <1>7, Zenon
  <2>4. PICK o, l : o = old[m] /\ l = list[m]
    OBVIOUS
  <2> HIDE DEF after
  <2>5. /\ l = Append(o, chunk.number) /\ m \in Message /\ o \in Seq(Nat)
        /\ chunk.total = 1 \/ Len(l) = chunk.total
        /\ streams'[i].list[m] = <<>>
    BY <1>2, <1>3, <1>4, <1>6, <1>7, <2>2, <2>4, Zenon
  <2>6. \A k \in Message \ {m} : streams'[i].list[k] = old[k]
    BY <1>3, <1>4, <2>2, Zenon
  <2>7. delivered' = Append(delivered, [msg |-> m, chunks |-> OfMany(l)])
    BY <2>3, <2>4, Zenon
  <2> QED
    BY <1>0, <2>4, <2>5, <2>6, <2>7, Zenon
<1>8. CASE ~ whole
  <2>1. after = list /\ delivered' = delivered
    BY <1>5, <1>8, Zenon
  <2>2. PICK o, l : o = old[m] /\ l = list[m]
    OBVIOUS
  <2> HIDE DEF after
  <2>3. /\ l = Append(o, chunk.number) /\ m \in Message /\ o \in Seq(Nat)
        /\ chunk.total # 1 /\ Len(l) # chunk.total
        /\ streams'[i].list[m] = l
    BY <1>2, <1>3, <1>4, <1>6, <1>8, <2>1, <2>2, Zenon
  <2>4. \A k \in Message \ {m} : streams'[i].list[k] = old[k]
    BY <1>3, <1>4, <2>1, Zenon
  <2> QED
    BY <1>0, <2>1, <2>2, <2>3, <2>4, Zenon
<1> QED
  BY <1>7, <1>8, Zenon

(* A chunk that is new is one more that its stream has brought. *)
LEMMA BroughtGrows ==
    ASSUME SubscriptionTyped, NEW i \in DOMAIN streams, Data(i),
           NEW p \in Position, streams[i].next = p, p \notin Received
    PROVE  /\ receivedBy' = [receivedBy EXCEPT ![p] = i]
           /\ DOMAIN streams' = DOMAIN streams /\ Len(streams') = Len(streams)
           /\ \A j \in DOMAIN streams \ {i} : streams'[j] = streams[j]
           /\ p \in Chunks(Topic[p].msg) /\ p \notin Brought(i, Topic[p].msg)
           /\ Brought(i, Topic[p].msg)' = Brought(i, Topic[p].msg) \cup {p}
           /\ \A j \in DOMAIN streams : \A k :
                 <<j, k>> # <<i, Topic[p].msg>> => Brought(j, k)' = Brought(j, k)
<1>1. /\ receivedBy' = [receivedBy EXCEPT ![p] = i] /\ receivedBy[p] = 0
      /\ DOMAIN streams' = DOMAIN streams /\ Len(streams') = Len(streams)
      /\ \A j \in DOMAIN streams \ {i} : streams'[j] = streams[j]
  BY ChunkReceived DEF Received, SubscriptionTyped
<1>2. \A j \in DOMAIN streams : j # 0
  BY DEF SubscriptionTyped
<1>3. receivedBy'[p] = i /\ \A q \in Position \ {p} : receivedBy'[q] = receivedBy[q]
  BY <1>1 DEF SubscriptionTyped
<1>4. p \in Chunks(Topic[p].msg) /\ p \notin Brought(i, Topic[p].msg)
  BY <1>1, <1>2 DEF Chunks, Brought
<1>5. \A k : Chunks(k) \subseteq Position /\ (p \in Chunks(k) => k = Topic[p].msg)
  BY DEF Chunks
<1>6. \A j, k, q : q \in Brought(j, k)' <=> q \in Chunks(k) /\ receivedBy'[q] = j
  BY DEF Brought
<1>7. \A j, k, q : q \in Brought(j, k) <=> q \in Chunks(k) /\ receivedBy[q] = j
  BY DEF Brought
<1>8. Brought(i, Topic[p].msg)' = Brought(i, Topic[p].msg) \cup {p}
  BY <1>3, <1>4, <1>5, <1>6, <1>7
<1>9. ASSUME NEW j \in DOMAIN streams, NEW k, <<j, k>> # <<i, Topic[p].msg>>
      PROVE  Brought(j, k)' = Brought(j, k)
  <2>1. \A q : q \in Brought(j, k)' <=> q \in Brought(j, k)
    BY <1>1, <1>2, <1>3, <1>5, <1>6, <1>7, <1>9
  <2> QED
    BY <2>1
<1> QED
  BY <1>1, <1>4, <1>8, <1>9

(* What is held stays as it was unless it is about the message that changed. *)
LEMMA ListedKept ==
    ASSUME NEW j, NEW k, NEW l, Listed(j, k, l), Brought(j, k)' = Brought(j, k),
           IsDelivered(k) => IsDelivered(k)'
    PROVE  Listed(j, k, l)'
  BY DEF Listed

(* A list of different numbers of chunks, of at most t. *)
Numbers(l, t) ==
    /\ l \in Seq(Nat) /\ Len(l) \in Nat /\ t \in Nat \ {0}
    /\ Len(l) <= t /\ (t = 1 => Len(l) = 1)
    /\ \A x \in DOMAIN l : l[x] \in 1..t
    /\ \A x, y \in DOMAIN l : l[x] = l[y] => x = y

(* The list with the new chunk. *)
LEMMA ListGrows ==
    ASSUME NEW i, NEW p \in Position, NEW o \in Seq(Nat),
           Listed(i, Topic[p].msg, o), p \notin Brought(i, Topic[p].msg),
           Brought(i, Topic[p].msg)' = Brought(i, Topic[p].msg) \cup {p},
           IsDelivered(Topic[p].msg) => IsDelivered(Topic[p].msg)',
           NEW l, l = Append(o, Topic[p].number)
    PROVE  /\ Numbers(l, Topic[p].total)
           /\ Len(l) # Topic[p].total => Listed(i, Topic[p].msg, l)'
<1> DEFINE m == Topic[p].msg
           n == Topic[p].number
           t == Topic[p].total
<1>1. Topic[p] \in ChunkType /\ p \in Chunks(m)
  BY ChunksCounted DEF Chunks
<1>2. n \in Nat \ {0} /\ t \in Nat \ {0} /\ n <= t
  BY <1>1, TopicAssumption DEF ChunkType, Position
<1>3. \A q \in Chunks(m) : /\ q \in Position /\ Topic[q].msg = m /\ Topic[q].total = t
                           /\ Topic[q].number \in 1..t
                           /\ Topic[q].number = n => q = p
  <2> SUFFICES ASSUME NEW q \in Chunks(m)
               PROVE  /\ q \in Position /\ Topic[q].msg = m /\ Topic[q].total = t
                      /\ Topic[q].number \in 1..t
                      /\ Topic[q].number = n => q = p
    OBVIOUS
  <2>1. q \in Position /\ Topic[q].msg = m
    BY DEF Chunks
  <2>2. /\ Topic[q].total = t /\ (Topic[q].number = n => q = p)
        /\ Topic[q].number <= Topic[q].total
    BY <2>1, TopicAssumption DEF Position
  <2>3. Topic[q].number \in Nat \ {0}
    BY <2>1, ChunksCounted DEF ChunkType
  <2> HIDE DEF m, n, t
  <2> QED
    BY <1>2, <2>1, <2>2, <2>3
<1> HIDE DEF m, n, t
<1>4. /\ Listed(i, m, o) /\ p \notin Brought(i, m) /\ l = Append(o, n)
      /\ Brought(i, m)' = Brought(i, m) \cup {p}
      /\ IsDelivered(m) => IsDelivered(m)'
  BY DEF m, n
<1>5. Brought(i, m) \subseteq Chunks(m)
  BY DEF Brought
<1>6. /\ l \in Seq(Nat) /\ Len(l) = Len(o) + 1 /\ Len(o) \in Nat
      /\ DOMAIN l = 1..(Len(o) + 1) /\ DOMAIN o = 1..Len(o)
      /\ \A x \in DOMAIN o : l[x] = o[x]
      /\ l[Len(o) + 1] = n
      /\ \A x \in DOMAIN l : x \in DOMAIN o \/ x = Len(o) + 1
      /\ Len(o) + 1 \notin DOMAIN o /\ Len(o) + 1 \in DOMAIN l
      /\ DOMAIN o \subseteq DOMAIN l
  BY <1>2, <1>4
<1>7. Len(o) < t
  BY <1>1, <1>3, <1>4 DEF Listed
<1>8. ASSUME NEW x \in DOMAIN o
      PROVE  o[x] # n /\ \E q \in Brought(i, m) : Topic[q].number = o[x]
  <2>1. PICK q \in Brought(i, m) : Topic[q].number = o[x]
    BY <1>4 DEF Listed
  <2>2. q # p
    BY <1>4
  <2> QED
    BY <1>3, <1>5, <2>1, <2>2
<1>9. \A x \in DOMAIN l : \E q \in Brought(i, m) \cup {p} : Topic[q].number = l[x]
  <2>1. Topic[p].number = n
    BY DEF n
  <2> QED
    BY <1>6, <1>8, <2>1
<1>10. \A x \in DOMAIN l : l[x] \in 1..t
  BY <1>1, <1>3, <1>5, <1>9
<1>11. \A x, y \in DOMAIN l : l[x] = l[y] => x = y
  <2>1. \A x, y \in DOMAIN o : o[x] = o[y] => x = y
    BY <1>4 DEF Listed
  <2> QED
    BY <1>6, <1>8, <2>1
<1>12. ASSUME Len(l) # t PROVE Listed(i, m, l)'
  <2>1. \A q \in Chunks(m) : Len(l) < Topic[q].total
    <3>1. Len(l) < t
      BY <1>2, <1>6, <1>7, <1>12
    <3> QED
      BY <1>3, <3>1
  <2>2. \/ \A q \in Brought(i, m) \cup {p} : \E x \in DOMAIN l : l[x] = Topic[q].number
        \/ IsDelivered(m)'
    <3>1. CASE IsDelivered(m)
      BY <1>4, <3>1
    <3>2. CASE \A q \in Brought(i, m) : \E x \in DOMAIN o : o[x] = Topic[q].number
      <4>1. l[Len(o) + 1] = Topic[p].number /\ Len(o) + 1 \in DOMAIN l
        BY <1>6 DEF n
      <4>2. \A q \in Brought(i, m) : \E x \in DOMAIN l : l[x] = Topic[q].number
        BY <1>6, <3>2
      <4> QED
        BY <4>1, <4>2
    <3> QED
      BY <1>4, <3>1, <3>2 DEF Listed
  <2> QED
    BY <1>4, <1>9, <1>11, <2>1, <2>2 DEF Listed, Chunks
<1> QED
  <2>1. Len(l) <= t /\ (t = 1 => Len(l) = 1) /\ Len(l) \in Nat
    BY <1>2, <1>6, <1>7
  <2> QED
    BY <1>2, <1>6, <1>10, <1>11, <1>12, <2>1 DEF m, t, Numbers

(* Every step keeps what the streams hold in agreement with what they have *)
(* brought.                                                                *)
LEMMA ListingStep ==
    ASSUME SubscriptionTyped, OneStream, InStep, Assembling, Listing,
           [TopicNext]_topicVars
    PROVE  Listing'
<1>0. /\ \A p \in Position : receivedBy[p] \in 0..Len(streams)
      /\ \A i \in DOMAIN streams : \A m \in Message : Listed(i, m, streams[i].list[m])
      /\ WholeMessages
  BY DEF Listing
<1>1. ASSUME UNCHANGED <<receivedBy, delivered>>
      PROVE  /\ WholeMessages'
             /\ \A k : IsDelivered(k)' <=> IsDelivered(k)
             /\ \A j, k : Brought(j, k)' = Brought(j, k)
  BY <1>0, <1>1 DEF WholeMessages, IsDelivered, Brought
<1>2. ASSUME UNCHANGED <<receivedBy, delivered>>, DOMAIN streams' = DOMAIN streams,
             Len(streams') = Len(streams),
             \A j \in DOMAIN streams : streams'[j].list = streams[j].list
      PROVE  Listing'
  <2>1. ASSUME NEW j \in DOMAIN streams', NEW k \in Message
        PROVE  Listed(j, k, streams[j].list[k])'
    <3>1. PICK l : l = streams[j].list[k]
      OBVIOUS
    <3>2. Listed(j, k, l)
      BY <1>0, <1>2, <3>1
    <3>3. Listed(j, k, l)'
      BY <1>1, <1>2, <3>2, ListedKept
    <3>4. l = streams'[j].list[k]
      BY <1>2, <3>1
    <3> QED
      BY <3>3, <3>4 DEF Listed
  <2>2. \A p \in Position : receivedBy'[p] \in 0..Len(streams')
    BY <1>0, <1>2
  <2> QED
    BY <1>1, <1>2, <2>1, <2>2 DEF Listing
<1>3. CASE UNCHANGED <<streams, receivedBy, delivered>>
  BY <1>2, <1>3
<1>4. CASE Subscribe \/ Reconnect
  <2>1. MakeServerStreamRequest /\ UNCHANGED <<receivedBy, delivered>>
    BY <1>4 DEF Subscribe, Reconnect, history
  <2>2. Len(streams) \in Nat /\ DOMAIN streams = 1..Len(streams)
    BY DEF SubscriptionTyped
  <2>3. /\ Len(streams') = Len(streams) + 1
        /\ DOMAIN streams' = DOMAIN streams \cup {Len(streams')}
        /\ \A i \in DOMAIN streams : streams'[i] = streams[i]
        /\ streams'[Len(streams')] = NewStream
    BY <2>1, StreamOpened
  <2>4. \A p \in Position : receivedBy'[p] \in 0..Len(streams')
    BY <1>0, <2>1, <2>2, <2>3
  <2>5. ASSUME NEW j \in DOMAIN streams', NEW k \in Message
        PROVE  Listed(j, k, streams[j].list[k])'
    <3>1. CASE j \in DOMAIN streams
      <4>1. PICK l : l = streams[j].list[k]
        OBVIOUS
      <4>2. Listed(j, k, l)
        BY <1>0, <3>1, <4>1
      <4>3. Listed(j, k, l)'
        BY <1>1, <2>1, <4>2, ListedKept
      <4>4. l = streams'[j].list[k]
        BY <2>3, <3>1, <4>1
      <4> QED
        BY <4>3, <4>4 DEF Listed
    <3>2. CASE j = Len(streams')
      <4>1. streams'[j].list[k] = <<>>
        BY <2>3, <3>2 DEF NewStream
      <4>2. Brought(j, k) = {}
        <5>1. \A p \in Position : receivedBy[p] # j
          BY <1>0, <2>2, <2>3, <3>2
        <5> QED
          BY <5>1 DEF Brought, Chunks
      <4>3. Listed(j, k, <<>>)
        BY <4>2, NothingListed
      <4>4. Listed(j, k, <<>>)'
        BY <1>1, <2>1, <4>3, ListedKept
      <4> QED
        BY <4>1, <4>4 DEF Listed
    <3> QED
      BY <2>3, <3>1, <3>2
  <2> QED
    BY <1>1, <2>1, <2>4, <2>5 DEF Listing
<1>5. CASE \/ Unsubscribe
           \/ \E i \in DOMAIN streams :
                 Opens(i) \/ Completes(i) \/ FailsAndRetries(i) \/ FailsSilently(i)
  <2>1. UNCHANGED <<receivedBy, delivered>>
    BY <1>5 DEF Unsubscribe, Opens, Completes, FailsAndRetries, FailsSilently,
      queryVars, history
  <2>2. Len(streams') = Len(streams)
    BY <1>5, StreamCancelled, StreamTaken, StreamOver DEF Completes, FailsAndRetries, FailsSilently
  <2> QED
    BY <1>2, <1>5, <2>1, <2>2, ListsKept
<1>6. ASSUME NEW i \in DOMAIN streams, Data(i) PROVE Listing'
  <2>1. PICK p \in Position : streams[i].next = p /\ p \notin Received
    BY <1>6, ChunkIsNew
  <2> DEFINE m == Topic[p].msg
  <2>2. /\ receivedBy' = [receivedBy EXCEPT ![p] = i]
        /\ DOMAIN streams' = DOMAIN streams /\ Len(streams') = Len(streams)
        /\ \A j \in DOMAIN streams \ {i} : streams'[j] = streams[j]
        /\ p \in Chunks(m) /\ p \notin Brought(i, m)
        /\ Brought(i, m)' = Brought(i, m) \cup {p}
        /\ \A j \in DOMAIN streams : \A k :
              <<j, k>> # <<i, m>> => Brought(j, k)' = Brought(j, k)
    BY <1>6, <2>1, BroughtGrows
  <2>3. PICK o, l :
             /\ o = streams[i].list[m] /\ l = Append(o, Topic[p].number)
             /\ m \in Message /\ o \in Seq(Nat)
             /\ \A k \in Message \ {m} : streams'[i].list[k] = streams[i].list[k]
             /\ \/ /\ Topic[p].total # 1 /\ Len(l) # Topic[p].total
                   /\ streams'[i].list[m] = l /\ delivered' = delivered
                \/ /\ Topic[p].total = 1 \/ Len(l) = Topic[p].total
                   /\ streams'[i].list[m] = <<>>
                   /\ delivered' = Append(delivered, [msg |-> m, chunks |-> OfMany(l)])
    BY <1>6, <2>1, ChunkAssembled
  <2>4. \A q \in Position : receivedBy'[q] \in 0..Len(streams')
    BY <1>0, <2>2 DEF SubscriptionTyped
  <2>5. delivered \in Seq(Deliverable)
    BY DEF Assembling
  <2>6. \A k : IsDelivered(k) => IsDelivered(k)'
    <3>1. CASE delivered' = delivered
      BY <3>1 DEF IsDelivered
    <3>2. CASE \E e : delivered' = Append(delivered, e)
      BY <2>5, <3>2 DEF IsDelivered
    <3> QED
      BY <2>3, <3>1, <3>2
  <2>7. Listed(i, m, o)
    BY <1>0, <2>3
  <2>8. /\ Numbers(l, Topic[p].total)
        /\ Len(l) # Topic[p].total => Listed(i, m, l)'
    <3>1. /\ Listed(i, Topic[p].msg, o) /\ p \notin Brought(i, Topic[p].msg)
          /\ Brought(i, Topic[p].msg)' = Brought(i, Topic[p].msg) \cup {p}
          /\ IsDelivered(Topic[p].msg) => IsDelivered(Topic[p].msg)'
      BY <2>2, <2>6, <2>7, Zenon
    <3>2. o \in Seq(Nat) /\ l = Append(o, Topic[p].number)
      BY <2>3, Zenon
    <3> QED
      BY <3>1, <3>2, ListGrows, Zenon
  <2>9. Listed(i, m, streams[i].list[m])' /\ WholeMessages'
    <3>1. CASE /\ Len(l) # Topic[p].total
               /\ streams'[i].list[m] = l /\ delivered' = delivered
      <4>1. Listed(i, m, l)'
        BY <2>8, <3>1
      <4>2. Listed(i, m, streams[i].list[m])'
        BY <3>1, <4>1 DEF Listed
      <4>3. WholeMessages'
        BY <1>0, <3>1 DEF WholeMessages
      <4> QED
        BY <4>2, <4>3
    <3>2. CASE /\ Topic[p].total = 1 \/ Len(l) = Topic[p].total
               /\ streams'[i].list[m] = <<>>
               /\ delivered' = Append(delivered, [msg |-> m, chunks |-> OfMany(l)])
      <4>1. PICK t \in Nat \ {0} : t = Topic[p].total /\ Len(l) = t /\ DOMAIN l = 1..t
        <5>1. l \in Seq(Nat) /\ Topic[p].total \in Nat \ {0} /\ Len(l) = Topic[p].total
          BY <2>8, <3>2, Zenon DEF Numbers
        <5>2. DOMAIN l = 1..Len(l)
          BY <5>1
        <5> QED
          BY <5>1, <5>2
      <4>2. PICK c : c = OfMany(l) /\ c = [n \in 1..t |-> n]
        <5>1. /\ l \in Seq(Nat) /\ \A x \in 1..t : l[x] \in 1..t
              /\ \A x, y \in 1..t : l[x] = l[y] => x = y
          BY <2>8, <4>1, Zenon DEF Numbers
        <5> QED
          BY <4>1, <5>1, SortedNumbers
      <4>3. Len(c) = t
        BY <4>2
      <4>4. PICK e : /\ e.msg = m /\ e.chunks = c
                     /\ delivered' = Append(delivered, e)
        BY <3>2, <4>2
      <4>5. /\ DOMAIN delivered' = DOMAIN delivered \cup {Len(delivered) + 1}
            /\ \A d \in DOMAIN delivered : delivered'[d] = delivered[d]
            /\ delivered'[Len(delivered) + 1] = e
        BY <2>5, <4>4
      <4>6. WholeMessages'
        BY <1>0, <4>2, <4>3, <4>4, <4>5 DEF WholeMessages
      <4>7. IsDelivered(m)'
        BY <4>4, <4>5 DEF IsDelivered
      <4>8. \A q \in Chunks(m) : Len(<<>>) < Topic[q].total
        <5>1. \A q \in Chunks(m) : Topic[q] \in ChunkType
          BY ChunksCounted DEF Chunks
        <5> QED
          BY <5>1 DEF ChunkType
      <4>9. Listed(i, m, <<>>)'
        BY <4>7, <4>8 DEF Listed, Chunks
      <4>10. Listed(i, m, streams[i].list[m])'
        BY <3>2, <4>9 DEF Listed
      <4> QED
        BY <4>6, <4>10
    <3> QED
      BY <2>3, <3>1, <3>2
  <2>10. ASSUME NEW j \in DOMAIN streams', NEW k \in Message
         PROVE  Listed(j, k, streams[j].list[k])'
    <3>1. CASE j = i /\ k = m
      BY <2>9, <3>1
    <3>2. CASE j # i \/ k # m
      <4>1. PICK c : c = streams[j].list[k]
        OBVIOUS
      <4>2. Listed(j, k, c)
        BY <1>0, <2>2, <4>1
      <4>3. Brought(j, k)' = Brought(j, k)
        BY <2>2, <3>2
      <4>4. Listed(j, k, c)'
        BY <2>6, <4>2, <4>3, ListedKept
      <4>5. streams'[j].list[k] = c
        BY <2>2, <2>3, <3>2, <4>1
      <4> QED
        BY <4>4, <4>5 DEF Listed
    <3> QED
      BY <3>1, <3>2
  <2> QED
    BY <2>4, <2>9, <2>10 DEF Listing
<1> QED
  BY <1>3, <1>4, <1>5, <1>6 DEF TopicNext, Publish, topicVars, queryVars, history

(* All the chunks of a message cannot wait in one list. *)
LEMMA WholeNotListed ==
    ASSUME SubscriptionTyped, Listing, NEW m \in Message, SentWhole(m),
           NEW i \in DOMAIN streams, \A p \in Chunks(m) : receivedBy[p] = i
    PROVE  IsDelivered(m)
<1> SUFFICES ASSUME ~ IsDelivered(m) PROVE FALSE
  OBVIOUS
<1>1. PICK l : l = streams[i].list[m]
  OBVIOUS
<1>2. Listed(i, m, l) /\ l \in Seq(Nat)
  <2>1. streams[i] \in StreamType
    BY DEF SubscriptionTyped
  <2>2. streams[i].list \in [Message -> Seq(Nat)]
    BY <2>1 DEF StreamType
  <2>3. streams[i].list[m] \in Seq(Nat)
    BY <2>2
  <2> QED
    BY <1>1, <2>3, Zenon DEF Listing
<1>3. PICK p \in Chunks(m) : TRUE
  BY DEF SentWhole
<1>4. PICK t \in Nat \ {0} : t = Topic[p].total
  BY <1>3, ChunksCounted DEF Chunks, ChunkType
<1>5. Brought(i, m) = Chunks(m)
  BY DEF Brought
<1>6. \A n \in 1..t : \E x \in 1..Len(l) : l[x] = n
  <2> SUFFICES ASSUME NEW n \in 1..t PROVE \E x \in DOMAIN l : l[x] = n
    BY <1>2
  <2>1. PICK q \in Chunks(m) : Topic[q].number = n
    BY <1>4 DEF SentWhole
  <2> QED
    BY <1>2, <1>5, <2>1 DEF Listed
<1>7. Len(l) < t /\ Len(l) \in Nat
  BY <1>2, <1>4 DEF Listed
<1> DEFINE f == [n \in 1..t |-> CHOOSE x \in 1..Len(l) : l[x] = n]
<1>8. f \in [1..t -> 1..Len(l)] /\ \A n \in 1..t : l[f[n]] = n
  BY <1>6
<1>9. \A x, y \in 1..t : f[x] = f[y] => x = y
  BY <1>8
<1> HIDE DEF f
<1>10. t - 1 <= Len(l) - 1
  <2>1. 1 \in Int /\ t \in Int /\ Len(l) \in Int /\ 1 <= t
    BY <1>7
  <2> QED
    BY <1>8, <1>9, <2>1, Injected
<1> QED
  BY <1>7, <1>10

(* Every message that reaches the listener is whole, its chunks in order,   *)
(* however they arrived; and a message that was sent whole and came over   *)
(* one stream reaches it, for any topic and any mixture of messages.       *)
THEOREM AssembledCorrect == TopicSpec => []Assembled
<1>1. TopicInit => Assembling /\ DeliveredOnce /\ Listing
  BY DEF TopicInit, Assembling, DeliveredOnce, Listing, WholeMessages
<1>2. SubscriptionTyped /\ Listing => Assembled
  BY WholeNotListed DEF Listing, Assembled, LostOnlyByReconnection, IsDelivered
<1> QED
  BY <1>1, <1>2, SubscriptionInit, SubscriptionTypedStep, OneStreamStep, InStepStep,
     AssemblingStep, ListingStep, PTL DEF TopicSpec
==============================================================================
