------------------------- MODULE TopicMessageQuery -------------------------
(***************************************************************************)
(* A subscription to a topic: the stream of a mirror node, the assembly of *)
(* messages from their chunks, the reconnection after an error and         *)
(* unsubscribe().  The topic is a sequence of chunks, a consensus time is  *)
(* a position in it, and one nanosecond more is the next position.  0      *)
(* stands for a start time, or a limit, that is not set: then the mirror   *)
(* node starts with what is published after the request reaches it.  The   *)
(* topic ID, the end time and the length of the delays do not decide       *)
(* anything here and are left out; so is the mirror node that is chosen.   *)
(*                                                                         *)
(* An application subscribes once with a query object.  The actors are the *)
(* mirror node, the timer of the reconnection, and the application that    *)
(* may unsubscribe at any time, also more than once.                       *)
(***************************************************************************)
EXTENDS Naturals, Sequences, FiniteSets

CONSTANTS
    Message,      \* messages, by the ID of their first transaction
    Topic,        \* the chunks, records [msg, number, total], as they are published
    StartTimes,   \* arguments of setStartTime(), 0 when it is not called
    Limits,       \* arguments of setLimit(), 0 when it is not called
    MaxAttempts   \* _maxAttempts

ChunkType == [msg : Message, number : Nat \ {0}, total : Nat \ {0}]

ASSUME TopicAssumption ==
    /\ Topic \in Seq(ChunkType)
    /\ \A p \in DOMAIN Topic : Topic[p].number <= Topic[p].total
    /\ \A p, q \in DOMAIN Topic :
          Topic[p].msg = Topic[q].msg =>
              /\ Topic[p].total = Topic[q].total
              /\ Topic[p].number = Topic[q].number => p = q
ASSUME SettingAssumption ==
    StartTimes \subseteq Nat /\ Limits \subseteq Nat /\ MaxAttempts \in Nat

Position == DOMAIN Topic

VARIABLES
    published,    \* chunks that have reached consensus
    limit,        \* _limit
    startTime,    \* _startTime
    attempt,      \* _attempt
    call,         \* the stream _handle cancels, 0 before subscribe()
    streams,      \* the streams opened so far
    timers,       \* reconnections that wait for their delay
    delivered,    \* what the listener was called with
    begin,        \* history: the start time the application set
    wanted,       \* history: the limit the application set
    receivedBy    \* history: the stream that brought a chunk, or 0

queryVars == <<limit, startTime, attempt, call, timers, delivered>>
history == <<begin, wanted, receivedBy>>
topicVars == <<published, queryVars, streams, history>>

Live(i) == streams[i].open

TopicInit ==
    /\ published = 0
    /\ wanted \in Limits /\ limit = wanted
    /\ begin \in StartTimes /\ startTime = begin
    /\ attempt = 0 /\ call = 0
    /\ streams = <<>> /\ timers = 0 /\ delivered = <<>>
    /\ receivedBy = [p \in Position |-> 0]

(* A chunk reaches consensus. *)
Publish ==
    /\ published < Len(Topic)
    /\ published' = published + 1
    /\ UNCHANGED <<queryVars, streams, history>>
------------------------------------------------------------------------------
(* Mutant: the request asks for one nanosecond too much. *)
NewStream_Late ==
    [open |-> TRUE, cancelled |-> FALSE, next |-> startTime + 1, left |-> limit,
     unlimited |-> limit = 0, list |-> [m \in Message |-> <<>>]]

(* The stream for a request: where it starts (0 until the mirror node has   *)
(* the request, when it names no time), how many chunks will be sent (a    *)
(* limit of zero is encoded like one that is not set), and the chunks of   *)
(* messages that are not complete.                                         *)
NewStream ==
    [open |-> TRUE, cancelled |-> FALSE, next |-> startTime, left |-> limit,
     unlimited |-> limit = 0, list |-> [m \in Message |-> <<>>]]

(* Mutant: the handle keeps the stream it got first. *)
MakeServerStreamRequest_FirstCall ==
    /\ streams' = Append(streams, NewStream)
    /\ call' = IF call = 0 THEN Len(streams') ELSE call

(* _makeServerStreamRequest *)
MakeServerStreamRequest ==
    /\ streams' = Append(streams, NewStream)
    /\ call' = Len(streams')

Subscribe ==
    /\ call = 0
    /\ MakeServerStreamRequest
    /\ UNCHANGED <<published, limit, startTime, attempt, timers, delivered, history>>

(* The delay of a reconnection is over; nothing asks whether the            *)
(* application has unsubscribed.                                           *)
Reconnect ==
    /\ timers > 0
    /\ timers' = timers - 1
    /\ MakeServerStreamRequest
    /\ UNCHANGED <<published, limit, startTime, attempt, delivered, history>>

(* A request without a start time reaches the mirror node. *)
Opens(i) ==
    /\ Live(i) /\ streams[i].next = 0
    /\ streams' = [streams EXCEPT ![i].next = published + 1]
    /\ UNCHANGED <<published, queryVars, history>>

(* unsubscribe(): the stream is cancelled, which the mirror node confirms   *)
(* with a status; a stream that is over ignores it.                        *)
Unsubscribe ==
    /\ call > 0
    /\ streams' = [streams EXCEPT ![call].cancelled = @ \/ Live(call)]
    /\ UNCHANGED <<published, queryVars, history>>
------------------------------------------------------------------------------
(* Mutant: messages are counted, not chunks. *)
CountDown_Messages(whole) == IF limit > 0 /\ whole THEN limit - 1 ELSE limit

CountDown(whole) == IF limit > 0 THEN limit - 1 ELSE limit

(* Mutant: the same time again. *)
PlusNano_Same(p) == p

PlusNano(p) == p + 1

(* _ofSingle, _ofMany: the chunks are sorted by their number. *)
OfMany(responses) ==
    LET D == DOMAIN responses
        order == CHOOSE f \in [D -> D] : \A a, b \in D :
                    /\ f[a] = f[b] => a = b
                    /\ a < b => responses[f[a]] <= responses[f[b]]
    IN [n \in D |-> responses[order[n]]]

(* Mutant: all the incomplete messages are dropped. *)
Completed_Clears(list, m) == [k \in Message |-> <<>>]

(* list.delete *)
Completed(list, m) == [list EXCEPT ![m] = <<>>]

(* The callback for the next chunk *)
Data(i) ==
    LET p == streams[i].next
        chunk == Topic[p]
        list == [streams[i].list EXCEPT ![chunk.msg] = Append(@, chunk.number)]
        responses == list[chunk.msg]
        whole == chunk.total = 1 \/ Len(responses) = chunk.total
    IN /\ Live(i) /\ p \in 1..published
       /\ streams[i].unlimited \/ streams[i].left > 0
       /\ limit' = CountDown(whole)
       /\ startTime' = PlusNano(p)
       /\ streams' = [streams EXCEPT
              ![i].next = p + 1,
              ![i].left = IF streams[i].unlimited THEN @ ELSE @ - 1,
              ![i].list = IF whole THEN Completed(list, chunk.msg) ELSE list]
       /\ delivered' = IF whole
                       THEN Append(delivered, [msg |-> chunk.msg, chunks |-> OfMany(responses)])
                       ELSE delivered
       /\ receivedBy' = [receivedBy EXCEPT ![p] = i]
       /\ UNCHANGED <<published, attempt, call, timers, begin, wanted>>

Over(i) == streams' = [streams EXCEPT ![i].open = FALSE]

(* The mirror node has sent as many chunks as it was asked for: status OK,  *)
(* and the completion handler.                                             *)
Completes(i) ==
    /\ Live(i) /\ ~ streams[i].unlimited /\ streams[i].left = 0
    /\ Over(i)
    /\ UNCHANGED <<published, queryVars, history>>

MayRetry == attempt < MaxAttempts

(* A status the retry handler accepts, for as long as there are attempts *)
FailsAndRetries(i) ==
    /\ Live(i) /\ MayRetry
    /\ Over(i)
    /\ attempt' = attempt + 1
    /\ timers' = timers + 1
    /\ UNCHANGED <<published, limit, startTime, call, delivered, history>>

(* A status that is not retried (that of a cancelled stream among them), or *)
(* one too many: nobody is told.                                           *)
FailsSilently(i) ==
    /\ Live(i)
    /\ Over(i)
    /\ UNCHANGED <<published, queryVars, history>>
------------------------------------------------------------------------------
TopicNext ==
    \/ Publish \/ Subscribe \/ Reconnect \/ Unsubscribe
    \/ \E i \in DOMAIN streams :
          \/ Opens(i) \/ Data(i) \/ Completes(i)
          \/ FailsAndRetries(i) \/ FailsSilently(i)

TopicSpec == TopicInit /\ [][TopicNext]_topicVars

(* Timers fire, and a mirror node goes on with a stream it has not closed.  *)
(* The latter is an assumption on the mirror node: the code sets no         *)
(* deadline for a stream and waits for as long as it is silent.             *)
TopicFairSpec ==
    /\ TopicSpec
    /\ WF_topicVars(Reconnect)
    /\ WF_topicVars(\E i \in DOMAIN streams : Opens(i))
    /\ WF_topicVars(\E i \in DOMAIN streams : Data(i))
    /\ WF_topicVars(\E i \in DOMAIN streams : Completes(i))
------------------------------------------------------------------------------
StreamType ==
    [open : BOOLEAN, cancelled : BOOLEAN, next : Nat, left : Nat,
     unlimited : BOOLEAN, list : [Message -> Seq(Nat)]]

(* No message reaches the listener twice, although every reconnection asks  *)
(* for the topic again from a point of time.                               *)
DeliveredOnce ==
    \A i, j \in DOMAIN delivered : delivered[i].msg = delivered[j].msg => i = j

(* What reaches the listener is a whole message: each of its chunks once,   *)
(* in the order of their numbers and not of their arrival.                 *)
WholeMessages ==
    \A i \in DOMAIN delivered :
        delivered[i].chunks = [n \in 1..Len(delivered[i].chunks) |-> n]

Chunks(m) == {p \in Position : Topic[p].msg = m}

(* Whoever sent m sent as many chunks as each of them says. *)
SentWhole(m) ==
    /\ Chunks(m) # {}
    /\ \A p \in Chunks(m) : \A n \in 1..Topic[p].total :
          \E q \in Chunks(m) : Topic[q].number = n

(* A message all of whose chunks came over one stream is delivered, however *)
(* they mix with those of other messages: only a reconnection between the  *)
(* chunks of a message loses it.                                           *)
LostOnlyByReconnection ==
    \A m \in Message :
        /\ SentWhole(m)
        /\ \E i \in DOMAIN streams : \A p \in Chunks(m) : receivedBy[p] = i
        => \E d \in DOMAIN delivered : delivered[d].msg = m

Received == {p \in Position : receivedBy[p] # 0}

(* A request after the first asked for everything. *)
AskedForAll == \E i \in DOMAIN streams : i > 1 /\ streams[i].unlimited

(* The limit covers the whole subscription, counted in chunks: what a       *)
(* reconnection asks for is what is missing, and no more is received than  *)
(* the application wanted, unless a stream that had sent everything broke   *)
(* before it was completed.  The limit is zero then, and the request of the *)
(* reconnection has none.                                                  *)
LimitConserved ==
    LET count == Cardinality(Received) IN
    wanted > 0 => \/ count + limit = wanted
                  \/ count > wanted /\ limit = 0 /\ AskedForAll

(* The handle the application holds cancels the stream that is open, also   *)
(* after reconnections: none is left that nobody can close.                *)
HandleCancelsStream == \A i \in DOMAIN streams : Live(i) => call = i

Alive == timers > 0 \/ \E i \in DOMAIN streams : Live(i) /\ ~ streams[i].cancelled

(* A chunk that the subscription should bring: one at or after the start    *)
(* time that was set; and without one, after a chunk that was received, or  *)
(* published since the mirror node has the request of the open stream.     *)
Due(p) ==
    \/ begin # 0 /\ p >= begin
    \/ \E q \in Received : q <= p
    \/ \E i \in DOMAIN streams : Live(i) /\ streams[i].next \in 1..p

(* No chunk has told what time to go on from. *)
StartsOver == timers > 0 /\ startTime = 0

(* A chunk that is due and published is received, over as many streams as   *)
(* it takes, unless the subscription comes to an end, or a stream without a *)
(* start time breaks before its first chunk: then the next stream starts    *)
(* with what is published later.                                           *)
Resumes ==
    \A p \in Position :
        Alive /\ p <= published /\ Due(p)
            ~> p \in Received \/ ~ Alive \/ StartsOver

(* The listener gets whole messages only, and each whose chunks came over   *)
(* one stream: counting the chunks of a list decides neither too early nor *)
(* never (_makeServerStreamRequest).                                       *)
Assembled == WholeMessages /\ LostOnlyByReconnection
==============================================================================
