------------------------ MODULE MCTopicMessageQuery ------------------------
(***************************************************************************)
(* A topic with two messages of two chunks, which mix and of which one     *)
(* arrives in the wrong order, a message of one chunk between them, and at *)
(* the end the first chunk of a message whose second was never sent.       *)
(***************************************************************************)
EXTENDS TopicMessageQuery

Chunk(m, n, total) == [msg |-> m, number |-> n, total |-> total]
MixedTopic == <<Chunk("x", 2, 2), Chunk("y", 1, 2), Chunk("s", 1, 1),
                Chunk("x", 1, 2), Chunk("y", 2, 2), Chunk("z", 1, 2)>>
==============================================================================
