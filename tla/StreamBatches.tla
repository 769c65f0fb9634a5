----------------------------- MODULE StreamBatches -----------------------------
(***************************************************************************)
(* Live ingestion: MessageBuffer, the threads that fill it, and             *)
(* StreamingRoboticsDataset.get_batches of python/pyroboframes/streaming.py.*)
(*                                                                         *)
(* The buffer keeps the latest max_size messages under a lock; get_batches  *)
(* copies it, and takes from the copy the batch_size messages at positions  *)
(* last_seq and on.  A message is its sequence id; its topic is Topic[id].  *)
(***************************************************************************)
EXTENDS Integers, FiniteSets, Sequences

CONSTANTS max_size, batch_size, Topic

StreamAssumption ==
    /\ max_size \in Nat \ {0} /\ batch_size \in Nat \ {0}
    /\ DOMAIN Topic = 0 .. Cardinality(DOMAIN Topic) - 1

VARIABLES
    buffer,    \* the deque, oldest first
    seq,       \* the next sequence id
    messages,  \* the copy get_batches works on
    last_seq,
    generator, \* "none", "poll", "slice", "yielded"
    delivered, \* history: delivered[t]: the ids of topic t handed out
    gap        \* history: the buffer dropped or cleared messages

streamVars == <<buffer, seq, messages, last_seq, generator, delivered, gap>>

Ids == DOMAIN Topic
Topics == {Topic[i] : i \in Ids}

Init ==
    /\ buffer = <<>> /\ seq = 0
    /\ messages = <<>> /\ last_seq = 0
    /\ generator = "none"
    /\ delivered = [t \in Topics |-> <<>>]
    /\ gap = FALSE

(* A message of MQTT's on_message or of Kafka's consume_loop; a full deque
   drops its oldest. *)
append ==
    /\ seq \in Ids
    /\ buffer' = IF Len(buffer) = max_size THEN Append(Tail(buffer), seq)
                                           ELSE Append(buffer, seq)
    /\ gap' = (gap \/ Len(buffer) = max_size)
    /\ seq' = seq + 1
    /\ UNCHANGED <<messages, last_seq, generator, delivered>>

clear ==
    /\ buffer # <<>>
    /\ buffer' = <<>> /\ gap' = TRUE
    /\ UNCHANGED <<seq, messages, last_seq, generator, delivered>>

get_batches ==
    /\ generator = "none"
    /\ generator' = "poll"
    /\ UNCHANGED <<buffer, seq, messages, last_seq, delivered, gap>>

(* streamer.get_messages: a copy under the lock. *)
Poll ==
    /\ generator = "poll"
    /\ messages' = buffer
    /\ generator' = "slice"
    /\ UNCHANGED <<buffer, seq, last_seq, delivered, gap>>

Enough == Len(messages) > last_seq + batch_size

Slice == SubSeq(messages, last_seq + 1, last_seq + batch_size)

(* _align_messages: the values of a topic, in the order they came. *)
_align_messages(batch, t) ==
    LET values[k \in 0 .. Len(batch)] ==
            IF k = 0 THEN <<>>
            ELSE IF Topic[batch[k]] = t THEN Append(values[k - 1], batch[k]) ELSE values[k - 1]
    IN  values[Len(batch)]

(* Mutant: the place moves on by the topics of the batch. *)
YieldCountsTopics ==
    /\ generator = "slice" /\ Enough
    /\ delivered' = [t \in Topics |-> delivered[t] \o _align_messages(Slice, t)]
    /\ last_seq' = last_seq + 1
    /\ messages' = <<>>
    /\ generator' = "yielded"
    /\ UNCHANGED <<buffer, seq, gap>>

Yield ==
    /\ generator = "slice" /\ Enough
    /\ delivered' = [t \in Topics |-> delivered[t] \o _align_messages(Slice, t)]
    /\ last_seq' = last_seq + batch_size
    /\ messages' = <<>>
    /\ generator' = "yielded"
    /\ UNCHANGED <<buffer, seq, gap>>

(* Too few messages: sleep, and poll again. *)
Sleep ==
    /\ generator = "slice" /\ ~Enough
    /\ messages' = <<>>
    /\ generator' = "poll"
    /\ UNCHANGED <<buffer, seq, last_seq, delivered, gap>>

(* The consumer asks for the next batch. *)
Resume ==
    /\ generator = "yielded"
    /\ generator' = "poll"
    /\ UNCHANGED <<buffer, seq, messages, last_seq, delivered, gap>>

(* The timeout has passed, or the consumer drops the generator. *)
Ends ==
    /\ generator \in {"poll", "yielded"}
    /\ generator' = "none"
    /\ UNCHANGED <<buffer, seq, messages, last_seq, delivered, gap>>

Next ==
    \/ append \/ clear
    \/ get_batches \/ Poll \/ Yield \/ Sleep \/ Resume \/ Ends
-----------------------------------------------------------------------------
(* No message is handed out twice or out of order, however arrivals, polls,
   timeouts and new generators interleave, and even after the buffer wrapped or
   was cleared and the positions in it no longer are sequence ids.  Until then
   the consumer has had, topic by topic, exactly the first last_seq messages. *)
StreamInOrder ==
    \A t \in Topics :
        /\ \A j, k \in DOMAIN delivered[t] : j < k => delivered[t][j] < delivered[t][k]
        /\ ~gap => {delivered[t][k] : k \in DOMAIN delivered[t]} =
                     {m \in 0 .. last_seq - 1 : Topic[m] = t}
=============================================================================
