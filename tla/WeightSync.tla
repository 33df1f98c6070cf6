----------------------------- MODULE WeightSync -----------------------------
(***************************************************************************)
(* NCCLCheckpointEngine (nccl_checkpoint_engine.py): rank 0 of the trainer *)
(* streams its weights to the rollout workers in buckets.  Each side owns  *)
(* two buffers and swaps them around an asynchronous BroadcastOperation    *)
(* that runs in a thread: the bucket's metadata travels over ZeroMQ        *)
(* PUB/SUB, the bytes in a collective broadcast.                           *)
(*                                                                         *)
(* The broadcast takes the bytes out of the sender's buffer and puts them  *)
(* into the receivers' buffers when it completes, the latest moment at     *)
(* which it may do so.  A byte of a weight is the pair of its index and    *)
(* the version of the weights; a published metadata message is dropped for *)
(* a subscriber whose connection is not up yet.                            *)
(***************************************************************************)
EXTENDS Integers, Sequences, FiniteSets

CONSTANTS
  Receivers,     \* the rollout workers, ranks 1.. of the group
  Sizes,         \* Sizes[i]: bytes of weight i, in the generator's order
  BucketSize     \* update_weights_bucket_megabytes

ASSUME WeightSyncAssumption ==
  /\ BucketSize \in Nat
  /\ Sizes \in Seq(Nat \ {0})
  /\ \A i \in DOMAIN Sizes : Sizes[i] <= BucketSize

VARIABLES
  send_pc,        \* where send_weights is
  next_weight,    \* the next weight of the generator
  bucket_meta,    \* weights in the bucket being filled, in order
  offset,         \* bytes in it
  send_buf,       \* which of the two buffers is being filled
  send_bytes,     \* send_bytes[buffer][position]
  send_op,        \* the broadcast operation in flight, or NoOp
  recv_pc,        \* recv_pc[r]: where receive_weights is
  recv_buf,       \* recv_buf[r]: the buffer the next broadcast fills
  recv_bytes,     \* recv_bytes[r][buffer][position]
  recv_op,        \* recv_op[r]: the operation in flight, or NoOp; its
                  \* buffer is 0 once the broadcast is through
  metadata,       \* metadata[r]: of the bucket being yielded
  yielded,        \* yielded[r]: the weights handed to the server so far
  mailbox,        \* mailbox[r]: published metadata it has not read
  subscribed,     \* receivers whose subscription is up
  dropped,        \* history: receivers that missed a metadata message
  sent_version    \* the version of the weights being sent

senderVars == << send_pc, next_weight, bucket_meta, offset, send_buf, send_bytes, sent_version >>
receiverVars == << recv_pc, recv_buf, metadata, yielded >>
wireVars == << send_op, recv_op, recv_bytes, mailbox, subscribed, dropped >>
syncVars == << senderVars, receiverVars, wireVars >>

Buffers == {1, 2}
\* Variant: the buffers are not swapped.
OtherUnswapped(buffer) == buffer

Other(buffer) == 3 - buffer
NoOp == [op |-> "none"]
Completed == [op |-> "completed"]
Meta(bucket, is_last) == [bucket_meta |-> bucket, is_last |-> is_last]
NoMeta == Meta(<< >>, FALSE)
Zeros == [b \in Buffers |-> [position \in 0..(BucketSize - 1) |-> << >>]]

SyncIdle ==
  /\ send_pc = "idle"
  /\ next_weight = 1
  /\ bucket_meta = << >>
  /\ offset = 0
  /\ send_buf = 1
  /\ send_bytes = Zeros
  /\ send_op = NoOp
  /\ recv_pc = [r \in Receivers |-> "idle"]
  /\ recv_buf = [r \in Receivers |-> 2]
  /\ recv_bytes = [r \in Receivers |-> Zeros]
  /\ recv_op = [r \in Receivers |-> NoOp]
  /\ metadata = [r \in Receivers |-> NoMeta]
  /\ yielded = [r \in Receivers |-> << >>]
  /\ mailbox = [r \in Receivers |-> << >>]
  /\ subscribed = {}
  /\ dropped = {}
  /\ sent_version = << >>

\* finalize drops the buffers; the sockets of this update are replaced by
\* the next init_process_group
finalize ==
  /\ send_pc' = "idle"
  /\ next_weight' = 1
  /\ bucket_meta' = << >>
  /\ offset' = 0
  /\ send_buf' = 1
  /\ send_bytes' = Zeros
  /\ send_op' = NoOp
  /\ recv_pc' = [r \in Receivers |-> "idle"]
  /\ recv_buf' = [r \in Receivers |-> 2]
  /\ recv_bytes' = [r \in Receivers |-> Zeros]
  /\ recv_op' = [r \in Receivers |-> NoOp]
  /\ metadata' = [r \in Receivers |-> NoMeta]
  /\ yielded' = [r \in Receivers |-> << >>]
  /\ mailbox' = [r \in Receivers |-> << >>]
  /\ subscribed' = {}
  /\ dropped' = {}
  /\ sent_version' = << >>

\* prepare and init_process_group: fresh buffers, new subscriptions, and a
\* barrier of the collective group that says nothing about the latter
StartSync(version) ==
  /\ send_pc = "idle"
  /\ send_pc' = "fill"
  /\ sent_version' = version
  /\ recv_pc' = [r \in Receivers |-> "start"]
  /\ UNCHANGED << next_weight, bucket_meta, offset, send_buf, send_bytes, send_op,
                  recv_buf, recv_bytes, recv_op, metadata, yielded, mailbox, subscribed, dropped >>

\* the connection of receiver r comes up
Subscribe(r) ==
  /\ send_pc # "idle"
  /\ r \notin subscribed
  /\ subscribed' = subscribed \cup {r}
  /\ UNCHANGED << senderVars, receiverVars, send_op, recv_op, recv_bytes, mailbox, dropped >>

-----------------------------------------------------------------------------
(* The sender.                                                             *)

\* the positions of weight i when it is put at position `from`
Extent(i, from) == from..(from + Sizes[i] - 1)

FitsInBucket(i) == offset + Sizes[i] <= BucketSize

\* Variant: the first bucket waits for a broadcast, too.
PreviousOverStrict == send_op = Completed

PreviousOver == send_op \in {NoOp, Completed}

\* BroadcastOperation.__init__ on rank 0: publish, then join the collective
StartBroadcast(is_last) ==
  /\ PreviousOver
  /\ send_op' = [buffer |-> send_buf]
  /\ mailbox' = [r \in Receivers |->
                   IF r \in subscribed
                   THEN Append(mailbox[r], Meta(bucket_meta, is_last)) ELSE mailbox[r]]
  /\ dropped' = dropped \cup (Receivers \ subscribed)

FillBucket ==
  /\ send_pc = "fill"
  /\ next_weight <= Len(Sizes)
  /\ FitsInBucket(next_weight)
  /\ bucket_meta' = Append(bucket_meta, [name |-> next_weight, offset |-> offset])
  /\ send_bytes' = [send_bytes EXCEPT ![send_buf] =
       [position \in DOMAIN @ |-> IF position \in Extent(next_weight, offset)
                                  THEN << next_weight, sent_version >> ELSE @[position]]]
  /\ offset' = offset + Sizes[next_weight]
  /\ next_weight' = next_weight + 1
  /\ UNCHANGED << send_pc, send_buf, sent_version, receiverVars, wireVars >>

\* the bucket is full: wait for the previous broadcast, start this one, swap
FlushBucket ==
  /\ send_pc = "fill"
  /\ next_weight <= Len(Sizes)
  /\ ~FitsInBucket(next_weight)
  /\ StartBroadcast(FALSE)
  /\ send_buf' = Other(send_buf)
  /\ bucket_meta' = << >>
  /\ offset' = 0
  /\ UNCHANGED << send_pc, next_weight, send_bytes, sent_version, receiverVars,
                  recv_op, recv_bytes, subscribed >>

LastBucket ==
  /\ send_pc = "fill"
  /\ next_weight > Len(Sizes)
  /\ StartBroadcast(TRUE)
  /\ send_pc' = "wait_last"
  /\ UNCHANGED << next_weight, bucket_meta, offset, send_buf, send_bytes, sent_version,
                  receiverVars, recv_op, recv_bytes, subscribed >>

SenderDone ==
  /\ send_pc = "wait_last"
  /\ send_op = Completed
  /\ send_pc' = "done"
  /\ UNCHANGED << next_weight, bucket_meta, offset, send_buf, send_bytes, sent_version,
                  receiverVars, wireVars >>

-----------------------------------------------------------------------------
(* A receiver.                                                             *)

ReceiveFirst(r) ==
  /\ recv_pc[r] = "start"
  /\ recv_op' = [recv_op EXCEPT ![r] = [buffer |-> recv_buf[r], meta |-> NoMeta]]
  /\ recv_pc' = [recv_pc EXCEPT ![r] = "wait"]
  /\ UNCHANGED << senderVars, recv_buf, metadata, yielded, send_op, recv_bytes, mailbox,
                  subscribed, dropped >>

MetadataHere(r) == recv_op[r] # NoOp /\ recv_op[r].meta = NoMeta /\ mailbox[r] # << >>

\* the operation's thread reads its metadata and joins the collective
ReadMetadata(r) ==
  /\ MetadataHere(r)
  /\ recv_op' = [recv_op EXCEPT ![r].meta = Head(mailbox[r])]
  /\ mailbox' = [mailbox EXCEPT ![r] = Tail(@)]
  /\ UNCHANGED << senderVars, receiverVars, send_op, recv_bytes, subscribed,
                  dropped >>

\* the collective completes once every rank has joined it
EveryRankJoined ==
  /\ send_op \notin {NoOp, Completed}
  /\ \A r \in Receivers :
       recv_op[r] # NoOp /\ recv_op[r].buffer # 0 /\ recv_op[r].meta # NoMeta

Broadcast ==
  /\ EveryRankJoined
  /\ recv_bytes' = [r \in Receivers |->
       [recv_bytes[r] EXCEPT ![recv_op[r].buffer] = send_bytes[send_op.buffer]]]
  /\ send_op' = Completed
  /\ recv_op' = [r \in Receivers |-> [recv_op[r] EXCEPT !.buffer = 0]]
  /\ UNCHANGED << senderVars, receiverVars, mailbox, subscribed, dropped >>

OpCompleted(r) == recv_op[r] # NoOp /\ recv_op[r].buffer = 0

\* wait_for_complete, swap, and start the next broadcast if there is one
BucketReceived(r) ==
  /\ recv_pc[r] = "wait"
  /\ OpCompleted(r)
  /\ metadata' = [metadata EXCEPT ![r] = recv_op[r].meta]
  /\ recv_buf' = [recv_buf EXCEPT ![r] = Other(@)]
  /\ recv_op' = [recv_op EXCEPT ![r] =
       IF recv_op[r].meta.is_last THEN NoOp
       ELSE [buffer |-> Other(recv_buf[r]), meta |-> NoMeta]]
  /\ recv_pc' = [recv_pc EXCEPT ![r] = "yield"]
  /\ UNCHANGED << senderVars, yielded, send_op, recv_bytes, mailbox, subscribed, dropped >>

\* hand the next weight of the received bucket to the server
YieldWeight(r) ==
  /\ recv_pc[r] = "yield"
  /\ metadata[r].bucket_meta # << >>
  /\ LET meta == Head(metadata[r].bucket_meta)
         bytes == recv_bytes[r][Other(recv_buf[r])]
     IN  yielded' = [yielded EXCEPT ![r] =
           Append(@, { bytes[position] : position \in Extent(meta.name, meta.offset) })]
  /\ metadata' = [metadata EXCEPT ![r].bucket_meta = Tail(@)]
  /\ UNCHANGED << senderVars, recv_pc, recv_buf, wireVars >>

BucketYielded(r) ==
  /\ recv_pc[r] = "yield"
  /\ metadata[r].bucket_meta = << >>
  /\ recv_pc' = [recv_pc EXCEPT ![r] = IF metadata[r].is_last THEN "done" ELSE "wait"]
  /\ UNCHANGED << senderVars, recv_buf, metadata, yielded, wireVars >>

SyncStep ==
  \/ FillBucket \/ FlushBucket \/ LastBucket \/ SenderDone \/ Broadcast
  \/ \E r \in Receivers :
       \/ Subscribe(r) \/ ReceiveFirst(r) \/ ReadMetadata(r)
       \/ BucketReceived(r) \/ YieldWeight(r) \/ BucketYielded(r)

(* Every receiver hands its server the sender's weights, whole and in      *)
(* order: no bucket is overwritten before its broadcast is through or      *)
(* while it is being read.                                                 *)
Delivered(r, count) ==
  yielded[r] = [i \in 1..count |-> {<< i, sent_version >>}]

SyncFinished == send_pc = "done" /\ \A r \in Receivers : recv_pc[r] = "done"

=============================================================================
