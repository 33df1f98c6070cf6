------------------------ MODULE PPOTrainerOrderProofs ------------------------
(***************************************************************************)
(* Proofs about the training of the synchronous trainer, for any number of *)
(* ranks, replicas and restarts and any configuration: that trainer and    *)
(* replicas take turns, that the replicas get the weights whole, that the  *)
(* weights are trained on consecutive batches, each of them on policy, and *)
(* that the rows of a batch keep their results.                            *)
(*                                                                         *)
(* The argument for the order: the step number, the place of the           *)
(* dataloader and the updates of the weights go on together, and a         *)
(* checkpoint stores the three as they are at its step, so that wherever a *)
(* job is stopped, the one that resumes from the tracked checkpoint finds  *)
(* them together again.                                                    *)
(***************************************************************************)
EXTENDS PPOTrainerProofs, SeqlenBalancingProofs

-----------------------------------------------------------------------------
(* The two buffers of the transfer, for any receivers, weights and bucket  *)
(* size: what a receiver hands on is what the sender put into the bucket.  *)
(*                                                                         *)
(* The argument: at most one broadcast is under way, and its bytes lie in  *)
(* the buffer the sender does not fill.  The sender starts the next one    *)
(* when this one is through, so the metadata a receiver finds in its       *)
(* mailbox is that of the broadcast under way, and it continues what the   *)
(* receiver has got so far.  The broadcast fills the buffer the receiver   *)
(* does not read.                                                          *)

Entries == [name : Nat, offset : Nat]
Metas == [bucket_meta : Seq(Entries), is_last : BOOLEAN]
Bytes == {<< >>} \cup (Nat \X {sent_version})
BufferPairs == [Buffers -> [0..(BucketSize - 1) -> Bytes]]
RecvOps == [buffer : {0} \cup Buffers, meta : Metas]

SenderTypes ==
  /\ send_pc \in {"idle", "fill", "wait_last", "done"}
  /\ next_weight \in 1..(Len(Sizes) + 1)
  /\ bucket_meta \in Seq(Entries)
  /\ offset \in Nat
  /\ send_buf \in Buffers
  /\ send_bytes \in BufferPairs
  /\ send_op \in {NoOp, Completed} \cup [buffer : Buffers]

ReceiverTypes ==
  /\ recv_pc \in [Receivers -> {"idle", "start", "wait", "yield", "done"}]
  /\ recv_buf \in [Receivers -> Buffers]
  /\ recv_bytes \in [Receivers -> BufferPairs]
  /\ recv_op \in [Receivers -> {NoOp} \cup RecvOps]
  /\ metadata \in [Receivers -> Metas]
  /\ yielded \in [Receivers -> Seq(SUBSET Bytes)]
  /\ mailbox \in [Receivers -> Seq(Metas)]

\* the weights of the bucket follow the first `before` ones and are whole
Holds(bucket, bytes, before) ==
  \A i \in 1..Len(bucket) :
    /\ bucket[i].name = before + i
    /\ bucket[i].name \in DOMAIN Sizes
    /\ \A position \in Extent(bucket[i].name, bucket[i].offset) :
         bytes[position] = << bucket[i].name, sent_version >>

InFlight == send_op \notin {NoOp, Completed}
LastBegun == send_pc \in {"wait_last", "done"}

\* weights whose broadcast has begun, and those a receiver has got
Begun == IF LastBegun THEN Len(Sizes) ELSE next_weight - 1 - Len(bucket_meta)
Held(r) == Len(yielded[r]) + Len(metadata[r].bucket_meta)
Got(r) == Held(r) + IF OpCompleted(r) THEN Len(recv_op[r].meta.bucket_meta) ELSE 0

Waiting(r) == recv_op[r] # NoOp /\ ~OpCompleted(r)

\* the bucket being filled is in its buffer, the one under way in the other
FillInv ==
  send_pc = "fill" =>
    /\ Holds(bucket_meta, send_bytes[send_buf], Begun)
    /\ \A i \in 1..Len(bucket_meta) :
         bucket_meta[i].offset + Sizes[bucket_meta[i].name] <= offset
    /\ bucket_meta = << >> => offset = 0
    /\ Begun \in Nat
    /\ InFlight => send_op.buffer = Other(send_buf)

\* what the receiver has handed on, what it is handing on, and what waits
ReceiverInv(r) ==
  /\ yielded[r] = [i \in 1..Len(yielded[r]) |-> {<< i, sent_version >>}]
  /\ Holds(metadata[r].bucket_meta, recv_bytes[r][Other(recv_buf[r])], Len(yielded[r]))
  /\ recv_pc[r] # "yield" => metadata[r].bucket_meta = << >>
  /\ Waiting(r) => recv_op[r].buffer = recv_buf[r]
  /\ OpCompleted(r) => /\ recv_op[r].meta # NoMeta
                       /\ Holds(recv_op[r].meta.bucket_meta, recv_bytes[r][recv_buf[r]], Held(r))
  /\ OpCompleted(r) /\ recv_op[r].meta.is_last => Got(r) = Len(Sizes)
  /\ metadata[r].is_last => Held(r) = Len(Sizes) /\ recv_op[r] = NoOp
  /\ recv_pc[r] = "start" => recv_op[r] = NoOp /\ metadata[r] = NoMeta
  /\ recv_pc[r] = "done" => metadata[r].is_last

\* the metadata of the broadcast under way
Flying(meta, r) ==
  /\ meta # NoMeta
  /\ Holds(meta.bucket_meta, send_bytes[send_op.buffer], Got(r))
  /\ Got(r) + Len(meta.bucket_meta) = Begun
  /\ meta.is_last => LastBegun

WireInv(r) ==
  /\ ~InFlight => /\ Got(r) = Begun
                  /\ mailbox[r] = << >>
                  /\ Waiting(r) => recv_op[r].meta = NoMeta
  /\ mailbox[r] # << >> => Len(mailbox[r]) = 1 /\ Flying(mailbox[r][1], r)
  /\ Waiting(r) /\ recv_op[r].meta # NoMeta => mailbox[r] = << >> /\ Flying(recv_op[r].meta, r)

SyncInv ==
  /\ SenderTypes /\ ReceiverTypes
  /\ send_pc = "idle" => SyncIdle
  /\ FillInv
  /\ \A r \in Receivers : ReceiverInv(r) /\ WireInv(r)

-----------------------------------------------------------------------------
(* Operations, buffers and buckets.                                        *)

LEMMA OpsDiffer ==
  /\ NoOp # Completed
  /\ \A b : [buffer |-> b] # NoOp /\ [buffer |-> b] # Completed
  /\ \A b, m : [buffer |-> b, meta |-> m] # NoOp
<1>1. /\ DOMAIN NoOp = {"op"} /\ DOMAIN Completed = {"op"}
      /\ NoOp.op = "none" /\ Completed.op = "completed"
  BY DEF NoOp, Completed
<1>2. \A b : DOMAIN [buffer |-> b] = {"buffer"}
  OBVIOUS
<1>3. \A b, m : DOMAIN [buffer |-> b, meta |-> m] = {"buffer", "meta"}
  OBVIOUS
<1>4. "buffer" # "op"
  OBVIOUS
<1> QED
  BY <1>1, <1>2, <1>3, <1>4

LEMMA BuffersDiffer ==
  \A b \in Buffers : Other(b) \in Buffers /\ Other(b) # b /\ Other(Other(b)) = b /\ b # 0
  BY DEF Buffers, Other

LEMMA SizesTypes ==
  /\ Len(Sizes) \in Nat /\ DOMAIN Sizes = 1..Len(Sizes)
  /\ \A i \in DOMAIN Sizes : Sizes[i] \in Nat /\ Sizes[i] > 0 /\ Sizes[i] <= BucketSize
  BY WeightSyncAssumption

LEMMA MetaTypes ==
  /\ NoMeta \in Metas /\ NoMeta.bucket_meta = << >> /\ NoMeta.is_last = FALSE
  /\ \A bucket \in Seq(Entries), last \in BOOLEAN :
       /\ Meta(bucket, last) \in Metas
       /\ Meta(bucket, last).bucket_meta = bucket /\ Meta(bucket, last).is_last = last
       /\ last \/ bucket # << >> => Meta(bucket, last) # NoMeta
  BY DEF NoMeta, Meta, Metas

LEMMA HoldsTail ==
  ASSUME NEW bucket \in Seq(Entries), NEW bytes, NEW before \in Nat,
         Holds(bucket, bytes, before), bucket # << >>
  PROVE  Holds(Tail(bucket), bytes, before + 1)
<1>1. /\ Len(Tail(bucket)) = Len(bucket) - 1 /\ Len(bucket) \in Nat
      /\ \A i \in 1..Len(Tail(bucket)) : Tail(bucket)[i] = bucket[i + 1]
  OBVIOUS
<1>2. \A i \in 1..Len(Tail(bucket)) : i + 1 \in 1..Len(bucket) /\ before + (i + 1) = (before + 1) + i
  BY <1>1
<1> HIDE DEF Extent
<1>3. ASSUME NEW i \in 1..Len(Tail(bucket))
      PROVE  /\ Tail(bucket)[i].name = (before + 1) + i
             /\ Tail(bucket)[i].name \in DOMAIN Sizes
             /\ \A position \in Extent(Tail(bucket)[i].name, Tail(bucket)[i].offset) :
                  bytes[position] = << Tail(bucket)[i].name, sent_version >>
  BY <1>1, <1>2 DEF Holds
<1> QED
  BY <1>3 DEF Holds

LEMMA NatSum == 0 \in Nat /\ \A a, b \in Nat : a + b \in Nat
  OBVIOUS

\* counts are numbers
LEMMA CountTypes ==
  ASSUME SenderTypes, ReceiverTypes
  PROVE  /\ Len(bucket_meta) \in Nat /\ Begun \in Int
         /\ \A r \in Receivers :
              /\ Len(yielded[r]) \in Nat /\ Len(metadata[r].bucket_meta) \in Nat
              /\ Held(r) \in Nat /\ Got(r) \in Nat
              /\ metadata[r].bucket_meta \in Seq(Entries)
              /\ OpCompleted(r) => Len(recv_op[r].meta.bucket_meta) \in Nat
              /\ recv_op[r] # NoOp =>
                   recv_op[r] \in RecvOps /\ recv_op[r].meta \in Metas
                   /\ recv_op[r].meta.bucket_meta \in Seq(Entries)
<1>1. Len(bucket_meta) \in Nat /\ next_weight \in Int /\ Len(Sizes) \in Nat
  BY SizesTypes DEF SenderTypes
<1>2. Begun \in Int
  BY <1>1 DEF Begun
<1>3. ASSUME NEW r \in Receivers
      PROVE  /\ Len(yielded[r]) \in Nat /\ Len(metadata[r].bucket_meta) \in Nat
             /\ metadata[r].bucket_meta \in Seq(Entries)
             /\ recv_op[r] # NoOp =>
                  recv_op[r] \in RecvOps /\ recv_op[r].meta \in Metas
                  /\ recv_op[r].meta.bucket_meta \in Seq(Entries)
  <2>1. yielded[r] \in Seq(SUBSET Bytes) /\ metadata[r] \in Metas
        /\ recv_op[r] \in {NoOp} \cup RecvOps
    BY DEF ReceiverTypes
  <2> QED
    BY <2>1 DEF Metas, RecvOps
<1>4. ASSUME NEW r \in Receivers, OpCompleted(r)
      PROVE  Len(recv_op[r].meta.bucket_meta) \in Nat
  BY <1>3, <1>4 DEF OpCompleted
<1>5. ASSUME NEW r \in Receivers
      PROVE  Held(r) \in Nat /\ Got(r) \in Nat
  <2>1. Held(r) \in Nat
    BY <1>3, NatSum DEF Held
  <2>2. CASE OpCompleted(r)
    BY <1>4, <2>1, <2>2, NatSum DEF Got
  <2>3. CASE ~OpCompleted(r)
    BY <2>1, <2>3, NatSum DEF Got
  <2> QED
    BY <2>1, <2>2, <2>3
<1> QED
  BY <1>1, <1>2, <1>3, <1>4, <1>5

-----------------------------------------------------------------------------
(* A receiver a step leaves alone.                                         *)

Unmoved(r) ==
  /\ recv_pc'[r] = recv_pc[r] /\ recv_buf'[r] = recv_buf[r] /\ recv_bytes'[r] = recv_bytes[r]
  /\ recv_op'[r] = recv_op[r] /\ metadata'[r] = metadata[r] /\ yielded'[r] = yielded[r]

LEMMA ReceiverFrame ==
  ASSUME NEW r \in Receivers, ReceiverInv(r), Unmoved(r), UNCHANGED sent_version
  PROVE  /\ ReceiverInv(r)'
         /\ Got(r)' = Got(r) /\ Held(r)' = Held(r)
         /\ Waiting(r)' <=> Waiting(r)
<1>1. /\ OpCompleted(r)' <=> OpCompleted(r)
      /\ Waiting(r)' <=> Waiting(r)
  BY DEF OpCompleted, Waiting, Unmoved
<1>2. Got(r)' = Got(r) /\ Held(r)' = Held(r)
  BY <1>1 DEF Got, Held, Unmoved
<1>3. \A bucket, bytes, before : Holds(bucket, bytes, before)' <=> Holds(bucket, bytes, before)
  BY DEF Holds
<1> QED
  BY <1>1, <1>2, <1>3 DEF ReceiverInv, Unmoved, Holds

\* and whose broadcast is not disturbed
LEMMA WireFrame ==
  ASSUME NEW r \in Receivers, WireInv(r), UNCHANGED << sent_version, send_op >>,
         mailbox'[r] = mailbox[r], recv_op'[r] = recv_op[r], Waiting(r)' <=> Waiting(r),
         Got(r)' = Got(r), Begun' = Begun, LastBegun => LastBegun',
         InFlight => send_bytes'[send_op.buffer] = send_bytes[send_op.buffer],
         InFlight \/ (mailbox[r] = << >> /\ (Waiting(r) => recv_op[r].meta = NoMeta))
  PROVE  WireInv(r)'
<1>1. InFlight' <=> InFlight
  BY DEF InFlight
<1>2. CASE InFlight
  <2>1. \A meta : Flying(meta, r) => Flying(meta, r)'
    BY <1>2 DEF Flying, Holds
  <2> QED
    BY <1>1, <1>2, <2>1 DEF WireInv
<1>3. CASE ~InFlight
  BY <1>1, <1>3 DEF WireInv
<1> QED
  BY <1>2, <1>3

\* between two updates nothing is under way
LEMMA IdleStops ==
  ASSUME SyncInv, SyncStep
  PROVE  send_pc # "idle" /\ send_pc' # "idle"
<1>1. ASSUME send_pc = "idle"
      PROVE  FALSE
  <2>1. SyncIdle
    BY <1>1 DEF SyncInv
  <2>2. send_op = NoOp /\ \A r \in Receivers : recv_pc[r] = "idle" /\ recv_op[r] = NoOp
    BY <2>1 DEF SyncIdle
  <2> QED
    BY <1>1, <2>2
    DEF SyncStep, FillBucket, FlushBucket, LastBucket, SenderDone, Broadcast, EveryRankJoined, Subscribe,
        ReceiveFirst, ReadMetadata, MetadataHere, BucketReceived, YieldWeight, BucketYielded
<1>2. send_pc' \in {send_pc, "fill", "wait_last", "done"}
  BY DEF SyncStep, FillBucket, FlushBucket, LastBucket, SenderDone, Broadcast, EveryRankJoined, Subscribe,
         ReceiveFirst, ReadMetadata, MetadataHere, BucketReceived, YieldWeight, BucketYielded,
         senderVars
<1> QED
  BY <1>1, <1>2

-----------------------------------------------------------------------------
(* The sender's steps.                                                     *)

LEMMA FillBucketStep ==
  ASSUME SyncInv, FillBucket
  PROVE  SyncInv'
<1> DEFINE size == Sizes[next_weight]
           entry == [name |-> next_weight, offset |-> offset]
<1>1. /\ send_pc = "fill" /\ offset \in Nat /\ next_weight \in Nat /\ send_buf \in Buffers
      /\ next_weight \in DOMAIN Sizes /\ size \in Nat /\ size > 0 /\ offset + size <= BucketSize
      /\ bucket_meta \in Seq(Entries) /\ BucketSize \in Nat /\ send_bytes \in BufferPairs
  BY SizesTypes, WeightSyncAssumption DEF FillBucket, FitsInBucket, SyncInv, SenderTypes
<1>2. /\ bucket_meta' = Append(bucket_meta, entry) /\ offset' = offset + size
      /\ next_weight' = next_weight + 1
      /\ send_bytes' = [send_bytes EXCEPT ![send_buf] =
           [position \in DOMAIN @ |-> IF position \in Extent(next_weight, offset)
                                      THEN << next_weight, sent_version >> ELSE @[position]]]
      /\ UNCHANGED << send_pc, send_buf, sent_version, receiverVars, wireVars >>
  BY DEF FillBucket
<1>3. /\ Len(bucket_meta') = Len(bucket_meta) + 1 /\ Len(bucket_meta) \in Nat
      /\ bucket_meta' \in Seq(Entries) /\ bucket_meta'[Len(bucket_meta) + 1] = entry
      /\ \A i \in 1..Len(bucket_meta) : bucket_meta'[i] = bucket_meta[i]
      /\ bucket_meta' # << >>
  BY <1>1, <1>2 DEF Entries
<1>4. \A position \in Extent(next_weight, offset) :
        position \in 0..(BucketSize - 1) /\ position >= offset
  BY <1>1 DEF Extent
<1> HIDE DEF size
<1>5. /\ send_bytes' \in BufferPairs
      /\ \A b \in Buffers : b # send_buf => send_bytes'[b] = send_bytes[b]
      /\ \A position \in Extent(next_weight, offset) :
           send_bytes'[send_buf][position] = << next_weight, sent_version >>
      /\ \A position : position \in 0..(BucketSize - 1) /\ position \notin Extent(next_weight, offset)
           => send_bytes'[send_buf][position] = send_bytes[send_buf][position]
  <2>1. << next_weight, sent_version >> \in Bytes
    BY <1>1 DEF Bytes
  <2>2. DOMAIN send_bytes[send_buf] = 0..(BucketSize - 1)
    BY <1>1 DEF BufferPairs
  <2> QED
    BY <1>1, <1>2, <1>4, <2>1, <2>2 DEF BufferPairs, Bytes
<1>6. Begun' = Begun /\ Begun \in Nat /\ Begun + Len(bucket_meta) = next_weight - 1
  <2>1. ~LastBegun /\ ~LastBegun' /\ Begun \in Nat
    BY <1>1, <1>2 DEF LastBegun, SyncInv, FillInv
  <2>2. Begun = next_weight - 1 - Len(bucket_meta)
        /\ Begun' = next_weight' - 1 - Len(bucket_meta')
    BY <2>1 DEF Begun
  <2> QED
    BY <1>1, <1>2, <1>3, <2>1, <2>2
<1>7. SenderTypes' /\ ReceiverTypes'
  <2>1. next_weight' \in 1..(Len(Sizes) + 1) /\ offset' \in Nat
    BY <1>1, <1>2, SizesTypes DEF size
  <2>2. Bytes' = Bytes
    BY <1>2 DEF Bytes
  <2>3. BufferPairs' = BufferPairs
    BY <2>2 DEF BufferPairs
  <2> QED
    BY <1>2, <1>3, <1>5, <2>1, <2>2, <2>3
    DEF SyncInv, SenderTypes, ReceiverTypes, receiverVars, wireVars
<1>8. FillInv'
  <2>1. /\ Holds(bucket_meta, send_bytes[send_buf], Begun)
        /\ \A i \in 1..Len(bucket_meta) :
             bucket_meta[i].offset + Sizes[bucket_meta[i].name] <= offset
        /\ InFlight => send_op.buffer = Other(send_buf)
    BY <1>1 DEF SyncInv, FillInv
  <2>2. \A i \in 1..Len(bucket_meta') : i \in 1..Len(bucket_meta) \/ i = Len(bucket_meta) + 1
    BY <1>3
  <2>3. ASSUME NEW i \in 1..Len(bucket_meta)
        PROVE  \A position \in Extent(bucket_meta[i].name, bucket_meta[i].offset) :
                 send_bytes'[send_buf][position] = << bucket_meta[i].name, sent_version >>
    <3>1. /\ bucket_meta[i].name \in DOMAIN Sizes
          /\ bucket_meta[i].offset \in Nat
          /\ bucket_meta[i].offset + Sizes[bucket_meta[i].name] <= offset
      <4>1. bucket_meta[i] \in Entries
        BY <1>1
      <4> QED
        BY <2>1, <4>1 DEF Holds, Entries
    <3>2. Sizes[bucket_meta[i].name] \in Nat
      BY <3>1, SizesTypes
    <3>3. ASSUME NEW position \in Extent(bucket_meta[i].name, bucket_meta[i].offset)
          PROVE  position < offset /\ position \in 0..(BucketSize - 1) /\ position \in Nat
      BY <1>1, <3>1, <3>2, <3>3 DEF Extent, size
    <3>4. ASSUME NEW position \in Extent(bucket_meta[i].name, bucket_meta[i].offset)
          PROVE  position \notin Extent(next_weight, offset)
      BY <1>1, <1>4, <3>3
    <3> QED
      BY <1>5, <2>1, <3>3, <3>4 DEF Holds
  <2>4. Holds(bucket_meta, send_bytes[send_buf], Begun)'
    <3>1. ASSUME NEW i \in 1..Len(bucket_meta)
          PROVE  /\ bucket_meta[i].name = Begun + i /\ bucket_meta[i].name \in DOMAIN Sizes
      BY <2>1 DEF Holds
    <3>2. Begun + (Len(bucket_meta) + 1) = next_weight
      BY <1>1, <1>3, <1>6
    <3> HIDE DEF Extent
    <3>3. ASSUME NEW i \in 1..Len(bucket_meta')
          PROVE  /\ bucket_meta'[i].name = Begun + i
                 /\ bucket_meta'[i].name \in DOMAIN Sizes
                 /\ \A position \in Extent(bucket_meta'[i].name, bucket_meta'[i].offset) :
                      send_bytes'[send_buf][position] = << bucket_meta'[i].name, sent_version >>
      <4>1. CASE i \in 1..Len(bucket_meta)
        BY <1>3, <2>3, <3>1, <4>1
      <4>2. CASE i = Len(bucket_meta) + 1
        BY <1>1, <1>3, <1>5, <3>2, <4>2
      <4> QED
        BY <2>2, <4>1, <4>2
    <3> QED
      BY <1>2, <1>6, <3>3 DEF Holds
  <2>5. ASSUME NEW i \in 1..Len(bucket_meta')
        PROVE  bucket_meta'[i].offset + Sizes[bucket_meta'[i].name] <= offset'
    <3>1. CASE i \in 1..Len(bucket_meta)
      <4>1. bucket_meta[i] \in Entries /\ bucket_meta[i].name \in DOMAIN Sizes
        BY <1>1, <2>1, <3>1 DEF Holds
      <4>2. bucket_meta[i].offset \in Nat /\ Sizes[bucket_meta[i].name] \in Nat
        BY <4>1, SizesTypes DEF Entries
      <4>3. bucket_meta[i].offset + Sizes[bucket_meta[i].name] <= offset
        BY <2>1, <3>1
      <4> QED
        BY <1>1, <1>2, <1>3, <3>1, <4>2, <4>3
    <3>2. CASE i = Len(bucket_meta) + 1
      BY <1>1, <1>2, <1>3, <3>2 DEF size
    <3> QED
      BY <2>2, <3>1, <3>2
  <2> QED
    BY <1>2, <1>3, <1>6, <2>1, <2>4, <2>5 DEF FillInv, InFlight, wireVars
<1>9. ASSUME NEW r \in Receivers
      PROVE  ReceiverInv(r)' /\ WireInv(r)'
  <2>1. Unmoved(r) /\ mailbox'[r] = mailbox[r] /\ UNCHANGED << sent_version, send_op, send_pc >>
    BY <1>2 DEF Unmoved, receiverVars, wireVars
  <2>2. ReceiverInv(r) /\ WireInv(r)
    BY DEF SyncInv
  <2>3. ReceiverInv(r)' /\ Got(r)' = Got(r) /\ (Waiting(r)' <=> Waiting(r))
    BY <2>1, <2>2, ReceiverFrame
  <2>4. InFlight => send_bytes'[send_op.buffer] = send_bytes[send_op.buffer]
    <3>1. InFlight => send_op.buffer = Other(send_buf)
      BY <1>1 DEF SyncInv, FillInv
    <3> QED
      BY <1>1, <1>5, <3>1, BuffersDiffer
  <2>5. LastBegun => LastBegun'
    BY <2>1 DEF LastBegun
  <2>6. InFlight \/ (mailbox[r] = << >> /\ (Waiting(r) => recv_op[r].meta = NoMeta))
    BY <2>2 DEF WireInv
  <2>7. recv_op'[r] = recv_op[r]
    BY <2>1 DEF Unmoved
  <2> QED
    BY <1>6, <2>1, <2>2, <2>3, <2>4, <2>5, <2>6, <2>7, WireFrame
<1> QED
  BY <1>1, <1>2, <1>7, <1>8, <1>9 DEF SyncInv

\* a broadcast begins: its metadata continues what every receiver has got
LEMMA BroadcastBegins ==
  ASSUME SyncInv, NEW last \in BOOLEAN, StartBroadcast(last), send_pc = "fill",
         last \/ bucket_meta # << >>, last => LastBegun',
         Begun' = Begun + Len(bucket_meta),
         UNCHANGED << send_bytes, sent_version, receiverVars, recv_op, recv_bytes >>,
         NEW r \in Receivers
  PROVE  ReceiverInv(r)' /\ WireInv(r)'
<1>1. /\ Unmoved(r) /\ send_op' = [buffer |-> send_buf] /\ ~InFlight /\ InFlight'
      /\ send_bytes' = send_bytes
  BY OpsDiffer DEF Unmoved, receiverVars, StartBroadcast, PreviousOver, InFlight
<1>2. ReceiverInv(r) /\ WireInv(r) /\ SenderTypes /\ ReceiverTypes
  BY DEF SyncInv
<1>3. ReceiverInv(r)' /\ Got(r)' = Got(r) /\ (Waiting(r)' <=> Waiting(r))
  BY <1>1, <1>2, ReceiverFrame
<1>4. /\ Got(r) = Begun /\ mailbox[r] = << >>
      /\ Waiting(r) => recv_op[r].meta = NoMeta
  BY <1>1, <1>2 DEF WireInv
<1>0. PICK meta \in Metas : meta = Meta(bucket_meta, last)
  BY <1>2, MetaTypes DEF SenderTypes
<1>5. /\ meta # NoMeta /\ meta.bucket_meta = bucket_meta /\ meta.is_last = last
  BY <1>0, <1>2, MetaTypes DEF SenderTypes
<1>6. mailbox'[r] = << >> \/ mailbox'[r] = << meta >>
  <2>1. mailbox'[r] = IF r \in subscribed THEN Append(mailbox[r], meta) ELSE mailbox[r]
    BY <1>0 DEF StartBroadcast
  <2>2. Append(<< >>, meta) = << meta >>
    OBVIOUS
  <2> QED
    BY <1>4, <2>1, <2>2
<1>7. Holds(bucket_meta, send_bytes[send_buf], Begun)
  BY DEF SyncInv, FillInv
<1>8. Flying(meta, r)'
  <2>1. send_op'.buffer = send_buf
    BY <1>1
  <2>2. Holds(meta.bucket_meta, send_bytes[send_op.buffer], Got(r))'
    BY <1>1, <1>3, <1>4, <1>5, <1>7, <2>1 DEF Holds
  <2>3. Got(r)' + Len(meta.bucket_meta) = Begun'
    BY <1>3, <1>4, <1>5
  <2> QED
    BY <1>5, <2>2, <2>3 DEF Flying
<1>9. /\ mailbox'[r] # << >> => Len(mailbox'[r]) = 1 /\ mailbox'[r][1] = meta
  <2>1. Len(<< meta >>) = 1 /\ << meta >>[1] = meta
    OBVIOUS
  <2> QED
    BY <1>6, <2>1
<1>10. recv_op'[r] = recv_op[r]
  BY <1>1 DEF Unmoved
<1> QED
  BY <1>1, <1>3, <1>4, <1>8, <1>9, <1>10 DEF WireInv

LEMMA MailboxTypes ==
  ASSUME ReceiverTypes, NEW last \in BOOLEAN, bucket_meta \in Seq(Entries), StartBroadcast(last)
  PROVE  mailbox' \in [Receivers -> Seq(Metas)]
<1>1. Meta(bucket_meta, last) \in Metas
  BY MetaTypes
<1> QED
  BY <1>1 DEF ReceiverTypes, StartBroadcast

LEMMA FlushBucketStep ==
  ASSUME SyncInv, FlushBucket
  PROVE  SyncInv'
<1>1. /\ send_pc = "fill" /\ StartBroadcast(FALSE) /\ send_buf' = Other(send_buf)
      /\ bucket_meta' = << >> /\ offset' = 0 /\ ~FitsInBucket(next_weight)
      /\ next_weight <= Len(Sizes)
      /\ UNCHANGED << send_pc, next_weight, send_bytes, sent_version, receiverVars, recv_op,
                      recv_bytes >>
  BY DEF FlushBucket
<1>2. /\ next_weight \in DOMAIN Sizes /\ next_weight \in Nat /\ bucket_meta \in Seq(Entries)
      /\ send_buf \in Buffers /\ SenderTypes /\ ReceiverTypes
  BY <1>1, SizesTypes DEF SyncInv, SenderTypes
<1>3. bucket_meta # << >>
  <2>1. bucket_meta = << >> => offset = 0
    BY <1>1 DEF SyncInv, FillInv
  <2>2. 0 + Sizes[next_weight] <= BucketSize
    BY <1>2, SizesTypes
  <2> QED
    BY <1>1, <2>1, <2>2 DEF FitsInBucket
<1>4. Begun \in Nat /\ Begun' = Begun + Len(bucket_meta) /\ Begun' \in Nat
  <2>1. ~LastBegun /\ ~LastBegun' /\ Begun \in Nat
    BY <1>1 DEF LastBegun, SyncInv, FillInv
  <2>2. Begun = next_weight - 1 - Len(bucket_meta) /\ Begun' = next_weight' - 1 - Len(bucket_meta')
    BY <2>1 DEF Begun
  <2>3. Len(bucket_meta) \in Nat /\ Len(bucket_meta') = 0
    BY <1>1, <1>2
  <2> QED
    BY <1>1, <1>2, <2>1, <2>2, <2>3
<1>5. SenderTypes' /\ ReceiverTypes'
  <2>1. Bytes' = Bytes
    BY <1>1 DEF Bytes
  <2>2. BufferPairs' = BufferPairs
    BY <2>1 DEF BufferPairs
  <2>3. << >> \in Seq(Entries) /\ send_op' \in [buffer : Buffers] /\ send_buf' \in Buffers
    BY <1>1, <1>2, BuffersDiffer DEF StartBroadcast
  <2>4. mailbox' \in [Receivers -> Seq(Metas)]
    BY <1>1, <1>2, MailboxTypes
  <2> QED
    BY <1>1, <1>2, <2>1, <2>2, <2>3, <2>4 DEF SenderTypes, ReceiverTypes, receiverVars
<1>6. FillInv'
  <2>1. send_op'.buffer = send_buf /\ Other(send_buf') = send_buf
    BY <1>1, <1>2, BuffersDiffer DEF StartBroadcast
  <2>2. 1..Len(bucket_meta') = {}
    BY <1>1
  <2> QED
    BY <1>1, <1>4, <2>1, <2>2 DEF FillInv, Holds
<1>7. \A r \in Receivers : ReceiverInv(r)' /\ WireInv(r)'
  BY <1>1, <1>3, <1>4, BroadcastBegins
<1> QED
  BY <1>1, <1>5, <1>6, <1>7 DEF SyncInv

LEMMA LastBucketStep ==
  ASSUME SyncInv, LastBucket
  PROVE  SyncInv'
<1>1. /\ send_pc = "fill" /\ StartBroadcast(TRUE) /\ send_pc' = "wait_last"
      /\ next_weight > Len(Sizes)
      /\ UNCHANGED << next_weight, bucket_meta, offset, send_buf, send_bytes, sent_version,
                      receiverVars, recv_op, recv_bytes >>
  BY DEF LastBucket
<1>2. /\ next_weight \in 1..(Len(Sizes) + 1) /\ bucket_meta \in Seq(Entries)
      /\ send_buf \in Buffers /\ SenderTypes /\ ReceiverTypes
  BY DEF SyncInv, SenderTypes
<1>3. Begun' = Begun + Len(bucket_meta) /\ LastBegun'
  <2>1. ~LastBegun /\ LastBegun' /\ Begun \in Nat
    BY <1>1 DEF LastBegun, SyncInv, FillInv
  <2>2. Begun = next_weight - 1 - Len(bucket_meta) /\ Begun' = Len(Sizes)
    BY <2>1 DEF Begun
  <2>3. Len(bucket_meta) \in Nat /\ Len(Sizes) \in Nat /\ next_weight = Len(Sizes) + 1
    BY <1>1, <1>2, SizesTypes
  <2> QED
    BY <2>1, <2>2, <2>3
<1>4. SenderTypes' /\ ReceiverTypes'
  <2>1. Bytes' = Bytes
    BY <1>1 DEF Bytes
  <2>2. BufferPairs' = BufferPairs
    BY <2>1 DEF BufferPairs
  <2>3. send_op' \in [buffer : Buffers]
    BY <1>1, <1>2 DEF StartBroadcast
  <2>4. mailbox' \in [Receivers -> Seq(Metas)]
    BY <1>1, <1>2, MailboxTypes
  <2> QED
    BY <1>1, <1>2, <2>1, <2>2, <2>3, <2>4 DEF SenderTypes, ReceiverTypes, receiverVars
<1>5. \A r \in Receivers : ReceiverInv(r)' /\ WireInv(r)'
  BY <1>1, <1>3, BroadcastBegins
<1> QED
  BY <1>1, <1>4, <1>5 DEF SyncInv, FillInv

LEMMA SenderDoneStep ==
  ASSUME SyncInv, SenderDone
  PROVE  SyncInv'
<1>1. /\ send_pc = "wait_last" /\ send_pc' = "done" /\ send_op = Completed
      /\ UNCHANGED << next_weight, bucket_meta, offset, send_buf, send_bytes, sent_version,
                      receiverVars, wireVars >>
  BY DEF SenderDone
<1>2. Begun' = Begun /\ LastBegun'
  BY <1>1 DEF Begun, LastBegun
<1>3. SenderTypes' /\ ReceiverTypes'
  BY <1>1 DEF SyncInv, SenderTypes, ReceiverTypes, receiverVars, wireVars, BufferPairs, Bytes
<1>4. ASSUME NEW r \in Receivers
      PROVE  ReceiverInv(r)' /\ WireInv(r)'
  <2>1. Unmoved(r) /\ mailbox'[r] = mailbox[r] /\ UNCHANGED << sent_version, send_op, send_bytes >>
        /\ recv_op'[r] = recv_op[r]
    BY <1>1 DEF Unmoved, receiverVars, wireVars
  <2>2. ReceiverInv(r) /\ WireInv(r)
    BY DEF SyncInv
  <2>3. ReceiverInv(r)' /\ Got(r)' = Got(r) /\ (Waiting(r)' <=> Waiting(r))
    BY <2>1, <2>2, ReceiverFrame
  <2>4. InFlight \/ (mailbox[r] = << >> /\ (Waiting(r) => recv_op[r].meta = NoMeta))
    BY <2>2 DEF WireInv
  <2> QED
    BY <1>2, <2>1, <2>2, <2>3, <2>4, WireFrame
<1> QED
  BY <1>1, <1>3, <1>4 DEF SyncInv, FillInv

-----------------------------------------------------------------------------
(* The collective, and a receiver's steps.                                 *)

LEMMA BroadcastStep ==
  ASSUME SyncInv, Broadcast
  PROVE  SyncInv'
<1>1. /\ InFlight
      /\ \A r \in Receivers : Waiting(r) /\ recv_op[r].meta # NoMeta
      /\ recv_bytes' = [r \in Receivers |->
           [recv_bytes[r] EXCEPT ![recv_op[r].buffer] = send_bytes[send_op.buffer]]]
      /\ send_op' = Completed
      /\ recv_op' = [r \in Receivers |-> [recv_op[r] EXCEPT !.buffer = 0]]
      /\ UNCHANGED << senderVars, receiverVars, mailbox >>
  BY DEF Broadcast, EveryRankJoined, InFlight, Waiting, OpCompleted
<1>2. SenderTypes /\ ReceiverTypes /\ send_op \in [buffer : Buffers] /\ ~InFlight'
  BY <1>1 DEF SyncInv, SenderTypes, InFlight
<1>3. send_bytes[send_op.buffer] \in [0..(BucketSize - 1) -> Bytes]
  BY <1>2 DEF SenderTypes, BufferPairs
<1>4. /\ Begun' = Begun /\ UNCHANGED << send_pc, sent_version, send_bytes, send_buf, bucket_meta,
                                        offset, next_weight, recv_pc, recv_buf, metadata, yielded >>
  BY <1>1 DEF senderVars, receiverVars, Begun, LastBegun
<1>5. ASSUME NEW r \in Receivers
      PROVE  /\ recv_op[r] \in RecvOps /\ recv_op[r].buffer \in Buffers
             /\ recv_op[r].buffer = recv_buf[r]
             /\ recv_op'[r] = [buffer |-> 0, meta |-> recv_op[r].meta]
             /\ recv_bytes'[r] \in BufferPairs
             /\ recv_bytes'[r][recv_buf[r]] = send_bytes[send_op.buffer]
             /\ \A b \in Buffers : b # recv_buf[r] => recv_bytes'[r][b] = recv_bytes[r][b]
  <2>1. Waiting(r) /\ recv_op[r] \in RecvOps /\ ReceiverInv(r)
    BY <1>1, <1>2 DEF ReceiverTypes, Waiting, SyncInv
  <2>2. recv_op[r].buffer = recv_buf[r] /\ recv_buf[r] \in Buffers
    BY <1>2, <2>1 DEF ReceiverInv, ReceiverTypes
  <2>3. recv_op'[r] = [recv_op[r] EXCEPT !.buffer = 0]
    BY <1>1
  <2>4. recv_op'[r] = [buffer |-> 0, meta |-> recv_op[r].meta]
    BY <2>1, <2>3 DEF RecvOps
  <2>5. recv_bytes[r] \in BufferPairs
    BY <1>2 DEF ReceiverTypes
  <2>6. recv_bytes'[r] = [recv_bytes[r] EXCEPT ![recv_buf[r]] = send_bytes[send_op.buffer]]
    BY <1>1, <2>2
  <2> QED
    BY <1>3, <2>1, <2>2, <2>4, <2>5, <2>6 DEF BufferPairs
<1>6. ReceiverTypes'
  <2>1. Bytes' = Bytes
    BY <1>4 DEF Bytes
  <2>2. BufferPairs' = BufferPairs
    BY <2>1 DEF BufferPairs
  <2>3. recv_bytes' \in [Receivers -> BufferPairs]
    BY <1>1, <1>5
  <2>4. \A r \in Receivers : [buffer |-> 0, meta |-> recv_op[r].meta] \in RecvOps
    BY <1>5 DEF RecvOps
  <2>5. recv_op' \in [Receivers -> {NoOp} \cup RecvOps]
    <3>1. \A r \in Receivers : recv_op'[r] \in RecvOps
      BY <1>5, <2>4
    <3>2. recv_op' = [r \in Receivers |-> recv_op'[r]]
      BY <1>1
    <3> QED
      BY <3>1, <3>2
  <2> QED
    BY <1>1, <1>2, <1>4, <2>1, <2>2, <2>3, <2>5 DEF ReceiverTypes
<1>7. SenderTypes'
  BY <1>1, <1>2, <1>4 DEF SenderTypes, BufferPairs, Bytes
<1>8. ASSUME NEW r \in Receivers
      PROVE  ReceiverInv(r)' /\ WireInv(r)'
  <2> DEFINE bucket == recv_op[r].meta.bucket_meta
  <2>1. /\ ReceiverInv(r) /\ WireInv(r) /\ ~OpCompleted(r)
        /\ Flying(recv_op[r].meta, r) /\ mailbox[r] = << >>
    BY <1>1 DEF SyncInv, WireInv, Waiting
  <2>0. /\ recv_op'[r] = [buffer |-> 0, meta |-> recv_op[r].meta]
        /\ recv_buf[r] \in Buffers
        /\ recv_bytes'[r][recv_buf[r]] = send_bytes[send_op.buffer]
        /\ \A b \in Buffers : b # recv_buf[r] => recv_bytes'[r][b] = recv_bytes[r][b]
    BY <1>5
  <2>2. /\ recv_op'[r].meta = recv_op[r].meta /\ recv_op'[r].buffer = 0 /\ recv_op'[r] # NoOp
    <3>1. [buffer |-> 0, meta |-> recv_op[r].meta] # NoOp
      BY OpsDiffer
    <3> QED
      BY <2>0, <3>1
  <2>3. OpCompleted(r)' /\ ~Waiting(r)' /\ Held(r)' = Held(r)
    BY <1>4, <2>2 DEF OpCompleted, Waiting, Held
  <2>4. Got(r) = Held(r) /\ Held(r) \in Nat /\ Len(bucket) \in Nat
        /\ Got(r) + Len(bucket) = Begun
    <3>1. Held(r) \in Nat /\ Len(bucket) \in Nat
      BY <1>1, <1>2, CountTypes DEF Waiting
    <3>2. Got(r) = Held(r) + 0
      BY <2>1 DEF Got
    <3> QED
      BY <2>1, <3>1, <3>2 DEF Flying
  <2>5. Got(r)' = Held(r) + Len(bucket)
    BY <2>2, <2>3 DEF Got
  <2>6. Got(r)' = Begun'
    BY <1>4, <2>4, <2>5
  <2>7. WireInv(r)'
    BY <1>1, <1>2, <2>1, <2>3, <2>6 DEF WireInv
  <2>8. Holds(recv_op[r].meta.bucket_meta, recv_bytes[r][recv_buf[r]], Held(r))'
    <3>1. Holds(bucket, send_bytes[send_op.buffer], Held(r))
      BY <2>1, <2>4 DEF Flying
    <3> QED
      BY <1>4, <2>0, <2>2, <2>3, <3>1 DEF Holds
  <2>9. recv_op[r].meta.is_last => Got(r)' = Len(Sizes)
    BY <1>4, <2>1, <2>6 DEF Flying, Begun
  <2>10. Holds(metadata[r].bucket_meta, recv_bytes[r][Other(recv_buf[r])], Len(yielded[r]))'
    <3>1. recv_bytes'[r][Other(recv_buf[r])] = recv_bytes[r][Other(recv_buf[r])]
      BY <2>0, BuffersDiffer
    <3>2. Holds(metadata[r].bucket_meta, recv_bytes[r][Other(recv_buf[r])], Len(yielded[r]))
      BY <2>1 DEF ReceiverInv
    <3> QED
      BY <1>4, <3>1, <3>2 DEF Holds
  <2>11. ~metadata[r].is_last /\ recv_pc[r] # "start"
    BY <1>1, <2>1 DEF ReceiverInv, Waiting
  <2> QED
    BY <1>1, <1>4, <2>1, <2>2, <2>3, <2>7, <2>8, <2>9, <2>10, <2>11 DEF ReceiverInv
<1>9. FillInv'
  BY <1>2, <1>4 DEF SyncInv, FillInv, Holds
<1>10. send_pc # "idle"
  BY IdleStops DEF SyncStep
<1> QED
  BY <1>4, <1>6, <1>7, <1>8, <1>9, <1>10 DEF SyncInv

\* a step of receiver r on its own state and mailbox leaves all else alone
LEMMA OneReceiverStep ==
  ASSUME SyncInv, NEW r \in Receivers, send_pc # "idle",
         UNCHANGED << senderVars, send_op >>,
         \A s \in Receivers : s # r => Unmoved(s) /\ mailbox'[s] = mailbox[s],
         ReceiverTypes', ReceiverInv(r)', WireInv(r)'
  PROVE  SyncInv'
<1>1. UNCHANGED << send_pc, next_weight, bucket_meta, offset, send_buf, send_bytes, sent_version,
                   send_op >>
  BY DEF senderVars
<1>2. Begun' = Begun /\ (LastBegun' <=> LastBegun) /\ (InFlight' <=> InFlight)
  BY <1>1 DEF Begun, LastBegun, InFlight
<1>3. SenderTypes' /\ FillInv'
  BY <1>1, <1>2 DEF SyncInv, SenderTypes, FillInv, Holds, BufferPairs, Bytes
<1>4. ASSUME NEW s \in Receivers, s # r
      PROVE  ReceiverInv(s)' /\ WireInv(s)'
  <2>1. Unmoved(s) /\ mailbox'[s] = mailbox[s] /\ recv_op'[s] = recv_op[s]
    BY <1>4 DEF Unmoved
  <2>2. ReceiverInv(s) /\ WireInv(s)
    BY DEF SyncInv
  <2>3. ReceiverInv(s)' /\ Got(s)' = Got(s) /\ (Waiting(s)' <=> Waiting(s))
    BY <1>1, <2>1, <2>2, ReceiverFrame
  <2>4. InFlight \/ (mailbox[s] = << >> /\ (Waiting(s) => recv_op[s].meta = NoMeta))
    BY <2>2 DEF WireInv
  <2> QED
    BY <1>1, <1>2, <2>1, <2>2, <2>3, <2>4, WireFrame
<1> QED
  BY <1>1, <1>3, <1>4 DEF SyncInv

LEMMA TypesKept ==
  ASSUME ReceiverTypes, UNCHANGED sent_version
  PROVE  Bytes' = Bytes /\ BufferPairs' = BufferPairs
<1>1. Bytes' = Bytes
  BY DEF Bytes
<1> QED
  BY <1>1 DEF BufferPairs

LEMMA SubscribeStep ==
  ASSUME SyncInv, NEW r \in Receivers, Subscribe(r)
  PROVE  SyncInv'
<1>1. /\ UNCHANGED << senderVars, send_op, sent_version >>
      /\ UNCHANGED << recv_pc, recv_buf, recv_bytes, recv_op, metadata, yielded, mailbox >>
  BY DEF Subscribe, senderVars, receiverVars
<1>2. ReceiverTypes /\ ReceiverTypes'
  BY <1>1, TypesKept DEF SyncInv, ReceiverTypes
<1>3. \A s \in Receivers : Unmoved(s) /\ mailbox'[s] = mailbox[s]
  BY <1>1 DEF Unmoved
<1>4. ReceiverInv(r)' /\ Got(r)' = Got(r) /\ (Waiting(r)' <=> Waiting(r))
  BY <1>1, <1>3, ReceiverFrame DEF SyncInv
<1>5. WireInv(r)'
  <2>1. Begun' = Begun /\ (LastBegun' <=> LastBegun) /\ send_bytes' = send_bytes
    BY <1>1 DEF Begun, LastBegun, senderVars
  <2>2. InFlight \/ (mailbox[r] = << >> /\ (Waiting(r) => recv_op[r].meta = NoMeta))
    BY DEF SyncInv, WireInv
  <2> QED
    BY <1>1, <1>4, <2>1, <2>2, WireFrame DEF SyncInv
<1>6. send_pc # "idle"
  BY DEF Subscribe
<1> QED
  BY <1>1, <1>2, <1>3, <1>4, <1>5, <1>6, OneReceiverStep

\* the metadata of the broadcast under way is as good as long as nothing moves
LEMMA FlyingKept ==
  ASSUME NEW r \in Receivers, NEW meta, Flying(meta, r), Got(r)' = Got(r),
         UNCHANGED << senderVars, send_op >>
  PROVE  Flying(meta, r)'
<1>1. UNCHANGED << send_pc, next_weight, bucket_meta, send_bytes, sent_version, send_op >>
  BY DEF senderVars
<1>2. Begun' = Begun /\ (LastBegun' <=> LastBegun)
  BY <1>1 DEF Begun, LastBegun
<1> QED
  BY <1>1, <1>2 DEF Flying, Holds

LEMMA ReceiveFirstStep ==
  ASSUME SyncInv, NEW r \in Receivers, ReceiveFirst(r)
  PROVE  SyncInv'
<1>1. /\ recv_pc[r] = "start" /\ recv_op' = [recv_op EXCEPT ![r] = [buffer |-> recv_buf[r], meta |-> NoMeta]]
      /\ recv_pc' = [recv_pc EXCEPT ![r] = "wait"]
      /\ UNCHANGED << senderVars, recv_buf, metadata, yielded, send_op, recv_bytes, mailbox, sent_version >>
  BY DEF ReceiveFirst, senderVars
<1>2. ReceiverTypes /\ ReceiverInv(r) /\ WireInv(r) /\ recv_buf[r] \in Buffers
  BY DEF SyncInv, ReceiverTypes
<1>3. recv_op'[r] = [buffer |-> recv_buf[r], meta |-> NoMeta] /\ recv_pc'[r] = "wait"
      /\ [buffer |-> recv_buf[r], meta |-> NoMeta] \in RecvOps
  BY <1>1, <1>2, MetaTypes DEF ReceiverTypes, RecvOps
<1>4. ReceiverTypes'
  <2>1. recv_op' \in [Receivers -> {NoOp} \cup RecvOps]
    BY <1>1, <1>2, <1>3 DEF ReceiverTypes
  <2> QED
    BY <1>1, <1>2, <2>1, TypesKept DEF ReceiverTypes
<1>5. \A s \in Receivers : s # r => Unmoved(s) /\ mailbox'[s] = mailbox[s]
  BY <1>1, <1>2 DEF Unmoved, ReceiverTypes
<1>6. /\ recv_op'[r].buffer = recv_buf[r] /\ recv_op'[r].meta = NoMeta /\ recv_buf[r] # 0
      /\ recv_op[r] = NoOp
  BY <1>1, <1>2, <1>3, BuffersDiffer DEF ReceiverInv
<1>7. ~OpCompleted(r) /\ ~OpCompleted(r)'
  BY <1>1, <1>6 DEF OpCompleted
<1>8. Held(r)' = Held(r) /\ Got(r)' = Got(r)
  BY <1>1, <1>7 DEF Held, Got
<1>9. ~metadata[r].is_last /\ metadata[r].bucket_meta = << >>
  BY <1>1, <1>2, MetaTypes DEF ReceiverInv
<1>10. ReceiverInv(r)'
  <2>1. Holds(metadata[r].bucket_meta, recv_bytes[r][Other(recv_buf[r])], Len(yielded[r]))'
    BY <1>1, <1>2 DEF ReceiverInv, Holds
  <2> QED
    BY <1>1, <1>2, <1>3, <1>6, <1>7, <1>9, <2>1 DEF ReceiverInv
<1>11. WireInv(r)'
  <2>1. Begun' = Begun /\ (InFlight' <=> InFlight)
    BY <1>1 DEF Begun, LastBegun, InFlight, senderVars
  <2>2. mailbox[r] # << >> => Flying(mailbox[r][1], r)'
    <3>1. PICK meta : meta = mailbox[r][1]
      OBVIOUS
    <3>2. mailbox[r] # << >> => Flying(meta, r)
      BY <1>2, <3>1 DEF WireInv
    <3>3. mailbox[r] # << >> => Flying(meta, r)'
      BY <1>1, <1>8, <3>2, FlyingKept
    <3> QED
      BY <1>1, <3>1, <3>3
  <2> QED
    BY <1>1, <1>2, <1>6, <1>8, <2>1, <2>2 DEF WireInv
<1>12. send_pc # "idle"
  BY IdleStops DEF SyncStep
<1> QED
  BY <1>1, <1>4, <1>5, <1>10, <1>11, <1>12, OneReceiverStep

\* the one message in the mailbox is that of the broadcast under way
LEMMA ReadMetadataStep ==
  ASSUME SyncInv, NEW r \in Receivers, ReadMetadata(r)
  PROVE  SyncInv'
<1>1. /\ recv_op[r] # NoOp /\ recv_op[r].meta = NoMeta /\ mailbox[r] # << >>
      /\ recv_op' = [recv_op EXCEPT ![r].meta = Head(mailbox[r])]
      /\ mailbox' = [mailbox EXCEPT ![r] = Tail(@)]
      /\ UNCHANGED << senderVars, recv_pc, recv_buf, metadata, yielded, send_op, recv_bytes, sent_version >>
  BY DEF ReadMetadata, MetadataHere, senderVars, receiverVars
<1>2. ReceiverTypes /\ ReceiverInv(r) /\ WireInv(r) /\ recv_op[r] \in RecvOps
      /\ mailbox[r] \in Seq(Metas)
  BY <1>1 DEF SyncInv, ReceiverTypes
<1>3. PICK meta \in Metas : meta = Head(mailbox[r]) /\ meta = mailbox[r][1]
  BY <1>1, <1>2
<1>4. Flying(meta, r) /\ mailbox'[r] = << >> /\ InFlight
  <2>1. Len(mailbox[r]) = 1
    BY <1>1, <1>2 DEF WireInv
  <2>2. Tail(mailbox[r]) = << >>
    <3>1. Len(Tail(mailbox[r])) = 0 /\ Tail(mailbox[r]) \in Seq(Metas)
      BY <1>1, <1>2, <2>1
    <3>2. \A messages \in Seq(Metas) : Len(messages) = 0 => messages = << >>
      OBVIOUS
    <3> QED
      BY <3>1, <3>2
  <2> QED
    BY <1>1, <1>2, <1>3, <2>2 DEF WireInv, ReceiverTypes
<1>5. recv_op'[r] = [buffer |-> recv_op[r].buffer, meta |-> meta]
  BY <1>1, <1>2, <1>3 DEF ReceiverTypes, RecvOps
<1>6. recv_op'[r] \in RecvOps /\ recv_op'[r] # NoOp /\ recv_op'[r].buffer = recv_op[r].buffer
      /\ recv_op'[r].meta = meta
  <2>1. recv_op[r].buffer \in {0} \cup Buffers
    BY <1>2 DEF RecvOps
  <2>2. [buffer |-> recv_op[r].buffer, meta |-> meta] # NoOp
    BY OpsDiffer
  <2> QED
    BY <1>5, <2>1, <2>2 DEF RecvOps
<1>7. ~OpCompleted(r)
  <2>1. OpCompleted(r) => recv_op[r].meta # NoMeta
    BY <1>2 DEF ReceiverInv
  <2> QED
    BY <1>1, <2>1
<1>8. ~OpCompleted(r)' /\ Waiting(r) /\ Waiting(r)'
  BY <1>1, <1>6, <1>7 DEF OpCompleted, Waiting
<1>9. Held(r)' = Held(r) /\ Got(r)' = Got(r)
  BY <1>1, <1>7, <1>8 DEF Held, Got
<1>10. ReceiverTypes'
  <2>1. recv_op' \in [Receivers -> {NoOp} \cup RecvOps]
    BY <1>1, <1>2, <1>6 DEF ReceiverTypes
  <2>2. mailbox' \in [Receivers -> Seq(Metas)]
    BY <1>1, <1>2, <1>4 DEF ReceiverTypes
  <2> QED
    BY <1>1, <1>2, <2>1, <2>2, TypesKept DEF ReceiverTypes
<1>11. \A s \in Receivers : s # r => Unmoved(s) /\ mailbox'[s] = mailbox[s]
  BY <1>1, <1>2 DEF Unmoved, ReceiverTypes
<1>12. ReceiverInv(r)'
  <2>1. Holds(metadata[r].bucket_meta, recv_bytes[r][Other(recv_buf[r])], Len(yielded[r]))'
    BY <1>1, <1>2 DEF ReceiverInv, Holds
  <2> QED
    BY <1>1, <1>2, <1>6, <1>8, <2>1 DEF ReceiverInv
<1>13. WireInv(r)'
  <2>1. InFlight'
    BY <1>1, <1>4 DEF InFlight
  <2>2. Flying(meta, r)'
    BY <1>1, <1>4, <1>9, FlyingKept
  <2> QED
    BY <1>4, <1>6, <2>1, <2>2 DEF WireInv
<1>14. send_pc # "idle"
  BY IdleStops DEF SyncStep
<1> QED
  BY <1>1, <1>10, <1>11, <1>12, <1>13, <1>14, OneReceiverStep

\* what was received becomes what is handed on, and the buffers change places
LEMMA BucketReceivedStep ==
  ASSUME SyncInv, NEW r \in Receivers, BucketReceived(r)
  PROVE  SyncInv'
<1>1. /\ recv_pc[r] = "wait" /\ OpCompleted(r)
      /\ metadata' = [metadata EXCEPT ![r] = recv_op[r].meta]
      /\ recv_buf' = [recv_buf EXCEPT ![r] = Other(@)]
      /\ recv_op' = [recv_op EXCEPT ![r] =
           IF recv_op[r].meta.is_last THEN NoOp
           ELSE [buffer |-> Other(recv_buf[r]), meta |-> NoMeta]]
      /\ recv_pc' = [recv_pc EXCEPT ![r] = "yield"]
      /\ UNCHANGED << senderVars, yielded, send_op, recv_bytes, mailbox, sent_version >>
  BY DEF BucketReceived, senderVars
<1>2. ReceiverTypes /\ ReceiverInv(r) /\ WireInv(r) /\ recv_op[r] \in RecvOps
      /\ recv_op[r] # NoOp /\ recv_buf[r] \in Buffers /\ SenderTypes
  BY <1>1 DEF SyncInv, ReceiverTypes, OpCompleted
<1>3. PICK meta \in Metas : meta = recv_op[r].meta
  BY <1>2 DEF RecvOps
<1>4. /\ metadata'[r] = meta /\ recv_buf'[r] = Other(recv_buf[r]) /\ recv_pc'[r] = "yield"
      /\ recv_op'[r] = IF meta.is_last THEN NoOp
                       ELSE [buffer |-> Other(recv_buf[r]), meta |-> NoMeta]
  BY <1>1, <1>2, <1>3 DEF ReceiverTypes
<1>5. /\ recv_buf'[r] \in Buffers /\ recv_buf'[r] # 0 /\ Other(recv_buf'[r]) = recv_buf[r]
  BY <1>2, <1>4, BuffersDiffer
<1>6. /\ ~meta.is_last => /\ recv_op'[r] # NoOp /\ recv_op'[r].buffer = recv_buf'[r]
                          /\ recv_op'[r].meta = NoMeta
      /\ recv_op'[r] \in {NoOp} \cup RecvOps
  <2>1. [buffer |-> Other(recv_buf[r]), meta |-> NoMeta] # NoOp
    BY OpsDiffer
  <2>2. [buffer |-> Other(recv_buf[r]), meta |-> NoMeta] \in RecvOps
    BY <1>4, <1>5, MetaTypes DEF RecvOps
  <2> QED
    BY <1>4, <2>1, <2>2
<1>7. ~OpCompleted(r)' /\ (Waiting(r)' => ~meta.is_last)
  BY <1>4, <1>5, <1>6 DEF OpCompleted, Waiting
<1>8. /\ Held(r)' = Got(r) /\ Got(r)' = Got(r) /\ Held(r) = Len(yielded[r])
      /\ Len(yielded[r]) \in Nat
  <2>1. /\ Len(metadata[r].bucket_meta) = 0 /\ Len(yielded[r]) \in Nat
        /\ Len(recv_op[r].meta.bucket_meta) \in Nat
    BY <1>1, <1>2, CountTypes DEF ReceiverInv
  <2>2. Held(r) = Len(yielded[r]) + 0 /\ Got(r) = Held(r) + Len(recv_op[r].meta.bucket_meta)
    BY <1>1, <2>1 DEF Held, Got
  <2>3. Held(r)' = Len(yielded[r]) + Len(recv_op[r].meta.bucket_meta) /\ Got(r)' = Held(r)' + 0
    BY <1>1, <1>3, <1>4, <1>7 DEF Held, Got
  <2> QED
    BY <2>1, <2>2, <2>3
<1>9. ReceiverTypes'
  <2>1. /\ recv_op' \in [Receivers -> {NoOp} \cup RecvOps]
        /\ recv_buf' \in [Receivers -> Buffers]
        /\ metadata' \in [Receivers -> Metas]
        /\ recv_pc' \in [Receivers -> {"idle", "start", "wait", "yield", "done"}]
    <3>1. recv_op' \in [Receivers -> {NoOp} \cup RecvOps]
      BY <1>1, <1>2, <1>3, <1>4, <1>6 DEF ReceiverTypes
    <3>2. recv_buf' \in [Receivers -> Buffers]
      BY <1>1, <1>2, <1>4, <1>5 DEF ReceiverTypes
    <3>3. metadata' \in [Receivers -> Metas]
      BY <1>1, <1>2, <1>3 DEF ReceiverTypes
    <3>4. recv_pc' \in [Receivers -> {"idle", "start", "wait", "yield", "done"}]
      BY <1>1, <1>2 DEF ReceiverTypes
    <3> QED
      BY <3>1, <3>2, <3>3, <3>4
  <2> QED
    BY <1>1, <1>2, <2>1, TypesKept DEF ReceiverTypes
<1>10. \A s \in Receivers : s # r => Unmoved(s) /\ mailbox'[s] = mailbox[s]
  BY <1>1, <1>2 DEF Unmoved, ReceiverTypes
<1>11. ReceiverInv(r)'
  <2>1. Holds(meta.bucket_meta, recv_bytes[r][recv_buf[r]], Len(yielded[r]))
    BY <1>1, <1>2, <1>3, <1>8 DEF ReceiverInv
  <2>2. Holds(metadata[r].bucket_meta, recv_bytes[r][Other(recv_buf[r])], Len(yielded[r]))'
    BY <1>1, <1>4, <1>5, <2>1 DEF Holds
  <2>3. meta.is_last => Held(r)' = Len(Sizes) /\ recv_op'[r] = NoOp
    BY <1>1, <1>2, <1>3, <1>4, <1>8 DEF ReceiverInv
  <2>4. Waiting(r)' => recv_op'[r].buffer = recv_buf'[r]
    BY <1>6, <1>7
  <2>5. yielded'[r] = [i \in 1..Len(yielded'[r]) |-> {<< i, sent_version' >>}]
    BY <1>1, <1>2 DEF ReceiverInv
  <2> QED
    BY <1>4, <1>7, <2>2, <2>3, <2>4, <2>5 DEF ReceiverInv
<1>12. WireInv(r)'
  <2>1. Begun' = Begun /\ (InFlight' <=> InFlight)
    BY <1>1 DEF Begun, LastBegun, InFlight, senderVars
  <2>2. mailbox[r] # << >> => Flying(mailbox[r][1], r)'
    <3>1. PICK first : first = mailbox[r][1]
      OBVIOUS
    <3>2. mailbox[r] # << >> => Flying(first, r)'
      BY <1>1, <1>2, <1>8, <3>1, FlyingKept DEF WireInv
    <3> QED
      BY <1>1, <3>1, <3>2
  <2>3. Waiting(r)' => recv_op'[r].meta = NoMeta
    BY <1>6, <1>7
  <2> QED
    BY <1>1, <1>2, <1>8, <2>1, <2>2, <2>3 DEF WireInv
<1>13. send_pc # "idle"
  BY IdleStops DEF SyncStep
<1> QED
  BY <1>1, <1>9, <1>10, <1>11, <1>12, <1>13, OneReceiverStep

\* the bytes are read from the buffer no broadcast fills
LEMMA YieldWeightStep ==
  ASSUME SyncInv, NEW r \in Receivers, YieldWeight(r)
  PROVE  SyncInv'
<1> DEFINE bytes == recv_bytes[r][Other(recv_buf[r])]
           before == Len(yielded[r])
<1>1. /\ recv_pc[r] = "yield" /\ metadata[r].bucket_meta # << >>
      /\ UNCHANGED << senderVars, recv_pc, recv_buf, recv_bytes, recv_op, mailbox, send_op, sent_version >>
  BY DEF YieldWeight, senderVars, wireVars
<1>2. ReceiverTypes /\ ReceiverInv(r) /\ WireInv(r) /\ metadata[r] \in Metas
      /\ yielded[r] \in Seq(SUBSET Bytes) /\ SenderTypes
  BY DEF SyncInv, ReceiverTypes
<1>3. PICK bucket \in Seq(Entries) : bucket = metadata[r].bucket_meta
  BY <1>2 DEF Metas
<1>4. bucket # << >> /\ Holds(bucket, bytes, before) /\ before \in Nat
  BY <1>1, <1>2, <1>3 DEF ReceiverInv
<1>5. /\ yielded' = [yielded EXCEPT ![r] = Append(@, { bytes[position] : position \in
                        Extent(Head(bucket).name, Head(bucket).offset) })]
      /\ metadata' = [metadata EXCEPT ![r].bucket_meta = Tail(@)]
  BY <1>3 DEF YieldWeight
<1>6. Head(bucket) = bucket[1] /\ 1 \in 1..Len(bucket) /\ bucket[1] \in Entries
      /\ Tail(bucket) \in Seq(Entries) /\ Len(Tail(bucket)) = Len(bucket) - 1 /\ Len(bucket) \in Nat
  BY <1>4
<1>7. { bytes[position] : position \in Extent(Head(bucket).name, Head(bucket).offset) }
        = {<< before + 1, sent_version >>}
  <2> DEFINE name == bucket[1].name
             from == bucket[1].offset
  <2>1. /\ name = before + 1 /\ name \in DOMAIN Sizes /\ from \in Nat
        /\ \A position \in Extent(name, from) : bytes[position] = << name, sent_version >>
    BY <1>4, <1>6 DEF Holds, Entries
  <2>2. from \in Extent(name, from)
    <3>1. Sizes[name] \in Nat /\ Sizes[name] > 0
      BY <2>1, SizesTypes
    <3> HIDE DEF name, from
    <3> QED
      BY <2>1, <3>1 DEF Extent
  <2> QED
    BY <1>6, <2>1, <2>2
<1>8. << before + 1, sent_version >> \in Bytes
  BY <1>4 DEF Bytes
<1>9. PICK whole \in SUBSET Bytes : whole = {<< before + 1, sent_version >>}
  BY <1>8
<1>10. /\ yielded'[r] = Append(yielded[r], whole)
       /\ metadata'[r] = [bucket_meta |-> Tail(bucket), is_last |-> metadata[r].is_last]
  <2>1. metadata'[r] = [metadata[r] EXCEPT !.bucket_meta = Tail(bucket)]
    BY <1>2, <1>3, <1>5 DEF ReceiverTypes
  <2>2. metadata'[r] = [bucket_meta |-> Tail(bucket), is_last |-> metadata[r].is_last]
    BY <1>2, <2>1 DEF Metas
  <2>3. yielded'[r] = Append(yielded[r], whole)
    BY <1>2, <1>5, <1>7, <1>9 DEF ReceiverTypes
  <2> QED
    BY <2>2, <2>3
<1>11. /\ yielded'[r] \in Seq(SUBSET Bytes) /\ Len(yielded'[r]) = before + 1
       /\ metadata'[r] \in Metas /\ metadata'[r].bucket_meta = Tail(bucket)
       /\ metadata'[r].is_last = metadata[r].is_last
  <2>1. metadata[r].is_last \in BOOLEAN
    BY <1>2 DEF Metas
  <2> QED
    BY <1>2, <1>6, <1>9, <1>10, <2>1 DEF Metas
<1>12. /\ Held(r)' = Held(r) /\ Got(r)' = Got(r)
       /\ (OpCompleted(r)' <=> OpCompleted(r)) /\ (Waiting(r)' <=> Waiting(r))
  <2>1. (OpCompleted(r)' <=> OpCompleted(r)) /\ (Waiting(r)' <=> Waiting(r))
    BY <1>1 DEF OpCompleted, Waiting
  <2>2. Held(r)' = Held(r)
    <3>1. Held(r) = before + Len(bucket) /\ Held(r)' = (before + 1) + (Len(bucket) - 1)
      BY <1>3, <1>6, <1>11 DEF Held
    <3> HIDE DEF before
    <3> QED
      BY <1>4, <1>6, <3>1
  <2> QED
    BY <1>1, <2>1, <2>2 DEF Got
<1>13. ReceiverTypes'
  <2>1. yielded' \in [Receivers -> Seq(SUBSET Bytes)] /\ metadata' \in [Receivers -> Metas]
    <3>1. yielded' = [yielded EXCEPT ![r] = yielded'[r]] /\ metadata' = [metadata EXCEPT ![r] = metadata'[r]]
      BY <1>2, <1>5 DEF ReceiverTypes
    <3> QED
      BY <1>2, <1>11, <3>1 DEF ReceiverTypes
  <2> QED
    BY <1>1, <1>2, <2>1, TypesKept DEF ReceiverTypes
<1>14. \A s \in Receivers : s # r => Unmoved(s) /\ mailbox'[s] = mailbox[s]
  BY <1>1, <1>2, <1>5 DEF Unmoved, ReceiverTypes
<1>15. ReceiverInv(r)'
  <2>1. yielded'[r] = [i \in 1..(before + 1) |-> {<< i, sent_version >>}]
    <3>1. yielded[r] = [i \in 1..before |-> {<< i, sent_version >>}]
      BY <1>2 DEF ReceiverInv
    <3> DEFINE longer == [i \in 1..(before + 1) |-> {<< i, sent_version >>}]
    <3>2. PICK got \in Seq(SUBSET Bytes) : got = yielded'[r] /\ Len(got) = before + 1
      BY <1>11
    <3>3. ASSUME NEW i \in 1..(before + 1)
          PROVE  yielded'[r][i] = longer[i]
      <4>1. CASE i = before + 1
        BY <1>2, <1>9, <1>10, <4>1
      <4>2. CASE i # before + 1
        <5>1. i \in 1..before
          BY <1>4, <4>2
        <5>2. yielded'[r][i] = yielded[r][i]
          BY <1>2, <1>10, <5>1
        <5> QED
          BY <3>1, <5>1, <5>2
      <4> QED
        BY <4>1, <4>2
    <3>4. yielded'[r] = [i \in 1..(before + 1) |-> yielded'[r][i]]
      <4>1. got = [i \in 1..Len(got) |-> got[i]]
        OBVIOUS
      <4> QED
        BY <3>2, <4>1
    <3> QED
      BY <3>3, <3>4
  <2>2. Holds(Tail(bucket), bytes, before + 1)
    BY <1>4, HoldsTail
  <2>3. Holds(metadata[r].bucket_meta, recv_bytes[r][Other(recv_buf[r])], Len(yielded[r]))'
    BY <1>1, <1>11, <2>2 DEF Holds
  <2>4. OpCompleted(r) =>
          /\ recv_op[r].meta # NoMeta
          /\ Holds(recv_op[r].meta.bucket_meta, recv_bytes[r][recv_buf[r]], Held(r))'
    BY <1>1, <1>2, <1>12 DEF ReceiverInv, Holds
  <2>5. metadata'[r].is_last => Held(r)' = Len(Sizes) /\ recv_op'[r] = NoOp
    BY <1>1, <1>2, <1>11, <1>12 DEF ReceiverInv
  <2> QED
    BY <1>1, <1>2, <1>11, <1>12, <2>1, <2>3, <2>4, <2>5 DEF ReceiverInv
<1>16. WireInv(r)'
  <2>1. Begun' = Begun /\ (InFlight' <=> InFlight) /\ (LastBegun => LastBegun') /\ send_bytes' = send_bytes
    BY <1>1 DEF Begun, LastBegun, InFlight, senderVars
  <2>2. InFlight \/ (mailbox[r] = << >> /\ (Waiting(r) => recv_op[r].meta = NoMeta))
    BY <1>2 DEF WireInv
  <2>3. mailbox'[r] = mailbox[r] /\ recv_op'[r] = recv_op[r]
    BY <1>1
  <2> QED
    BY <1>1, <1>2, <1>12, <2>1, <2>2, <2>3, WireFrame
<1>17. send_pc # "idle"
  BY IdleStops DEF SyncStep
<1> QED
  BY <1>1, <1>13, <1>14, <1>15, <1>16, <1>17, OneReceiverStep

LEMMA BucketYieldedStep ==
  ASSUME SyncInv, NEW r \in Receivers, BucketYielded(r)
  PROVE  SyncInv'
<1>1. /\ recv_pc[r] = "yield" /\ metadata[r].bucket_meta = << >>
      /\ recv_pc' = [recv_pc EXCEPT ![r] = IF metadata[r].is_last THEN "done" ELSE "wait"]
      /\ UNCHANGED << senderVars, recv_buf, metadata, yielded, recv_bytes, recv_op, mailbox, send_op,
                      sent_version >>
  BY DEF BucketYielded, senderVars, wireVars
<1>2. ReceiverTypes /\ ReceiverInv(r) /\ WireInv(r)
  BY DEF SyncInv
<1>3. recv_pc'[r] = IF metadata[r].is_last THEN "done" ELSE "wait"
  BY <1>1, <1>2 DEF ReceiverTypes
<1>4. ReceiverTypes'
  BY <1>1, <1>2, TypesKept DEF ReceiverTypes
<1>5. \A s \in Receivers : s # r => Unmoved(s) /\ mailbox'[s] = mailbox[s]
  BY <1>1, <1>2 DEF Unmoved, ReceiverTypes
<1>6. /\ Held(r)' = Held(r) /\ Got(r)' = Got(r)
      /\ (OpCompleted(r)' <=> OpCompleted(r)) /\ (Waiting(r)' <=> Waiting(r))
  <2>1. (OpCompleted(r)' <=> OpCompleted(r)) /\ (Waiting(r)' <=> Waiting(r))
    BY <1>1 DEF OpCompleted, Waiting
  <2> QED
    BY <1>1, <2>1 DEF Held, Got
<1>7. ReceiverInv(r)'
  <2>1. Holds(metadata[r].bucket_meta, recv_bytes[r][Other(recv_buf[r])], Len(yielded[r]))'
    BY <1>1, <1>2 DEF ReceiverInv, Holds
  <2>2. OpCompleted(r) =>
          /\ recv_op[r].meta # NoMeta
          /\ Holds(recv_op[r].meta.bucket_meta, recv_bytes[r][recv_buf[r]], Held(r))'
    BY <1>1, <1>2, <1>6 DEF ReceiverInv, Holds
  <2> QED
    BY <1>1, <1>2, <1>3, <1>6, <2>1, <2>2 DEF ReceiverInv
<1>8. WireInv(r)'
  <2>1. Begun' = Begun /\ (LastBegun => LastBegun') /\ send_bytes' = send_bytes
    BY <1>1 DEF Begun, LastBegun, senderVars
  <2>2. InFlight \/ (mailbox[r] = << >> /\ (Waiting(r) => recv_op[r].meta = NoMeta))
    BY <1>2 DEF WireInv
  <2>3. mailbox'[r] = mailbox[r] /\ recv_op'[r] = recv_op[r]
    BY <1>1
  <2> QED
    BY <1>1, <1>2, <1>6, <2>1, <2>2, <2>3, WireFrame
<1>9. send_pc # "idle"
  BY IdleStops DEF SyncStep
<1> QED
  BY <1>1, <1>4, <1>5, <1>7, <1>8, <1>9, OneReceiverStep

-----------------------------------------------------------------------------
(* The transfer as a whole.                                                *)

\* nothing is under way before the first update and after finalize
LEMMA IdleSyncInv ==
  /\ SyncIdle => SyncInv
  /\ finalize => SyncInv' /\ SyncIdle'
<1>1. SyncIdle => SyncInv
  <2> SUFFICES ASSUME SyncIdle PROVE SyncInv
    OBVIOUS
  <2>1. /\ Zeros \in BufferPairs /\ NoMeta \in Metas /\ NoMeta.bucket_meta = << >>
        /\ ~NoMeta.is_last /\ << >> \in Seq(Entries) /\ << >> \in Seq(Metas)
        /\ << >> \in Seq(SUBSET Bytes) /\ 1 \in Buffers /\ 2 \in Buffers
        /\ 1 \in 1..(Len(Sizes) + 1)
    BY MetaTypes, SizesTypes DEF Zeros, BufferPairs, Bytes, Buffers
  <2>2. SenderTypes /\ ReceiverTypes
    BY <2>1 DEF SyncIdle, SenderTypes, ReceiverTypes
  <2>3. ~InFlight /\ Begun = 0 /\ FillInv
    <3>1. send_op = NoOp /\ send_pc = "idle" /\ next_weight = 1 /\ Len(bucket_meta) = 0
      BY DEF SyncIdle
    <3>2. ~LastBegun /\ ~InFlight
      BY <3>1 DEF LastBegun, InFlight
    <3> QED
      BY <3>1, <3>2 DEF Begun, FillInv
  <2>4. ASSUME NEW r \in Receivers
        PROVE  ReceiverInv(r) /\ WireInv(r)
    <3>1. /\ recv_op[r] = NoOp /\ metadata[r] = NoMeta /\ yielded[r] = << >> /\ mailbox[r] = << >>
          /\ recv_pc[r] = "idle"
      BY DEF SyncIdle
    <3>2. ~OpCompleted(r) /\ ~Waiting(r) /\ Got(r) = 0
      BY <2>1, <3>1 DEF OpCompleted, Waiting, Got, Held
    <3>3. Len(yielded[r]) = 0 /\ 1..0 = {} /\ Len(metadata[r].bucket_meta) = 0
      BY <2>1, <3>1
    <3>4. yielded[r] = [i \in 1..Len(yielded[r]) |-> {<< i, sent_version >>}]
      BY <3>1, <3>3
    <3> QED
      BY <2>1, <2>3, <3>1, <3>2, <3>3, <3>4 DEF ReceiverInv, WireInv, Holds
  <2> QED
    BY <2>2, <2>3, <2>4 DEF SyncInv
<1>2. finalize => SyncIdle'
  BY DEF finalize, SyncIdle
<1> QED
  BY <1>1, <1>2, PTL

LEMMA StartSyncInv ==
  ASSUME SyncInv, NEW version, StartSync(version)
  PROVE  SyncInv' /\ sent_version' = version
<1>1. /\ send_pc' = "fill" /\ sent_version' = version
      /\ recv_pc' = [r \in Receivers |-> "start"]
      /\ UNCHANGED << next_weight, bucket_meta, offset, send_buf, send_bytes, send_op,
                      recv_buf, recv_bytes, recv_op, metadata, yielded, mailbox >>
      /\ SyncIdle
  BY DEF StartSync, SyncInv
<1>2. /\ next_weight' = 1 /\ bucket_meta' = << >> /\ offset' = 0 /\ send_buf' = 1
      /\ send_bytes' = Zeros /\ send_op' = NoOp
      /\ \A r \in Receivers :
           /\ recv_op'[r] = NoOp /\ metadata'[r] = NoMeta /\ yielded'[r] = << >>
           /\ mailbox'[r] = << >> /\ recv_pc'[r] = "start"
  BY <1>1 DEF SyncIdle
<1>3. /\ NoMeta \in Metas /\ NoMeta.bucket_meta = << >> /\ ~NoMeta.is_last
      /\ << >> \in Seq(Entries) /\ << >> \in Seq(Metas)
      /\ 1 \in Buffers /\ 2 \in Buffers /\ 1 \in 1..(Len(Sizes) + 1)
  BY MetaTypes, SizesTypes DEF Buffers
<1>4. Zeros \in BufferPairs' /\ << >> \in Seq(SUBSET Bytes')
  BY <1>3 DEF Zeros, BufferPairs, Bytes
<1>5. SenderTypes'
  BY <1>1, <1>2, <1>3, <1>4 DEF SenderTypes
<1>6. ReceiverTypes'
  BY <1>1, <1>3, <1>4 DEF ReceiverTypes, SyncIdle
<1>7. ~LastBegun' /\ ~InFlight' /\ Begun' = 0
  <2>1. ~LastBegun' /\ ~InFlight'
    BY <1>1, <1>2 DEF LastBegun, InFlight
  <2>2. Len(bucket_meta') = 0
    BY <1>2
  <2>3. Begun' = next_weight' - 1 - Len(bucket_meta')
    BY <2>1 DEF Begun
  <2> QED
    BY <1>2, <2>1, <2>2, <2>3
<1>8. FillInv'
  <2>1. 1..Len(bucket_meta') = {}
    BY <1>2
  <2> QED
    BY <1>2, <1>7, <2>1 DEF FillInv, Holds
<1>9. ASSUME NEW r \in Receivers
      PROVE  ReceiverInv(r)' /\ WireInv(r)'
  <2>1. Len(yielded'[r]) = 0 /\ 1..0 = {} /\ Len(metadata'[r].bucket_meta) = 0
    BY <1>2, <1>3
  <2>2. ~OpCompleted(r)' /\ ~Waiting(r)'
    BY <1>2 DEF OpCompleted, Waiting
  <2>3. Got(r)' = 0
    BY <2>1, <2>2 DEF Got, Held
  <2>4. yielded'[r] = [i \in 1..Len(yielded'[r]) |-> {<< i, sent_version' >>}]
    BY <1>2, <2>1
  <2>5. 1..Len(metadata'[r].bucket_meta) = {} /\ metadata'[r].bucket_meta = << >>
    BY <1>2, <1>3, <2>1
  <2> QED
    BY <1>2, <1>3, <1>7, <2>2, <2>3, <2>4, <2>5 DEF ReceiverInv, WireInv, Holds
<1> QED
  BY <1>1, <1>5, <1>6, <1>8, <1>9 DEF SyncInv

\* an idle transfer stays so, and the invariant holds, while nobody touches it
LEMMA SyncFrame == UNCHANGED syncVars => (SyncIdle' <=> SyncIdle) /\ (SyncInv => SyncInv')
<1> SUFFICES ASSUME UNCHANGED syncVars
             PROVE  (SyncIdle' <=> SyncIdle) /\ (SyncInv => SyncInv')
  OBVIOUS
<1>1. UNCHANGED << send_pc, next_weight, bucket_meta, offset, send_buf, send_bytes, sent_version,
                   recv_pc, recv_buf, metadata, yielded, send_op, recv_op, recv_bytes, mailbox,
                   subscribed, dropped >>
  BY DEF syncVars, senderVars, receiverVars, wireVars
<1>2. SyncIdle' <=> SyncIdle
  BY <1>1 DEF SyncIdle
<1>3. (SenderTypes => SenderTypes') /\ (ReceiverTypes => ReceiverTypes')
  BY <1>1 DEF SenderTypes, ReceiverTypes, BufferPairs, Bytes
<1>4. /\ InFlight' = InFlight /\ Begun' = Begun /\ LastBegun' = LastBegun
      /\ \A r \in Receivers : /\ Got(r)' = Got(r) /\ Held(r)' = Held(r)
                              /\ Waiting(r)' = Waiting(r) /\ OpCompleted(r)' = OpCompleted(r)
  BY <1>1 DEF InFlight, Begun, LastBegun, Got, Held, Waiting, OpCompleted
<1>5. FillInv => FillInv'
  BY <1>1, <1>4 DEF FillInv, Holds
<1>6. ASSUME NEW r \in Receivers
      PROVE  (ReceiverInv(r) => ReceiverInv(r)') /\ (WireInv(r) => WireInv(r)')
  BY <1>1, <1>4 DEF ReceiverInv, WireInv, Holds, Flying
<1> QED
  BY <1>1, <1>2, <1>3, <1>5, <1>6 DEF SyncInv

LEMMA SyncStepInv ==
  ASSUME SyncInv, SyncStep
  PROVE  SyncInv' /\ UNCHANGED sent_version
<1>1. SyncInv'
  BY FillBucketStep, FlushBucketStep, LastBucketStep, SenderDoneStep, BroadcastStep, SubscribeStep,
     ReceiveFirstStep, ReadMetadataStep, BucketReceivedStep, YieldWeightStep, BucketYieldedStep
  DEF SyncStep
<1>2. UNCHANGED sent_version
  BY DEF SyncStep, FillBucket, FlushBucket, LastBucket, SenderDone, Broadcast, Subscribe,
         ReceiveFirst, ReadMetadata, BucketReceived, YieldWeight, BucketYielded, senderVars
<1> QED
  BY <1>1, <1>2

\* what the invariant says of the weights a receiver has handed on
LEMMA SyncInvDelivers ==
  ASSUME SyncInv, NEW r \in Receivers
  PROVE  /\ Delivered(r, Len(yielded[r]))
         /\ recv_pc[r] = "done" => Len(yielded[r]) = Len(Sizes)
<1>1. ReceiverInv(r) /\ Len(yielded[r]) \in Nat
  BY DEF SyncInv, ReceiverTypes
<1>2. ASSUME recv_pc[r] = "done"
      PROVE  Len(yielded[r]) = Len(Sizes)
  <2>1. Held(r) = Len(Sizes) /\ metadata[r].bucket_meta = << >>
    BY <1>1, <1>2 DEF ReceiverInv
  <2>2. Held(r) = Len(yielded[r]) + 0
    BY <2>1 DEF Held
  <2> QED
    BY <1>1, <2>1, <2>2
<1> QED
  BY <1>1, <1>2 DEF ReceiverInv, Delivered

-----------------------------------------------------------------------------
(* The training loop.                                                      *)

Training == {"balance", "old_log_prob", "values", "adv", "update"}
BatchFields == {"id", "step", "order", "rows", "policies", "awake", "old_log_probs", "values",
                "advantages"}

\* a step trains on the batch it took from the dataloader
BatchInHand ==
  /\ pc \notin Training => batch = NoBatch
  /\ pc \in Training =>
       /\ batch = [field \in BatchFields |-> batch[field]]
       /\ batch.id = dataloader /\ batch.step = global_steps

-----------------------------------------------------------------------------
(* Trainer and replicas take turns.                                        *)

AllAwake == \A r \in Receivers : replicas[r].awake
NoneAwake == \A r \in Receivers : ~replicas[r].awake

ReplicasTyped ==
  replicas = [r \in Receivers |-> [awake |-> replicas[r].awake, policy |-> replicas[r].policy]]

\* only a step of the critic's warm-up leaves the replicas asleep
TurnsInv ==
  Naive =>
    /\ pc # "syncing"
    /\ pc \in {"load", "sync", "save", "saving"} \cup Training => NoneAwake
    /\ pc = "validate_first" => AllAwake
    /\ pc = "validate" /\ ~AllAwake => global_steps < config.critic_warmup
    /\ pc \in {"epoch", "next_batch"} /\ ~AllAwake => global_steps <= config.critic_warmup
    /\ pc \in Training /\ ~batch.awake => batch.step <= config.critic_warmup

-----------------------------------------------------------------------------
(* The step number, the dataloader, the weights and the checkpoints.       *)

BeforeBatch == {"epoch", "next_batch"}

StepsInLine ==
  /\ pc \in BeforeBatch => global_steps = dataloader + 1
  /\ pc \notin BeforeBatch \cup {"done", "failed"} => global_steps = dataloader
  /\ pc \in Training => dataloader > 0

\* the weights have made every update up to the batch before or in hand
TrainedThrough == IF pc \in Training THEN dataloader - 1 ELSE dataloader

WeightsInLine ==
  \A role \in Roles, r \in Ranks :
    Numbers(weights[role][r]) = Consecutive(FirstBatch(role), TrainedThrough)

DiskInLine ==
  \A n \in Steps :
    /\ IsWritten(data[n]) => data[n].content = n
    /\ \A role \in Roles, r \in Ranks : IsWritten(shards[n][role][r]) =>
         Numbers(shards[n][role][r].content) = Consecutive(FirstBatch(role), n)

OrderInv == StepsInLine /\ WeightsInLine /\ DiskInLine

-----------------------------------------------------------------------------
(* The transfer of the weights and the policy the replicas have.           *)

TransferInv == SyncInv /\ (pc # "syncing" => SyncIdle)

PolicyInv ==
  /\ pc = "syncing" => sent_version = weights["actor"]
  /\ pc \in {"validate_first", "validate"} \cup BeforeBatch \cup Training =>
       \A r \in Receivers : replicas[r].policy = weights["actor"]
  /\ pc \in Training => batch.policies = {weights["actor"]}

-----------------------------------------------------------------------------
(* The steps between taking a batch and updating the models.               *)

InStep ==
  _balance_batch \/ (\E w \in Workers : WorkerComputes(w)) \/ CollectAnswers \/ compute_advantage

LEMMA InStepMoves ==
  ASSUME BatchInHand, InStep
  PROVE  /\ pc \in Training /\ pc' \in Training
         /\ UNCHANGED << checkpointVars, syncVars, global_steps, jobVars, replicas >>
         /\ batch' = [field \in BatchFields |-> batch'[field]]
         /\ UNCHANGED << batch.id, batch.step, batch.awake, batch.policies >>
<1> USE DEF Training, At, Goto
<1>1. CASE \E w \in Workers : WorkerComputes(w)
  <2>1. /\ pc \in {"old_log_prob", "values"} /\ UNCHANGED << pc, batch, global_steps >>
        /\ UNCHANGED << checkpointVars, syncVars, jobVars, replicas >>
    BY <1>1 DEF WorkerComputes, driverVars
  <2> QED
    BY <2>1 DEF BatchInHand
<1>2. CASE _balance_batch
  <2>1. PICK rows :
          /\ batch' = [batch EXCEPT !.order = "balanced", !.rows = rows]
          /\ pc = "balance" /\ pc' = "old_log_prob"
          /\ UNCHANGED << checkpointVars, syncVars, global_steps, jobVars, replicas >>
    BY <1>2 DEF _balance_batch
  <2>2. batch = [field \in BatchFields |-> batch[field]]
    BY <2>1 DEF BatchInHand
  <2> QED
    BY <2>1, <2>2 DEF BatchFields
<1>3. CASE CollectAnswers
  <2>1. PICK collected :
          /\ \/ pc = "old_log_prob" /\ batch' = [batch EXCEPT !.old_log_probs = collected]
                                    /\ pc' = "values"
             \/ pc = "values" /\ batch' = [batch EXCEPT !.values = collected] /\ pc' = "adv"
          /\ UNCHANGED << checkpointVars, syncVars, global_steps, jobVars, replicas >>
    BY <1>3 DEF CollectAnswers
  <2>2. batch = [field \in BatchFields |-> batch[field]]
    BY <2>1 DEF BatchInHand
  <2> QED
    BY <2>1, <2>2 DEF BatchFields
<1>4. CASE compute_advantage
  <2>1. PICK advantages :
          /\ batch' = [batch EXCEPT !.advantages = advantages]
          /\ pc = "adv" /\ pc' = "update"
          /\ UNCHANGED << checkpointVars, syncVars, global_steps, jobVars, replicas >>
    BY <1>4 DEF compute_advantage
  <2>2. batch = [field \in BatchFields |-> batch[field]]
    BY <2>1 DEF BatchInHand
  <2> QED
    BY <2>1, <2>2 DEF BatchFields
<1> QED
  BY <1>1, <1>2, <1>3, <1>4 DEF InStep

\* the driver's steps outside a batch
Between ==
  \/ StartFromScratch \/ ResumeFromCheckpoint \/ ResumeFails
  \/ UpdateWeightsInPlace \/ UpdateWeights \/ Transfer \/ FinishUpdateWeights
  \/ StartLoop \/ StartEpoch \/ EndEpoch \/ _save_checkpoint \/ Saving \/ EndStep \/ Restart

LEMMA NextCases == Next => InStep \/ Between \/ Generate \/ UpdateModels
  BY DEF Next, DriverStep, InStep, Between

LEMMA BetweenMoves ==
  ASSUME BatchInHand, Between
  PROVE  pc' \notin Training /\ batch' = NoBatch
<1> USE DEF Training, At, Goto, AfterSync, BatchInHand
<1>1. CASE Restart
  BY <1>1 DEF Restart
<1>2. CASE ~Restart
  <2>1. /\ pc \notin Training /\ pc' \notin Training /\ batch' = batch
    <3>1. CASE StartFromScratch \/ ResumeFromCheckpoint \/ ResumeFails
      BY <3>1 DEF StartFromScratch, ResumeFromCheckpoint, ResumeFails, batchVars
    <3>2. CASE UpdateWeightsInPlace \/ UpdateWeights \/ Transfer \/ FinishUpdateWeights
      BY <3>2 DEF UpdateWeightsInPlace, UpdateWeights, Transfer, FinishUpdateWeights, batchVars,
                  driverVars
    <3>3. CASE StartLoop \/ StartEpoch \/ EndEpoch \/ EndStep
      BY <3>3 DEF StartLoop, StartEpoch, EndEpoch, EndStep, batchVars
    <3>4. CASE _save_checkpoint \/ Saving
      BY <3>4 DEF _save_checkpoint, Saving, batchVars
    <3> QED
      BY <1>2, <3>1, <3>2, <3>3, <3>4 DEF Between
  <2> QED
    BY <2>1
<1> QED
  BY <1>1, <1>2

LEMMA GenerateMoves ==
  ASSUME Generate
  PROVE  /\ pc = "next_batch" /\ pc' = "balance"
         /\ dataloader' = dataloader + 1
         /\ batch' = [field \in BatchFields |-> batch'[field]]
         /\ batch'.id = dataloader' /\ batch'.step = global_steps
         /\ batch'.policies = { replicas[r].policy : r \in Receivers }
         /\ batch'.awake <=> AllAwake
         /\ replicas' = [r \in Receivers |-> Asleep(replicas[r])]
         /\ UNCHANGED << diskVars, weights, syncVars, global_steps, jobVars >>
<1>1. PICK rows :
        batch' = [id |-> dataloader', step |-> global_steps, order |-> "generated", rows |-> rows,
                  policies |-> { replicas[r].policy : r \in Receivers },
                  awake |-> \A r \in Receivers : replicas[r].awake,
                  old_log_probs |-> << >>, values |-> << >>, advantages |-> << >>]
  BY DEF Generate
<1> QED
  BY <1>1 DEF Generate, At, Goto, BatchFields, AllAwake

LEMMA BatchInHandStep ==
  ASSUME TypeInv, BatchInHand, [Next]_vars
  PROVE  BatchInHand'
<1>1. CASE InStep
  <2>1. UNCHANGED << dataloader, global_steps, batch.id, batch.step >> /\ pc \in Training
    BY <1>1, InStepMoves DEF checkpointVars, memoryVars
  <2> QED
    BY <1>1, <2>1, InStepMoves DEF BatchInHand
<1>2. CASE Between
  BY <1>2, BetweenMoves DEF BatchInHand
<1>3. CASE Generate
  BY <1>3, GenerateMoves DEF BatchInHand, Training
<1>4. CASE UpdateModels
  BY <1>4 DEF UpdateModels, BatchInHand, Training, Goto
<1>5. CASE UNCHANGED vars
  BY <1>5 DEF vars, checkpointVars, memoryVars, batchVars, driverVars, BatchInHand
<1> QED
  BY <1>1, <1>2, <1>3, <1>4, <1>5, NextCases

-----------------------------------------------------------------------------
(* Turns.                                                                  *)

LEMMA ReplicasTypedStep ==
  ASSUME BatchInHand, ReplicasTyped, [Next]_vars
  PROVE  ReplicasTyped'
<1>1. CASE UNCHANGED replicas
  BY <1>1 DEF ReplicasTyped
<1>2. CASE UpdateWeightsInPlace
  BY <1>2 DEF UpdateWeightsInPlace, ReplicasTyped
<1>3. CASE FinishUpdateWeights
  <2>1. replicas' = [r \in Receivers |-> [replicas[r] EXCEPT !.policy =
                       IF Delivered(r, Len(Sizes)) THEN sent_version ELSE replicas[r].policy]]
    BY <1>3 DEF FinishUpdateWeights
  <2> QED
    BY <2>1 DEF ReplicasTyped
<1>4. CASE Generate
  <2>1. replicas' = [r \in Receivers |-> Asleep(replicas[r])]
    BY <1>4, GenerateMoves
  <2>2. ASSUME NEW r \in Receivers
        PROVE  Asleep(replicas[r]) = [awake |-> Asleep(replicas[r]).awake,
                                      policy |-> Asleep(replicas[r]).policy]
    <3>1. PICK awake, policy : replicas[r] = [awake |-> awake, policy |-> policy]
      BY DEF ReplicasTyped
    <3> QED
      BY <3>1 DEF Asleep
  <2>3. \A r \in Receivers : replicas'[r] = [awake |-> replicas'[r].awake, policy |-> replicas'[r].policy]
    BY <2>1, <2>2
  <2> QED
    BY <2>1, <2>3 DEF ReplicasTyped
<1>5. CASE Restart
  BY <1>5 DEF Restart, FreshReplicas, ReplicasTyped
<1>6. ~UpdateWeightsInPlace /\ ~FinishUpdateWeights /\ ~Generate /\ ~Restart => UNCHANGED replicas
  <2>1. InStep => UNCHANGED replicas
    BY InStepMoves
  <2>2. Between /\ ~UpdateWeightsInPlace /\ ~FinishUpdateWeights /\ ~Restart => UNCHANGED replicas
    BY DEF Between, StartFromScratch, ResumeFromCheckpoint, ResumeFails, UpdateWeights, Transfer,
           StartLoop, StartEpoch, EndEpoch, _save_checkpoint, Saving, EndStep
  <2>3. UpdateModels => UNCHANGED replicas
    BY DEF UpdateModels
  <2>4. UNCHANGED vars => UNCHANGED replicas
    BY DEF vars
  <2> QED
    BY <2>1, <2>2, <2>3, <2>4, NextCases
<1> QED
  BY <1>1, <1>2, <1>3, <1>4, <1>5, <1>6

LEMMA ConfigFixed ==
  ASSUME TypeInv, [Next]_vars
  PROVE  UNCHANGED config
<1>1. Quiet => UNCHANGED config
  BY QuietFrame DEF jobVars
<1>2. Saving \/ ResumeFromCheckpoint \/ Generate \/ UpdateModels \/ _save_checkpoint
        \/ Restart \/ UNCHANGED vars => UNCHANGED config
  BY DEF Saving, ResumeFromCheckpoint, Generate, UpdateModels, _save_checkpoint, Restart, vars,
         jobVars
<1> QED
  BY <1>1, <1>2 DEF Next, DriverStep, Quiet

LEMMA AwakeFrame ==
  UNCHANGED replicas => (AllAwake' <=> AllAwake) /\ (NoneAwake' <=> NoneAwake)
  BY DEF AllAwake, NoneAwake

LEMMA TurnsStep ==
  ASSUME TypeInv, SavesThisStep, BatchInHand, ReplicasTyped, TurnsInv, [Next]_vars
  PROVE  TurnsInv'
<1> USE DEF Training, At, Goto
<1>1. UNCHANGED config /\ config.critic_warmup \in Int /\ global_steps \in Nat
  BY ConfigFixed, PPOTrainerAssumption DEF TypeInv
<1>2. SUFFICES ASSUME Naive
               PROVE  TurnsInv'
  BY <1>1 DEF TurnsInv, Naive
<1>3. Naive' = Naive
  BY <1>1 DEF Naive
<1>4. CASE InStep
  <2>1. /\ pc \in Training /\ pc' \in Training /\ UNCHANGED << replicas, batch.step, batch.awake >>
    BY <1>4, InStepMoves
  <2> QED
    BY <1>1, <1>2, <2>1, AwakeFrame DEF TurnsInv
<1>5. CASE Generate
  <2>1. /\ pc = "next_batch" /\ pc' = "balance"
        /\ (batch'.awake <=> AllAwake) /\ batch'.step = global_steps
        /\ replicas' = [r \in Receivers |-> Asleep(replicas[r])]
    BY <1>5, GenerateMoves
  <2>2. NoneAwake'
    <3>1. ASSUME NEW r \in Receivers
          PROVE  ~replicas'[r].awake
      <4>1. replicas'[r] = [replicas[r] EXCEPT !.awake = FALSE]
        BY <1>2, <2>1 DEF Asleep
      <4>2. replicas[r] = [awake |-> replicas[r].awake, policy |-> replicas[r].policy]
        BY DEF ReplicasTyped
      <4>3. replicas'[r].awake = FALSE
        BY <4>1, <4>2
      <4> QED
        BY <4>3
    <3> QED
      BY <3>1 DEF NoneAwake
  <2> QED
    BY <1>1, <1>2, <2>1, <2>2 DEF TurnsInv
<1>6. CASE UpdateModels
  <2>1. /\ pc = "update" /\ pc' = (IF WarmingUp THEN "validate" ELSE "save")
        /\ UNCHANGED << replicas, global_steps >>
    BY <1>6 DEF UpdateModels
  <2>2. NoneAwake
    BY <1>2, <2>1 DEF TurnsInv
  <2>3. WarmingUp => global_steps' < config'.critic_warmup
    BY <1>1, <2>1 DEF WarmingUp
  <2> QED
    BY <1>1, <2>1, <2>2, <2>3, AwakeFrame DEF TurnsInv
<1>7. CASE Restart
  BY <1>2, <1>3, <1>7 DEF Restart, FreshReplicas, NoneAwake, TurnsInv
<1>8. CASE UpdateWeightsInPlace
  <2>1. /\ AllAwake' /\ UNCHANGED << first_sync, global_steps >>
        /\ pc' \in {"validate_first", "validate"}
    BY <1>8 DEF UpdateWeightsInPlace, AfterSync, AllAwake
  <2> QED
    BY <2>1 DEF TurnsInv
<1>9. CASE StartFromScratch \/ ResumeFromCheckpoint \/ ResumeFails
  <2>1. pc = "load" /\ pc' \in {"sync", "failed"} /\ UNCHANGED replicas
    BY <1>9 DEF StartFromScratch, ResumeFromCheckpoint, ResumeFails
  <2> QED
    BY <1>2, <2>1, AwakeFrame DEF TurnsInv
<1>10. ~UpdateWeights /\ ~Transfer /\ ~FinishUpdateWeights
  BY <1>2 DEF TurnsInv, UpdateWeights, Transfer, FinishUpdateWeights
<1>11. CASE StartLoop
  <2>1. pc = "validate_first" /\ pc' = "epoch" /\ UNCHANGED replicas
    BY <1>11 DEF StartLoop
  <2> QED
    BY <1>2, <2>1, AwakeFrame DEF TurnsInv
<1>12. CASE StartEpoch \/ EndEpoch
  <2>1. /\ pc \in {"epoch", "next_batch"} /\ pc' \in {"epoch", "next_batch", "done"}
        /\ UNCHANGED << replicas, global_steps >>
    BY <1>12 DEF StartEpoch, EndEpoch
  <2> QED
    BY <1>1, <1>2, <2>1, AwakeFrame DEF TurnsInv
<1>13. CASE _save_checkpoint \/ Saving
  <2>1. /\ pc \in {"save", "saving"} /\ pc' \in {"saving", "sync"} /\ UNCHANGED replicas
    BY <1>13 DEF _save_checkpoint, Saving
  <2> QED
    BY <1>2, <2>1, AwakeFrame DEF TurnsInv
<1>14. CASE EndStep
  <2>1. /\ pc = "validate" /\ pc' \in {"done", "next_batch"} /\ UNCHANGED replicas
        /\ global_steps' = global_steps + 1
    BY <1>14 DEF EndStep
  <2>2. global_steps < config.critic_warmup => global_steps' <= config'.critic_warmup
    BY <1>1, <2>1
  <2> QED
    BY <1>2, <2>1, <2>2, AwakeFrame DEF TurnsInv
<1>15. CASE UNCHANGED vars
  <2>1. UNCHANGED << pc, replicas, global_steps, batch >>
    BY <1>15 DEF vars, driverVars, batchVars
  <2> QED
    BY <1>1, <1>2, <2>1, AwakeFrame DEF TurnsInv
<1> QED
  BY <1>4, <1>5, <1>6, <1>7, <1>8, <1>9, <1>10, <1>11, <1>12, <1>13, <1>14, <1>15, NextCases
  DEF Between

LEMMA HandInit == Init => BatchInHand /\ ReplicasTyped /\ TurnsInv
<1> SUFFICES ASSUME Init PROVE BatchInHand /\ ReplicasTyped /\ TurnsInv
  OBVIOUS
<1>1. pc = "load" /\ pc \notin Training /\ batch = NoBatch
  BY DEF Init, Training
<1>2. replicas = [r \in Receivers |-> [awake |-> ~Naive, policy |-> [w \in Ranks |-> << >>]]]
  BY DEF Init, FreshReplicas
<1>3. Naive => NoneAwake
  BY <1>2 DEF NoneAwake
<1>4. ReplicasTyped
  BY <1>2 DEF ReplicasTyped
<1> QED
  BY <1>1, <1>3, <1>4 DEF BatchInHand, TurnsInv

LEMMA HandAlways == Spec => [](IInv /\ BatchInHand /\ ReplicasTyped)
<1>1. IInv /\ BatchInHand /\ ReplicasTyped /\ [Next]_vars => BatchInHand' /\ ReplicasTyped'
  BY BatchInHandStep, ReplicasTypedStep DEF IInv
<1> QED
  BY <1>1, HandInit, IInvAlways, PTL DEF Spec

(* With the naive backend, for every warm-up and any crash: the replicas   *)
(* sleep while the trainer loads, computes, updates or saves, and they are *)
(* awake when they generate, but for the steps after a warm-up step.       *)
THEOREM TurnsCorrect == Spec => []SharedInTurns
<1>1. IInv /\ BatchInHand /\ ReplicasTyped /\ TurnsInv /\ [Next]_vars => TurnsInv'
  BY TurnsStep DEF IInv
<1>2. BatchInHand /\ TurnsInv => SharedInTurns
  BY DEF BatchInHand, TurnsInv, SharedInTurns, NoneAwake, Training
<1> QED
  BY <1>1, <1>2, HandInit, HandAlways, PTL DEF Spec

-----------------------------------------------------------------------------
(* The transfer within the job.                                            *)

LEMMA TransferStep ==
  ASSUME TransferInv, BatchInHand, [Next]_vars
  PROVE  TransferInv'
<1>1. CASE Transfer
  BY <1>1, SyncStepInv DEF Transfer, TransferInv, At, driverVars
<1>2. CASE UpdateWeights
  <2>1. StartSync(weights["actor"]) /\ pc' = "syncing"
    BY <1>2 DEF UpdateWeights, Goto
  <2>2. PICK version : StartSync(version)
    BY <2>1
  <2> QED
    BY <2>1, <2>2, StartSyncInv DEF TransferInv
<1>3. CASE FinishUpdateWeights \/ Restart
  BY <1>3, IdleSyncInv DEF FinishUpdateWeights, Restart, TransferInv
<1>4. CASE UNCHANGED syncVars /\ (pc' # "syncing" \/ UNCHANGED pc) /\ (pc # "syncing" \/ UNCHANGED pc)
  BY <1>4, SyncFrame DEF TransferInv
<1>5. CASE InStep
  BY <1>4, <1>5, InStepMoves DEF Training
<1>6. CASE Between /\ ~Transfer /\ ~UpdateWeights /\ ~FinishUpdateWeights /\ ~Restart
  <2>1. UNCHANGED syncVars
    BY <1>6 DEF Between, StartFromScratch, ResumeFromCheckpoint, ResumeFails, UpdateWeightsInPlace,
                StartLoop, StartEpoch, EndEpoch, _save_checkpoint, Saving, EndStep
  <2>2. pc # "syncing" /\ pc' # "syncing"
    BY <1>6 DEF Between, StartFromScratch, ResumeFromCheckpoint, ResumeFails, UpdateWeightsInPlace,
                StartLoop, StartEpoch, EndEpoch, _save_checkpoint, Saving, EndStep, At, Goto, AfterSync
  <2> QED
    BY <1>4, <2>1, <2>2
<1>7. CASE Generate
  BY <1>4, <1>7, GenerateMoves
<1>8. CASE UpdateModels
  BY <1>4, <1>8 DEF UpdateModels, At, Goto
<1>9. CASE UNCHANGED vars
  BY <1>4, <1>9 DEF vars, driverVars
<1> QED
  BY <1>1, <1>2, <1>3, <1>5, <1>6, <1>7, <1>8, <1>9, NextCases

LEMMA TransferInit == Init => TransferInv
  BY IdleSyncInv DEF Init, TransferInv

LEMMA TransferAlways == Spec => [](IInv /\ BatchInHand /\ ReplicasTyped /\ TransferInv)
<1>1. TransferInv /\ BatchInHand /\ [Next]_vars => TransferInv'
  BY TransferStep
<1> QED
  BY <1>1, TransferInit, HandAlways, PTL DEF Spec

(* For any number of receivers, any weights and any bucket size, however   *)
(* filling, broadcasting and reading interleave: what a receiver has       *)
(* handed to its server are the first weights, whole and in order, and it  *)
(* only ends with all of them.                                             *)
THEOREM DeliveredCorrect == Spec => []WeightsDelivered
<1>1. TransferInv => WeightsDelivered
  BY SyncInvDelivers DEF TransferInv, WeightsDelivered
<1> QED
  BY <1>1, TransferAlways, PTL

-----------------------------------------------------------------------------
(* The transfer goes on.  With nothing dropped, a receiver has the         *)
(* metadata of the broadcast under way in its mailbox or has read it, the  *)
(* metadata of the last one says so, and a receiver has seen the last one  *)
(* exactly when the last broadcast is through.  So sender and receivers    *)
(* never wait for each other, and none of them waits for another bucket    *)
(* after the last one or ends before it.                                   *)

HasRead(r) == Waiting(r) /\ recv_op[r].meta # NoMeta
LastReceived(r) == metadata[r].is_last \/ (OpCompleted(r) /\ recv_op[r].meta.is_last)
LastThrough == LastBegun /\ ~InFlight

SenderGoesOn ==
  /\ LastBegun => send_op # NoOp
  /\ send_pc = "done" => send_op = Completed

ReceiverGoesOn(r) ==
  /\ recv_pc[r] # "idle"
  /\ recv_pc[r] = "wait" \/ (recv_pc[r] = "yield" /\ ~metadata[r].is_last) => recv_op[r] # NoOp
  /\ InFlight /\ dropped = {} => mailbox[r] # << >> \/ HasRead(r)
  /\ InFlight /\ LastBegun => /\ mailbox[r] # << >> => mailbox[r][1].is_last
                              /\ HasRead(r) => recv_op[r].meta.is_last
  /\ LastReceived(r) <=> LastThrough

GoesOn == send_pc # "idle" => SenderGoesOn /\ \A r \in Receivers : ReceiverGoesOn(r)

\* a receiver the step leaves alone, as it does the sender's progress
LEMMA GoesOnFrame ==
  ASSUME NEW r \in Receivers, ReceiverGoesOn(r), Unmoved(r), mailbox'[r] = mailbox[r],
         InFlight' => InFlight, LastBegun' <=> LastBegun, LastThrough' <=> LastThrough,
         dropped' = {} => dropped = {}
  PROVE  ReceiverGoesOn(r)'
<1>1. /\ OpCompleted(r)' <=> OpCompleted(r)
      /\ Waiting(r)' <=> Waiting(r)
  BY DEF OpCompleted, Waiting, Unmoved
<1>2. (HasRead(r)' <=> HasRead(r)) /\ (LastReceived(r)' <=> LastReceived(r))
  BY <1>1 DEF HasRead, LastReceived, Unmoved
<1> QED
  BY <1>1, <1>2 DEF ReceiverGoesOn, Unmoved

LEMMA FillGoesOn ==
  ASSUME SyncInv, GoesOn, FillBucket \/ \E r \in Receivers : Subscribe(r)
  PROVE  GoesOn'
<1>1. UNCHANGED << send_pc, send_op, recv_pc, recv_buf, recv_bytes, recv_op, metadata, yielded,
                   mailbox, dropped >>
  BY DEF FillBucket, Subscribe, receiverVars, wireVars, senderVars
<1>2. /\ InFlight' <=> InFlight
      /\ LastBegun' <=> LastBegun
      /\ LastThrough' <=> LastThrough
  BY <1>1 DEF InFlight, LastBegun, LastThrough
<1>3. \A r \in Receivers : Unmoved(r) /\ mailbox'[r] = mailbox[r]
  BY <1>1 DEF Unmoved
<1> QED
  BY <1>1, <1>2, <1>3, GoesOnFrame DEF GoesOn, SenderGoesOn

\* a broadcast begins: nobody has seen the last one, and its metadata reaches
\* every receiver or is dropped
LEMMA StartGoesOn ==
  ASSUME SyncInv, GoesOn, NEW last \in BOOLEAN, StartBroadcast(last), send_pc = "fill",
         LastBegun' <=> last, send_pc' # "done",
         UNCHANGED << receiverVars, recv_op, recv_bytes, subscribed >>
  PROVE  GoesOn'
<1>1. /\ send_op' = [buffer |-> send_buf] /\ ~InFlight /\ InFlight' /\ ~LastBegun /\ ~LastThrough
      /\ ~LastThrough' /\ send_op' # NoOp
  BY OpsDiffer DEF StartBroadcast, PreviousOver, InFlight, LastBegun, LastThrough
<1>2. SenderGoesOn'
  BY <1>1 DEF SenderGoesOn
<1>3. ASSUME NEW r \in Receivers
      PROVE  ReceiverGoesOn(r)'
  <2>1. WireInv(r) /\ ReceiverGoesOn(r) /\ SenderTypes
    BY DEF SyncInv, GoesOn
  <2>2. Unmoved(r)
    BY DEF Unmoved, receiverVars
  <2>3. /\ OpCompleted(r)' <=> OpCompleted(r)
        /\ Waiting(r)' <=> Waiting(r)
    BY <2>2 DEF OpCompleted, Waiting, Unmoved
  <2>4. mailbox[r] = << >> /\ ~HasRead(r) /\ ~HasRead(r)'
    BY <1>1, <2>1, <2>2, <2>3 DEF WireInv, HasRead, Unmoved
  <2>5. ~LastReceived(r) /\ ~LastReceived(r)'
    BY <1>1, <2>1, <2>2, <2>3 DEF ReceiverGoesOn, LastReceived, Unmoved
  <2>6. PICK meta \in Metas : meta = Meta(bucket_meta, last) /\ meta.is_last = last
    BY <2>1, MetaTypes DEF SenderTypes
  <2>7. mailbox'[r] = IF r \in subscribed THEN << meta >> ELSE << >>
    <3>1. mailbox'[r] = IF r \in subscribed THEN Append(mailbox[r], meta) ELSE mailbox[r]
      BY <2>6 DEF StartBroadcast
    <3>2. Append(<< >>, meta) = << meta >>
      OBVIOUS
    <3> QED
      BY <2>4, <3>1, <3>2
  <2>8. dropped' = {} => r \in subscribed
    BY DEF StartBroadcast
  <2>9. << meta >> # << >> /\ << meta >>[1] = meta
    OBVIOUS
  <2> QED
    BY <1>1, <2>1, <2>2, <2>4, <2>5, <2>6, <2>7, <2>8, <2>9 DEF ReceiverGoesOn, Unmoved
<1> QED
  BY <1>2, <1>3 DEF GoesOn

LEMMA SenderStepGoesOn ==
  ASSUME SyncInv, GoesOn, FlushBucket \/ LastBucket \/ SenderDone
  PROVE  GoesOn'
<1>1. CASE FlushBucket
  <2>1. /\ StartBroadcast(FALSE) /\ send_pc = "fill" /\ send_pc' = "fill"
        /\ UNCHANGED << receiverVars, recv_op, recv_bytes, subscribed >>
    BY <1>1 DEF FlushBucket
  <2>2. LastBegun' <=> FALSE
    BY <2>1 DEF LastBegun
  <2> QED
    BY <2>1, <2>2, StartGoesOn
<1>2. CASE LastBucket
  <2>1. /\ StartBroadcast(TRUE) /\ send_pc = "fill" /\ send_pc' = "wait_last"
        /\ UNCHANGED << receiverVars, recv_op, recv_bytes, subscribed >>
    BY <1>2 DEF LastBucket
  <2>2. LastBegun' <=> TRUE
    BY <2>1 DEF LastBegun
  <2> QED
    BY <2>1, <2>2, StartGoesOn
<1>3. CASE SenderDone
  <2>1. /\ send_pc = "wait_last" /\ send_pc' = "done" /\ send_op = Completed
        /\ UNCHANGED << send_op, recv_pc, recv_buf, recv_bytes, recv_op, metadata, yielded,
                        mailbox, dropped >>
    BY <1>3 DEF SenderDone, receiverVars, wireVars
  <2>2. /\ InFlight' <=> InFlight
        /\ LastBegun' <=> LastBegun
        /\ LastThrough' <=> LastThrough
    BY <2>1 DEF InFlight, LastBegun, LastThrough
  <2>3. \A r \in Receivers : Unmoved(r) /\ mailbox'[r] = mailbox[r]
    BY <2>1 DEF Unmoved
  <2>4. SenderGoesOn'
    BY <2>1, OpsDiffer DEF SenderGoesOn
  <2> QED
    BY <2>1, <2>2, <2>3, <2>4, GoesOnFrame DEF GoesOn
<1> QED
  BY <1>1, <1>2, <1>3

\* every receiver has read the metadata: if it is the last one, all know
LEMMA BroadcastGoesOn ==
  ASSUME SyncInv, GoesOn, Broadcast
  PROVE  GoesOn'
<1>1. /\ InFlight /\ ~InFlight' /\ send_op' = Completed
      /\ \A r \in Receivers : HasRead(r)
      /\ recv_op' = [r \in Receivers |-> [recv_op[r] EXCEPT !.buffer = 0]]
      /\ UNCHANGED << send_pc, recv_pc, metadata, mailbox >>
  BY DEF Broadcast, EveryRankJoined, InFlight, HasRead, Waiting, OpCompleted, senderVars, receiverVars
<1>2. (LastBegun' <=> LastBegun) /\ (LastThrough' <=> LastBegun) /\ ~LastThrough
  BY <1>1 DEF LastBegun, LastThrough
<1>3. SenderGoesOn'
  BY <1>1, OpsDiffer DEF SenderGoesOn
<1>4. ASSUME NEW r \in Receivers, send_pc # "idle"
      PROVE  ReceiverGoesOn(r)'
  <2>1. WireInv(r) /\ ReceiverTypes /\ ReceiverGoesOn(r) /\ HasRead(r)
    BY <1>1, <1>4 DEF SyncInv, GoesOn
  <2>2. recv_op[r] \in RecvOps /\ mailbox[r] = << >> /\ Flying(recv_op[r].meta, r)
    BY <2>1 DEF HasRead, Waiting, ReceiverTypes, WireInv
  <2>3. recv_op'[r] = [buffer |-> 0, meta |-> recv_op[r].meta]
    BY <1>1, <2>2 DEF RecvOps
  <2>4. OpCompleted(r)' /\ recv_op'[r].meta = recv_op[r].meta /\ recv_op'[r] # NoOp
    BY <2>3, OpsDiffer DEF OpCompleted
  <2>5. recv_op[r].meta.is_last <=> LastBegun
    BY <1>1, <2>1, <2>2 DEF ReceiverGoesOn, Flying
  <2>6. ~metadata[r].is_last
    BY <1>2, <2>1 DEF ReceiverGoesOn, LastReceived
  <2>7. LastReceived(r)' <=> LastBegun
    BY <1>1, <2>4, <2>5, <2>6 DEF LastReceived
  <2> QED
    BY <1>1, <1>2, <2>1, <2>4, <2>7 DEF ReceiverGoesOn
<1> QED
  BY <1>1, <1>3, <1>4 DEF GoesOn

\* a step of one receiver
LEMMA ReceiverStepGoesOn ==
  ASSUME SyncInv, GoesOn, NEW r \in Receivers,
         ReceiveFirst(r) \/ ReadMetadata(r) \/ BucketReceived(r) \/ YieldWeight(r) \/ BucketYielded(r)
  PROVE  GoesOn'
<1>1. /\ UNCHANGED << send_pc, send_op, dropped >>
      /\ \A q \in Receivers : q # r => Unmoved(q) /\ mailbox'[q] = mailbox[q]
  <2>1. ReceiverTypes
    BY DEF SyncInv
  <2> QED
    BY <2>1 DEF ReceiveFirst, ReadMetadata, BucketReceived, YieldWeight, BucketYielded, Unmoved,
                senderVars, receiverVars, wireVars, ReceiverTypes
<1>2. /\ InFlight' <=> InFlight
      /\ LastBegun' <=> LastBegun
      /\ LastThrough' <=> LastThrough
      /\ SenderGoesOn => SenderGoesOn'
  BY <1>1 DEF InFlight, LastBegun, LastThrough, SenderGoesOn
<1>3. ASSUME send_pc # "idle"
      PROVE  ReceiverGoesOn(r)'
  <2>1. ReceiverGoesOn(r) /\ ReceiverInv(r) /\ WireInv(r) /\ ReceiverTypes
    BY <1>3 DEF GoesOn, SyncInv
  <2>2. CASE ReceiveFirst(r)
    <3>1. /\ recv_pc[r] = "start" /\ recv_op[r] = NoOp /\ recv_pc'[r] = "wait"
          /\ recv_op'[r] = [buffer |-> recv_buf[r], meta |-> NoMeta]
          /\ metadata'[r] = metadata[r] /\ mailbox'[r] = mailbox[r]
          /\ recv_buf[r] # 0
      BY <2>1, <2>2, BuffersDiffer DEF ReceiveFirst, ReceiverInv, ReceiverTypes, receiverVars
    <3>2. recv_op'[r] # NoOp /\ ~OpCompleted(r)' /\ ~OpCompleted(r) /\ ~HasRead(r)' /\ ~HasRead(r)
      BY <3>1, OpsDiffer DEF OpCompleted, HasRead, Waiting
    <3>3. LastReceived(r)' <=> LastReceived(r)
      BY <3>1, <3>2 DEF LastReceived
    <3> QED
      BY <1>1, <1>2, <2>1, <3>1, <3>2, <3>3 DEF ReceiverGoesOn
  <2>3. CASE ReadMetadata(r)
    <3>1. /\ recv_op[r] # NoOp /\ recv_op[r].meta = NoMeta /\ mailbox[r] # << >>
          /\ recv_op' = [recv_op EXCEPT ![r].meta = Head(mailbox[r])]
          /\ recv_pc'[r] = recv_pc[r] /\ metadata'[r] = metadata[r]
          /\ mailbox'[r] = Tail(mailbox[r])
      BY <2>1, <2>3 DEF ReadMetadata, MetadataHere, receiverVars, ReceiverTypes
    <3>2. /\ mailbox[r] \in Seq(Metas) /\ Len(mailbox[r]) = 1 /\ Flying(mailbox[r][1], r)
          /\ recv_op[r] \in RecvOps
      BY <2>1, <3>1 DEF WireInv, ReceiverTypes
    <3>3. Head(mailbox[r]) = mailbox[r][1] /\ mailbox'[r] = << >>
      <4>1. Len(Tail(mailbox[r])) = 0 /\ Tail(mailbox[r]) \in Seq(Metas)
        BY <3>1, <3>2
      <4>2. \A messages \in Seq(Metas) : Len(messages) = 0 => messages = << >>
        OBVIOUS
      <4>3. Head(mailbox[r]) = mailbox[r][1]
        BY <3>1, <3>2
      <4>4. mailbox'[r] \in Seq(Metas) /\ Len(mailbox'[r]) = 0
        BY <3>1, <4>1
      <4> QED
        BY <4>2, <4>3, <4>4
    <3>4. PICK meta \in Metas : meta = mailbox[r][1] /\ meta # NoMeta
      BY <3>2 DEF Flying
    <3>5. recv_op'[r] = [buffer |-> recv_op[r].buffer, meta |-> meta]
      BY <2>1, <3>1, <3>2, <3>3, <3>4 DEF ReceiverTypes, RecvOps
    <3>6. ~OpCompleted(r) /\ Waiting(r)
      BY <2>1, <3>1 DEF ReceiverInv, Waiting
    <3>7. recv_op'[r] # NoOp /\ ~OpCompleted(r)' /\ HasRead(r)' /\ recv_op'[r].meta = meta
      BY <3>4, <3>5, <3>6, OpsDiffer DEF OpCompleted, HasRead, Waiting
    <3>8. LastReceived(r)' <=> LastReceived(r)
      BY <3>1, <3>6, <3>7 DEF LastReceived
    <3> QED
      BY <1>1, <1>2, <2>1, <3>1, <3>3, <3>4, <3>7, <3>8 DEF ReceiverGoesOn
  <2>4. CASE BucketReceived(r)
    <3>1. /\ recv_pc[r] = "wait" /\ OpCompleted(r) /\ metadata'[r] = recv_op[r].meta
          /\ recv_op'[r] = IF recv_op[r].meta.is_last THEN NoOp
                           ELSE [buffer |-> Other(recv_buf[r]), meta |-> NoMeta]
          /\ recv_pc'[r] = "yield" /\ mailbox'[r] = mailbox[r] /\ Other(recv_buf[r]) # 0
      BY <2>1, <2>4, BuffersDiffer DEF BucketReceived, ReceiverTypes
    <3>2. ~OpCompleted(r)' /\ ~HasRead(r)' /\ ~HasRead(r)
      BY <3>1, OpsDiffer DEF OpCompleted, HasRead, Waiting
    <3>3. LastReceived(r)' <=> LastReceived(r)
      <4>1. ~metadata[r].is_last
        BY <2>1, <3>1 DEF ReceiverInv, OpCompleted
      <4> QED
        BY <3>1, <3>2, <4>1 DEF LastReceived
    <3>4. recv_op'[r] = NoOp <=> metadata'[r].is_last
      BY <3>1, OpsDiffer
    <3> QED
      BY <1>1, <1>2, <2>1, <3>1, <3>2, <3>3, <3>4 DEF ReceiverGoesOn
  <2>5. CASE YieldWeight(r) \/ BucketYielded(r)
    <3>1. /\ recv_pc[r] = "yield" /\ recv_op'[r] = recv_op[r] /\ mailbox'[r] = mailbox[r]
          /\ metadata'[r].is_last = metadata[r].is_last
          /\ recv_pc'[r] \in {"yield", IF metadata[r].is_last THEN "done" ELSE "wait"}
      <4>1. metadata[r] \in Metas
        BY <2>1 DEF ReceiverTypes
      <4> QED
        BY <2>1, <2>5, <4>1 DEF YieldWeight, BucketYielded, wireVars, receiverVars, ReceiverTypes, Metas
    <3>2. (OpCompleted(r)' <=> OpCompleted(r)) /\ (HasRead(r)' <=> HasRead(r))
      BY <3>1 DEF OpCompleted, HasRead, Waiting
    <3>3. LastReceived(r)' <=> LastReceived(r)
      BY <3>1, <3>2 DEF LastReceived
    <3> QED
      BY <1>1, <1>2, <2>1, <3>1, <3>2, <3>3 DEF ReceiverGoesOn
  <2> QED
    BY <2>2, <2>3, <2>4, <2>5
<1>4. ASSUME NEW q \in Receivers, q # r, send_pc # "idle"
      PROVE  ReceiverGoesOn(q)'
  BY <1>1, <1>2, <1>4, GoesOnFrame DEF GoesOn
<1> QED
  BY <1>1, <1>2, <1>3, <1>4 DEF GoesOn

LEMMA SyncStepGoesOn ==
  ASSUME SyncInv, GoesOn, SyncStep
  PROVE  GoesOn'
  BY FillGoesOn, SenderStepGoesOn, BroadcastGoesOn, ReceiverStepGoesOn DEF SyncStep

LEMMA StartSyncGoesOn ==
  ASSUME SyncInv, NEW version, StartSync(version)
  PROVE  GoesOn' /\ send_pc' # "idle"
<1>1. /\ send_pc' = "fill" /\ recv_pc' = [r \in Receivers |-> "start"] /\ SyncIdle
      /\ UNCHANGED << send_op, recv_op, metadata, mailbox >>
  BY DEF StartSync, SyncInv
<1>2. /\ send_op' = NoOp
      /\ \A r \in Receivers : recv_op'[r] = NoOp /\ metadata'[r] = NoMeta /\ recv_pc'[r] = "start"
  BY <1>1 DEF SyncIdle
<1>3. ~LastBegun' /\ ~InFlight' /\ ~LastThrough'
  BY <1>1, <1>2 DEF LastBegun, InFlight, LastThrough
<1>4. ASSUME NEW r \in Receivers
      PROVE  ~LastReceived(r)'
  BY <1>2, MetaTypes DEF LastReceived, OpCompleted
<1> QED
  BY <1>1, <1>2, <1>3, <1>4 DEF GoesOn, SenderGoesOn, ReceiverGoesOn

\* if no step of sender, collective or receivers is due, the transfer is over
LEMMA GoesOnOrFinished ==
  ASSUME SyncInv, GoesOn, send_pc # "idle", dropped = {}, ~SenderCanGoOn, ~EveryRankJoined,
         \A r \in Receivers : ~ReceiverCanGoOn(r)
  PROVE  SyncFinished
<1>1. /\ SenderGoesOn /\ SenderTypes /\ ReceiverTypes
      /\ \A r \in Receivers : ReceiverGoesOn(r) /\ ReceiverInv(r) /\ WireInv(r)
  BY DEF GoesOn, SyncInv
<1>2. \A r \in Receivers : /\ recv_pc[r] \in {"wait", "done"}
                           /\ recv_pc[r] = "wait" => Waiting(r)
  BY <1>1 DEF ReceiverCanGoOn, ReceiverTypes, ReceiverGoesOn, Waiting
<1>3. ~InFlight
  <2> SUFFICES ASSUME InFlight PROVE FALSE
    OBVIOUS
  <2>1. ASSUME NEW r \in Receivers
        PROVE  recv_op[r] # NoOp /\ recv_op[r].buffer # 0 /\ recv_op[r].meta # NoMeta
    <3>1. recv_pc[r] = "wait"
      BY <1>1, <1>2, <2>1 DEF ReceiverGoesOn, ReceiverInv, LastReceived, LastThrough
    <3>2. Waiting(r)
      BY <1>2, <3>1
    <3>3. mailbox[r] # << >> \/ HasRead(r)
      BY <1>1 DEF ReceiverGoesOn
    <3>4. HasRead(r)
      BY <3>2, <3>3 DEF ReceiverCanGoOn, MetadataHere, Waiting, HasRead
    <3> QED
      BY <3>4 DEF HasRead, Waiting, OpCompleted
  <2> QED
    BY <2>1 DEF EveryRankJoined, InFlight
<1>4. send_pc = "done"
  BY <1>1, <1>3 DEF SenderCanGoOn, SenderTypes, SenderGoesOn, LastBegun, PreviousOver, InFlight
<1>5. ASSUME NEW r \in Receivers
      PROVE  recv_pc[r] = "done"
  <2>1. LastReceived(r)
    BY <1>1, <1>3, <1>4 DEF ReceiverGoesOn, LastThrough, LastBegun
  <2>2. ASSUME recv_pc[r] = "wait" PROVE FALSE
    BY <1>1, <1>2, <2>1, <2>2 DEF LastReceived, Waiting, ReceiverInv
  <2> QED
    BY <1>2, <2>2
<1> QED
  BY <1>4, <1>5 DEF SyncFinished

UnderWay == pc = "syncing" => GoesOn /\ send_pc # "idle"

LEMMA UnderWayStep ==
  ASSUME TransferInv, BatchInHand, UnderWay, [Next]_vars
  PROVE  UnderWay'
<1>1. CASE Transfer
  BY <1>1, SyncStepGoesOn, IdleStops DEF Transfer, TransferInv, UnderWay, At, driverVars
<1>2. CASE UpdateWeights
  <2>1. PICK version : StartSync(version)
    BY <1>2 DEF UpdateWeights
  <2> QED
    BY <2>1, StartSyncGoesOn DEF TransferInv, UnderWay
<1>3. CASE pc' # "syncing"
  BY <1>3 DEF UnderWay
<1>4. CASE UNCHANGED << syncVars, pc >>
  <2>1. UNCHANGED << send_pc, send_op, recv_pc, recv_op, metadata, mailbox, dropped >>
    BY <1>4 DEF syncVars, senderVars, receiverVars, wireVars
  <2>2. /\ InFlight' <=> InFlight
        /\ LastBegun' <=> LastBegun
        /\ LastThrough' <=> LastThrough
        /\ \A r \in Receivers : (HasRead(r)' <=> HasRead(r)) /\ (LastReceived(r)' <=> LastReceived(r))
    BY <2>1 DEF InFlight, LastBegun, LastThrough, HasRead, Waiting, OpCompleted, LastReceived
  <2> QED
    BY <1>4, <2>1, <2>2 DEF UnderWay, GoesOn, SenderGoesOn, ReceiverGoesOn
<1>5. CASE InStep
  BY <1>3, <1>5, InStepMoves DEF Training
<1>6. CASE Between /\ ~Transfer /\ ~UpdateWeights
  BY <1>3, <1>6
  DEF Between, StartFromScratch, ResumeFromCheckpoint, ResumeFails, UpdateWeightsInPlace,
      FinishUpdateWeights, StartLoop, StartEpoch, EndEpoch, _save_checkpoint, Saving, EndStep,
      Restart, At, Goto, AfterSync
<1>7. CASE Generate
  BY <1>3, <1>7, GenerateMoves
<1>8. CASE UpdateModels
  BY <1>3, <1>8 DEF UpdateModels, At, Goto
<1>9. CASE UNCHANGED vars
  BY <1>4, <1>9 DEF vars, driverVars
<1> QED
  BY <1>1, <1>2, <1>5, <1>6, <1>7, <1>8, <1>9, NextCases

(* For any number of receivers, any weights, bucket size and interleaving: *)
(* a transfer none of whose metadata was dropped never comes to a stop     *)
(* before its end, whatever subscriptions are still to come up.            *)
THEOREM NeverStuckCorrect == Spec => []TransferNeverStuck
<1>1. Init => UnderWay
  BY DEF Init, UnderWay
<1>2. UnderWay /\ TransferInv => TransferNeverStuck
  BY GoesOnOrFinished DEF UnderWay, TransferInv, TransferNeverStuck, At
<1>3. UnderWay /\ TransferInv /\ BatchInHand /\ [Next]_vars => UnderWay'
  BY UnderWayStep
<1> QED
  BY <1>1, <1>2, <1>3, TransferAlways, PTL DEF Spec

-----------------------------------------------------------------------------
(* The numbers of the updates.                                             *)

LEMMA FirstBatchIsNumber == TypeInv => \A role : FirstBatch(role) \in Nat /\ FirstBatch(role) >= 1
  BY PPOTrainerAssumption DEF TypeInv, FirstBatch

LEMMA ConsecutiveEmpty ==
  ASSUME NEW from \in Nat, NEW to \in Int, to < from
  PROVE  Consecutive(from, to) = << >>
<1>1. 1..(to - from + 1) = {}
  OBVIOUS
<1>2. Consecutive(from, to) = [i \in {} |-> from + i - 1]
  BY <1>1 DEF Consecutive
<1>3. << >> = [i \in {} |-> from + i - 1]
  OBVIOUS
<1> QED
  BY <1>2, <1>3

LEMMA IntervalEnd ==
  ASSUME NEW m \in Nat, NEW n \in Nat, 1..m = 1..n
  PROVE  m = n
<1>1. m \in 1..m \/ m = 0
  OBVIOUS
<1>2. n \in 1..n \/ n = 0
  OBVIOUS
<1>3. (m \in 1..n \/ m = 0) /\ (n \in 1..m \/ n = 0)
  BY <1>1, <1>2
<1> QED
  BY <1>3

LEMMA NumbersAppend ==
  ASSUME NEW updates \in Contents, NEW from \in Nat, NEW to \in Nat, NEW life \in Nat, from <= to,
         Numbers(updates) = Consecutive(from, to - 1)
  PROVE  Numbers(Append(updates, << to, life >>)) = Consecutive(from, to)
<1> DEFINE longer == Append(updates, << to, life >>)
           count == to - from
<1>1. updates \in Seq(Nat \X Nat) /\ << to, life >> \in Nat \X Nat
  BY DEF Contents
<1>2. DOMAIN updates = 1..count
  <2>1. DOMAIN Numbers(updates) = DOMAIN updates
    BY DEF Numbers
  <2>2. DOMAIN Consecutive(from, to - 1) = 1..((to - 1) - from + 1)
    BY DEF Consecutive
  <2>3. (to - 1) - from + 1 = to - from
    OBVIOUS
  <2> QED
    BY <2>1, <2>2, <2>3
<1>3. Len(updates) = count /\ count \in Nat
  <2>1. count \in Nat /\ Len(updates) \in Nat /\ DOMAIN updates = 1..Len(updates)
    BY <1>1
  <2>2. 1..Len(updates) = 1..count
    BY <1>2, <2>1
  <2> HIDE DEF count
  <2>3. Len(updates) = count
    BY <2>1, <2>2, IntervalEnd
  <2> QED
    BY <2>1, <2>3
<1>4. DOMAIN longer = 1..(to - from + 1)
  <2>1. longer \in Seq(Nat \X Nat) /\ Len(longer) = Len(updates) + 1
    BY <1>1
  <2>2. DOMAIN longer = 1..Len(longer)
    BY <2>1
  <2>3. Len(longer) = to - from + 1
    BY <1>3, <2>1
  <2> QED
    BY <2>2, <2>3
<1>5. ASSUME NEW i \in 1..(to - from + 1)
      PROVE  longer[i][1] = from + i - 1
  <2>1. CASE i = count + 1
    BY <1>1, <1>3, <2>1
  <2>2. CASE i # count + 1
    <3>1. i \in 1..count
      BY <1>3, <2>2
    <3>2. i \in DOMAIN updates /\ longer[i] = updates[i]
      BY <1>1, <1>2, <1>3, <3>1
    <3>3. updates[i][1] = Numbers(updates)[i]
      BY <3>2 DEF Numbers
    <3>4. i \in 1..((to - 1) - from + 1)
      BY <3>1
    <3>5. Consecutive(from, to - 1)[i] = from + i - 1
      BY <3>4 DEF Consecutive
    <3> QED
      BY <3>2, <3>3, <3>5
  <2> QED
    BY <2>1, <2>2
<1> HIDE DEF longer
<1>6. Numbers(longer) = [i \in 1..(to - from + 1) |-> longer[i][1]]
  BY <1>4 DEF Numbers
<1> QED
  BY <1>5, <1>6 DEF Consecutive, longer

-----------------------------------------------------------------------------
(* The step number and the dataloader.                                     *)

LEMMA StepsInLineStep ==
  ASSUME IInv, BatchInHand, OrderInv, [Next]_vars
  PROVE  StepsInLine'
<1> USE DEF Training, BeforeBatch, At, Goto
<1>1. /\ TypeInv /\ SavesThisStep /\ TrackedSafe /\ StepsInLine /\ DiskInLine
      /\ global_steps \in Nat /\ dataloader \in Nat
  BY DEF IInv, OrderInv, TypeInv
<1>2. CASE InStep
  <2>1. /\ pc \in Training /\ pc' \in Training /\ UNCHANGED << global_steps, dataloader >>
    BY <1>2, InStepMoves DEF checkpointVars, memoryVars
  <2> QED
    BY <1>1, <2>1 DEF StepsInLine
<1>3. CASE Generate
  BY <1>1, <1>3, GenerateMoves DEF StepsInLine
<1>4. CASE UpdateModels
  BY <1>1, <1>4 DEF StepsInLine, UpdateModels
<1>5. CASE ResumeFromCheckpoint
  <2>1. /\ IsWritten(tracker) /\ pc' = "sync"
        /\ global_steps' = TrackedStep /\ dataloader' = LoadedDataloader
    BY <1>5 DEF ResumeFromCheckpoint, LoadTracked, CanLoad
  <2>2. TrackedStep \in Steps /\ IsWritten(data[TrackedStep])
    BY <1>1, <2>1, TrackedIsStep DEF TrackedSafe
  <2>3. LoadedDataloader = TrackedStep
    BY <1>1, <2>2 DEF LoadedDataloader, DiskInLine, IsWritten, Missing
  <2> QED
    BY <2>1, <2>3 DEF StepsInLine
<1>6. CASE Saving
  BY <1>1, <1>6, SaveFrame DEF StepsInLine
<1>7. CASE _save_checkpoint
  BY <1>1, <1>7, StartSaveMoves DEF StepsInLine
<1>8. CASE Restart
  BY <1>8 DEF StepsInLine, Restart, LoseMemory
<1>9. CASE StartFromScratch \/ ResumeFails \/ StartEpoch \/ EndEpoch
  BY <1>1, <1>9 DEF StepsInLine, StartFromScratch, ResumeFails, StartEpoch, EndEpoch,
                    checkpointVars, memoryVars
<1>10. CASE StartLoop \/ EndStep
  BY <1>1, <1>10 DEF StepsInLine, StartLoop, EndStep, checkpointVars, memoryVars
<1>11. CASE UpdateWeightsInPlace \/ UpdateWeights \/ Transfer \/ FinishUpdateWeights
  BY <1>1, <1>11 DEF StepsInLine, UpdateWeightsInPlace, UpdateWeights, Transfer, FinishUpdateWeights,
                     AfterSync, checkpointVars, memoryVars, driverVars
<1>12. CASE UNCHANGED vars
  BY <1>1, <1>12 DEF StepsInLine, vars, checkpointVars, memoryVars, driverVars
<1> QED
  BY <1>2, <1>3, <1>4, <1>5, <1>6, <1>7, <1>8, <1>9, <1>10, <1>11, <1>12, NextCases DEF Between

-----------------------------------------------------------------------------
(* The weights.                                                            *)

LEMMA FirstBatchFixed == UNCHANGED config => \A role : FirstBatch(role)' = FirstBatch(role)
  BY DEF FirstBatch

LEMMA WeightsFrame ==
  ASSUME WeightsInLine, UNCHANGED << config, weights >>, TrainedThrough' = TrainedThrough
  PROVE  WeightsInLine'
<1>1. ASSUME NEW role \in Roles, NEW r \in Ranks
      PROVE  Numbers(weights'[role][r]) = Consecutive(FirstBatch(role)', TrainedThrough')
  BY FirstBatchFixed DEF WeightsInLine
<1> QED
  BY <1>1 DEF WeightsInLine, Numbers, Consecutive

\* one more update, of the batch in hand, or none before the warm-up is over
LEMMA UpdateInLine ==
  ASSUME IInv, BatchInHand, OrderInv, UpdateModels, NEW role \in Roles, NEW r \in Ranks
  PROVE  Numbers(weights'[role][r]) = Consecutive(FirstBatch(role), dataloader)
<1>1. /\ TypeInv /\ pc = "update" /\ pc \in Training /\ batch.id = dataloader
      /\ dataloader \in Nat /\ dataloader > 0 /\ global_steps = dataloader
      /\ weights' = Updated(IF WarmingUp THEN {"critic"} ELSE {"critic", "actor"})
      /\ weights[role][r] \in Contents /\ incarnation \in Nat
  BY DEF IInv, TypeInv, OrderInv, StepsInLine, BatchInHand, Training, BeforeBatch, UpdateModels, At
<1>2. Numbers(weights[role][r]) = Consecutive(FirstBatch(role), dataloader - 1)
  BY <1>1 DEF OrderInv, WeightsInLine, TrainedThrough
<1>3. FirstBatch(role) \in Nat /\ FirstBatch(role) >= 1 /\ config.critic_warmup \in Int
  BY <1>1, FirstBatchIsNumber, PPOTrainerAssumption DEF TypeInv
<1>4. role \in {"actor", "critic"}
  BY CheckpointAssumption DEF Roles
<1>5. CASE role = "actor" /\ WarmingUp
  <2>1. FirstBatch(role) = config.critic_warmup /\ dataloader < FirstBatch(role)
    BY <1>1, <1>3, <1>5 DEF WarmingUp, FirstBatch
  <2>2. weights'[role][r] = weights[role][r]
    BY <1>1, <1>5 DEF Updated
  <2>3. Consecutive(FirstBatch(role), dataloader - 1) = << >>
    BY <1>1, <1>3, <2>1, ConsecutiveEmpty
  <2>4. Consecutive(FirstBatch(role), dataloader) = << >>
    BY <1>1, <1>3, <2>1, ConsecutiveEmpty
  <2> QED
    BY <1>2, <2>2, <2>3, <2>4
<1>6. CASE ~(role = "actor" /\ WarmingUp)
  <2>1. FirstBatch(role) <= dataloader
    BY <1>1, <1>3, <1>4, <1>6 DEF WarmingUp, FirstBatch
  <2>2. weights'[role][r] = Append(weights[role][r], << dataloader, incarnation >>)
    BY <1>1, <1>4, <1>6 DEF Updated
  <2>3. /\ weights[role][r] \in Contents /\ FirstBatch(role) \in Nat /\ dataloader \in Nat
        /\ incarnation \in Nat /\ FirstBatch(role) <= dataloader
    BY <1>1, <1>3, <2>1
  <2>4. Numbers(Append(weights[role][r], << dataloader, incarnation >>)) =
          Consecutive(FirstBatch(role), dataloader)
    BY <1>2, <2>3, NumbersAppend
  <2> QED
    BY <2>2, <2>4
<1> QED
  BY <1>5, <1>6

LEMMA WeightsInLineStep ==
  ASSUME IInv, BatchInHand, OrderInv, [Next]_vars
  PROVE  WeightsInLine'
<1> USE DEF Training, At, Goto
<1>1. /\ TypeInv /\ SavesThisStep /\ TrackedSafe /\ StepsInLine /\ DiskInLine /\ WeightsInLine
      /\ global_steps \in Nat /\ dataloader \in Nat /\ UNCHANGED config
  BY ConfigFixed DEF IInv, OrderInv, TypeInv
<1>2. CASE InStep
  <2>1. /\ pc \in Training /\ pc' \in Training /\ UNCHANGED << weights, dataloader >>
    BY <1>2, InStepMoves DEF checkpointVars, memoryVars
  <2> QED
    BY <1>1, <2>1, WeightsFrame DEF TrainedThrough
<1>3. CASE Generate
  <2>1. dataloader' - 1 = dataloader
    BY <1>1, <1>3, GenerateMoves
  <2> QED
    BY <1>1, <1>3, <2>1, GenerateMoves, WeightsFrame DEF TrainedThrough
<1>4. CASE UpdateModels
  <2>1. TrainedThrough' = dataloader
    BY <1>4 DEF UpdateModels, TrainedThrough
  <2>2. ASSUME NEW role \in Roles, NEW r \in Ranks
        PROVE  Numbers(weights'[role][r]) = Consecutive(FirstBatch(role)', TrainedThrough')
    BY <1>1, <1>4, <2>1, UpdateInLine, FirstBatchFixed
  <2> QED
    BY <2>2 DEF WeightsInLine, Numbers, Consecutive
<1>5. CASE ResumeFromCheckpoint
  <2>1. /\ IsWritten(tracker) /\ pc' = "sync" /\ dataloader' = LoadedDataloader
        /\ \A role \in Roles, r \in Ranks : IsWritten(shards[TrackedStep][role][r])
        /\ weights' = [role \in Roles |-> [r \in Ranks |-> shards[TrackedStep][role][r].content]]
    BY <1>5 DEF ResumeFromCheckpoint, LoadTracked, CanLoad
  <2>2. TrackedStep \in Steps /\ IsWritten(data[TrackedStep])
    BY <1>1, <2>1, TrackedIsStep DEF TrackedSafe
  <2>3. TrainedThrough' = TrackedStep
    BY <1>1, <2>1, <2>2 DEF LoadedDataloader, DiskInLine, IsWritten, Missing, TrainedThrough
  <2>4. ASSUME NEW role \in Roles, NEW r \in Ranks
        PROVE  Numbers(weights'[role][r]) = Consecutive(FirstBatch(role)', TrainedThrough')
    BY <1>1, <2>1, <2>2, <2>3, FirstBatchFixed DEF DiskInLine
  <2> QED
    BY <2>4 DEF WeightsInLine, Numbers, Consecutive
<1>6. CASE Restart
  <2>1. /\ TrainedThrough' = 0
        /\ weights' = [role \in Roles |-> [r \in Ranks |-> << >>]]
    BY <1>6 DEF Restart, LoseMemory, TrainedThrough
  <2>2. ASSUME NEW role \in Roles, NEW r \in Ranks
        PROVE  Numbers(weights'[role][r]) = Consecutive(FirstBatch(role)', TrainedThrough')
    <3>1. FirstBatch(role) \in Nat /\ 0 < FirstBatch(role) /\ 0 \in Int
      BY <1>1, FirstBatchIsNumber
    <3>2. Consecutive(FirstBatch(role), 0) = << >>
      BY <3>1, ConsecutiveEmpty
    <3>3. Numbers(<< >>) = << >>
      BY DEF Numbers
    <3> QED
      BY <1>1, <2>1, <3>2, <3>3, FirstBatchFixed
  <2> QED
    BY <2>2 DEF WeightsInLine, Numbers, Consecutive
<1>7. CASE Between /\ ~ResumeFromCheckpoint /\ ~Restart
  <2>1. UNCHANGED << weights, dataloader >>
    <3>1. Saving \/ _save_checkpoint => UNCHANGED << weights, dataloader >>
      BY <1>1, SaveFrame, StartSaveMoves
    <3> QED
      BY <1>1, <1>7, <3>1, QuietFrame DEF Between, Quiet, checkpointVars, memoryVars
  <2>2. pc \notin Training /\ pc' \notin Training
    <3>1. pc \notin Training
      BY <1>7, BetweenMoves DEF Between, Restart, StartFromScratch, ResumeFails, UpdateWeightsInPlace,
         UpdateWeights, Transfer, FinishUpdateWeights, StartLoop, StartEpoch, EndEpoch,
         _save_checkpoint, Saving, EndStep
    <3> QED
      BY <1>7, <3>1, BetweenMoves
  <2> QED
    BY <1>1, <2>1, <2>2, WeightsFrame DEF TrainedThrough
<1>8. CASE UNCHANGED vars
  BY <1>1, <1>8, WeightsFrame DEF vars, checkpointVars, memoryVars, driverVars, TrainedThrough
<1> QED
  BY <1>2, <1>3, <1>4, <1>5, <1>6, <1>7, <1>8, NextCases DEF Between

-----------------------------------------------------------------------------
(* What the checkpoints hold.                                              *)

\* a save leaves a file as it is, deletes or opens it, or writes the state
LEMMA SavingWrites ==
  ASSUME IInv, Saving, NEW n \in Steps
  PROVE  /\ IsWritten(data'[n]) => \/ data'[n] = data[n]
                                   \/ n = save_step /\ data'[n] = Written(dataloader)
         /\ \A role \in Roles, r \in Ranks : IsWritten(shards'[n][role][r]) =>
              \/ shards'[n][role][r] = shards[n][role][r]
              \/ n = save_step /\ shards'[n][role][r] = Written(weights[role][r])
<1>1. /\ TypeInv /\ SavesThisStep /\ PathsIncrease
      /\ save_step \in Steps /\ SavingRole \in Roles
      /\ shards \in [Steps -> [Roles -> [Ranks -> Files(Contents)]]]
      /\ data \in [Steps -> Files(Nat)]
  BY SaveFrame DEF IInv, TypeInv
<1>2. ~IsWritten(Missing) /\ ~IsWritten(Torn)
  BY DEF IsWritten, Missing, Torn
<1>3. CASE ensure_checkpoint_capacity \/ register_checkpoint
  <2>1. data' = data
    BY <1>3 DEF ensure_checkpoint_capacity, register_checkpoint
  <2>2. ASSUME NEW role \in Roles, NEW r \in Ranks, IsWritten(shards'[n][role][r])
        PROVE  shards'[n][role][r] = shards[n][role][r]
    <3>1. role # SavingRole => shards'[n][role] = shards[n][role]
      BY <1>1, <1>3, EnsureEffect, RegisterEffect
    <3>2. \/ shards'[n][SavingRole] = shards[n][SavingRole]
          \/ shards'[n][SavingRole] = [s \in Ranks |-> Missing]
      BY <1>1, <1>3, EnsureEffect, RegisterEffect
    <3> QED
      BY <1>2, <2>2, <3>1, <3>2
  <2> QED
    BY <2>1, <2>2
<1>4. CASE \E r \in Ranks : OpenShard(r) \/ CloseShard(r)
  <2>1. PICK writer \in Ranks :
          /\ data' = data
          /\ \E file \in {Torn, Written(weights[SavingRole][writer])} :
               shards' = [shards EXCEPT ![save_step][SavingRole][writer] = file]
    BY <1>4 DEF OpenShard, CloseShard
  <2>2. ASSUME NEW role \in Roles, NEW r \in Ranks, IsWritten(shards'[n][role][r])
        PROVE  \/ shards'[n][role][r] = shards[n][role][r]
               \/ n = save_step /\ shards'[n][role][r] = Written(weights[role][r])
    <3>1. CASE n = save_step /\ role = SavingRole /\ r = writer
      <4>1. shards'[n][role][r] \in {Torn, Written(weights[role][r])}
        BY <1>1, <2>1, <3>1
      <4> QED
        BY <1>2, <2>2, <3>1, <4>1
    <3>2. CASE ~(n = save_step /\ role = SavingRole /\ r = writer)
      BY <1>1, <2>1, <3>2
    <3> QED
      BY <3>1, <3>2
  <2> QED
    BY <2>1, <2>2
<1>5. CASE OpenData \/ CloseData
  <2>1. /\ shards' = shards
        /\ \/ data' = [data EXCEPT ![save_step] = Torn]
           \/ data' = [data EXCEPT ![save_step] = Written(dataloader)]
    BY <1>5 DEF OpenData, CloseData
  <2> QED
    BY <1>1, <1>2, <2>1
<1>6. CASE OpenTracker \/ CloseTracker
  BY <1>6 DEF OpenTracker, CloseTracker
<1> QED
  BY <1>3, <1>4, <1>5, <1>6 DEF Saving, SaveStep

LEMMA DiskInLineStep ==
  ASSUME IInv, BatchInHand, OrderInv, [Next]_vars
  PROVE  DiskInLine'
<1>1. /\ TypeInv /\ SavesThisStep /\ StepsInLine /\ DiskInLine /\ WeightsInLine /\ UNCHANGED config
  BY ConfigFixed DEF IInv, OrderInv
<1>2. CASE Saving
  <2>1. /\ pc = "saving" /\ save_step = dataloader /\ TrainedThrough = dataloader
    BY <1>1, <1>2, SaveFrame DEF StepsInLine, BeforeBatch, TrainedThrough, Training
  <2>2. \A content : Written(content).content = content
    BY DEF Written
  <2>3. ASSUME NEW n \in Steps
        PROVE  /\ IsWritten(data'[n]) => data'[n].content = n
               /\ \A role \in Roles, r \in Ranks : IsWritten(shards'[n][role][r]) =>
                    Numbers(shards'[n][role][r].content) = Consecutive(FirstBatch(role)', n)
    <3>1. ASSUME IsWritten(data'[n])
          PROVE  data'[n].content = n
      BY <1>1, <1>2, <2>1, <2>2, <3>1, SavingWrites DEF DiskInLine
    <3>2. ASSUME NEW role \in Roles, NEW r \in Ranks, IsWritten(shards'[n][role][r])
          PROVE  Numbers(shards'[n][role][r].content) = Consecutive(FirstBatch(role)', n)
      <4>1. CASE shards'[n][role][r] = shards[n][role][r]
        BY <1>1, <3>2, <4>1, FirstBatchFixed DEF DiskInLine
      <4>2. CASE n = save_step /\ shards'[n][role][r] = Written(weights[role][r])
        <5>1. shards'[n][role][r].content = weights[role][r] /\ n = TrainedThrough
          BY <2>1, <2>2, <4>2
        <5> QED
          BY <1>1, <5>1, FirstBatchFixed DEF WeightsInLine
      <4> QED
        BY <1>2, <3>2, <4>1, <4>2, SavingWrites
    <3> QED
      BY <3>1, <3>2
  <2> QED
    BY <2>3 DEF DiskInLine, IsWritten, Numbers, Consecutive
<1>3. CASE ~Saving
  <2>1. UNCHANGED << shards, data >>
    <3>1. Quiet => UNCHANGED << shards, data >>
      BY <1>1, QuietFrame DEF checkpointVars, diskVars
    <3>2. ResumeFromCheckpoint \/ Generate \/ UpdateModels \/ _save_checkpoint
            => UNCHANGED << shards, data >>
      BY <1>1, TrainingMoves, StartSaveMoves DEF diskVars
    <3>3. Restart \/ UNCHANGED vars => UNCHANGED << shards, data >>
      BY DEF Restart, LoseMemory, vars, checkpointVars, diskVars
    <3> QED
      BY <1>3, <3>1, <3>2, <3>3 DEF Next, DriverStep, Quiet
  <2>2. ASSUME NEW n \in Steps, NEW role \in Roles, NEW r \in Ranks, IsWritten(shards'[n][role][r])
        PROVE  Numbers(shards'[n][role][r].content) = Consecutive(FirstBatch(role)', n)
    BY <1>1, <2>1, <2>2, FirstBatchFixed DEF DiskInLine
  <2>3. \A n \in Steps : IsWritten(data'[n]) => data'[n].content = n
    BY <1>1, <2>1 DEF DiskInLine
  <2> QED
    BY <2>2, <2>3 DEF DiskInLine, IsWritten, Numbers, Consecutive
<1> QED
  BY <1>2, <1>3

LEMMA OrderInit == Init => OrderInv
<1> SUFFICES ASSUME Init PROVE OrderInv
  OBVIOUS
<1>1. /\ TypeInv /\ pc = "load" /\ global_steps = 0 /\ dataloader = 0
      /\ weights = [role \in Roles |-> [r \in Ranks |-> << >>]]
      /\ shards = [n \in Steps |-> [role \in Roles |-> [r \in Ranks |-> Missing]]]
      /\ data = [n \in Steps |-> Missing]
  BY TypeInit DEF Init, CheckpointInit
<1>2. StepsInLine /\ TrainedThrough = 0
  BY <1>1 DEF StepsInLine, BeforeBatch, Training, TrainedThrough
<1>3. ~IsWritten(Missing)
  BY DEF IsWritten, Missing
<1>4. DiskInLine
  BY <1>1, <1>3 DEF DiskInLine
<1>5. ASSUME NEW role \in Roles, NEW r \in Ranks
      PROVE  Numbers(weights[role][r]) = Consecutive(FirstBatch(role), TrainedThrough)
  <2>1. FirstBatch(role) \in Nat /\ 0 < FirstBatch(role) /\ 0 \in Int
    BY <1>1, FirstBatchIsNumber
  <2>2. Consecutive(FirstBatch(role), 0) = << >>
    BY <2>1, ConsecutiveEmpty
  <2>3. Numbers(<< >>) = << >>
    BY DEF Numbers
  <2> QED
    BY <1>1, <1>2, <2>2, <2>3
<1> QED
  BY <1>2, <1>4, <1>5 DEF OrderInv, WeightsInLine

-----------------------------------------------------------------------------
(* The policy.                                                             *)

LEMMA PolicyFrame ==
  ASSUME PolicyInv, UNCHANGED << weights, batch, replicas, sent_version >>,
         pc' = "syncing" => pc = "syncing",
         pc' \in {"validate_first", "validate"} \cup BeforeBatch \cup Training =>
           pc \in {"validate_first", "validate"} \cup BeforeBatch \cup Training,
         pc' \in Training => pc \in Training
  PROVE  PolicyInv'
  BY DEF PolicyInv

LEMMA PolicyStep ==
  ASSUME IInv, BatchInHand, ReplicasTyped, TransferInv, PolicyInv, [Next]_vars
  PROVE  PolicyInv'
<1> USE DEF Training, BeforeBatch, At, Goto
<1>1. TypeInv /\ SavesThisStep /\ weights \in [Roles -> [Ranks -> Contents]] /\ "actor" \in Roles
  BY PPOTrainerAssumption DEF IInv, TypeInv
<1>2. CASE InStep
  <2>1. /\ pc \in Training /\ pc' \in Training /\ UNCHANGED << weights, replicas, batch.policies >>
    BY <1>2, InStepMoves DEF checkpointVars, memoryVars
  <2> QED
    BY <2>1 DEF PolicyInv
<1>3. CASE Generate
  <2>1. /\ pc = "next_batch" /\ pc' = "balance" /\ weights' = weights
        /\ batch'.policies = { replicas[r].policy : r \in Receivers }
        /\ replicas' = [r \in Receivers |-> Asleep(replicas[r])]
    BY <1>3, GenerateMoves
  <2>2. ASSUME NEW r \in Receivers
        PROVE  replicas[r].policy = weights["actor"] /\ replicas'[r].policy = weights["actor"]
    <3>1. replicas[r].policy = weights["actor"]
      BY <2>1 DEF PolicyInv
    <3>2. Asleep(replicas[r]).policy = replicas[r].policy
      <4>1. PICK awake, policy : replicas[r] = [awake |-> awake, policy |-> policy]
        BY DEF ReplicasTyped
      <4> QED
        BY <4>1 DEF Asleep
    <3> QED
      BY <2>1, <3>1, <3>2
  <2>3. { replicas[r].policy : r \in Receivers } = {weights["actor"]}
    BY <2>2, PPOTrainerAssumption
  <2> QED
    BY <2>1, <2>2, <2>3 DEF PolicyInv
<1>4. CASE UpdateModels
  <2>1. /\ pc = "update" /\ UNCHANGED replicas
        /\ pc' = (IF WarmingUp THEN "validate" ELSE "save")
        /\ weights' = Updated(IF WarmingUp THEN {"critic"} ELSE {"critic", "actor"})
    BY <1>4 DEF UpdateModels
  <2>2. ASSUME WarmingUp
        PROVE  weights'["actor"] = weights["actor"]
    <3>1. weights' = Updated({"critic"})
      BY <2>1, <2>2
    <3>2. weights'["actor"] = [r \in Ranks |-> weights["actor"][r]]
      BY <1>1, <3>1 DEF Updated
    <3> QED
      BY <1>1, <3>2
  <2>3. \A r \in Receivers : replicas[r].policy = weights["actor"]
    BY <2>1 DEF PolicyInv
  <2> QED
    BY <2>1, <2>2, <2>3 DEF PolicyInv
<1>5. CASE UpdateWeightsInPlace
  <2>1. /\ pc = "sync" /\ pc' \in {"validate_first", "validate"}
        /\ replicas' = [r \in Receivers |-> [awake |-> TRUE, policy |-> weights["actor"]]]
        /\ weights' = weights
    BY <1>5 DEF UpdateWeightsInPlace, AfterSync, checkpointVars, memoryVars
  <2>2. \A r \in Receivers : replicas'[r].policy = weights["actor"]
    BY <2>1
  <2> QED
    BY <2>1, <2>2 DEF PolicyInv
<1>6. CASE UpdateWeights
  BY <1>6 DEF UpdateWeights, StartSync, PolicyInv, checkpointVars, memoryVars
<1>7. CASE Transfer
  <2>1. UNCHANGED << pc, weights, batch, replicas, sent_version >>
    BY <1>7, SyncStepInv DEF Transfer, TransferInv, driverVars, batchVars, checkpointVars, memoryVars
  <2> QED
    BY <2>1, PolicyFrame
<1>8. CASE FinishUpdateWeights
  <2>1. /\ pc = "syncing" /\ pc' \in {"validate_first", "validate"} /\ weights' = weights
        /\ \A r \in Receivers : recv_pc[r] = "done"
        /\ replicas' = [r \in Receivers |-> [replicas[r] EXCEPT !.policy =
                          IF Delivered(r, Len(Sizes)) THEN sent_version ELSE replicas[r].policy]]
    BY <1>8 DEF FinishUpdateWeights, SyncFinished, AfterSync, checkpointVars, memoryVars
  <2>2. sent_version = weights["actor"]
    BY <2>1 DEF PolicyInv
  <2>3. ASSUME NEW r \in Receivers
        PROVE  replicas'[r].policy = weights["actor"]
    <3>1. Delivered(r, Len(yielded[r])) /\ Len(yielded[r]) = Len(Sizes)
      BY <2>1, SyncInvDelivers DEF TransferInv
    <3>2. Delivered(r, Len(Sizes))
      BY <3>1 DEF Delivered
    <3>3. PICK awake, policy : replicas[r] = [awake |-> awake, policy |-> policy]
      BY DEF ReplicasTyped
    <3>4. replicas'[r] = [replicas[r] EXCEPT !.policy = sent_version]
      BY <2>1, <3>2
    <3> QED
      BY <2>2, <3>3, <3>4
  <2> QED
    BY <2>1, <2>3 DEF PolicyInv
<1>9. CASE ResumeFromCheckpoint \/ Restart \/ ResumeFails \/ StartFromScratch
  BY <1>9 DEF ResumeFromCheckpoint, Restart, ResumeFails, StartFromScratch, PolicyInv
<1>10. CASE StartLoop \/ StartEpoch \/ EndEpoch \/ EndStep
  <2>1. /\ pc \in {"validate_first", "validate"} \cup BeforeBatch
        /\ pc' \in BeforeBatch \cup {"done"}
        /\ UNCHANGED << weights, batch, replicas, sent_version >>
    BY <1>10 DEF StartLoop, StartEpoch, EndEpoch, EndStep, checkpointVars, memoryVars, batchVars,
                 syncVars, senderVars
  <2> QED
    BY <2>1, PolicyFrame
<1>11. CASE _save_checkpoint \/ Saving
  <2>1. pc' \in {"saving", "sync"}
    BY <1>1, <1>11, StartSaveMoves, SaveFrame
  <2> QED
    BY <2>1 DEF PolicyInv
<1>12. CASE UNCHANGED vars
  BY <1>12, PolicyFrame DEF vars, checkpointVars, memoryVars, driverVars, batchVars, syncVars, senderVars
<1> QED
  BY <1>2, <1>3, <1>4, <1>5, <1>6, <1>7, <1>8, <1>9, <1>10, <1>11, <1>12, NextCases DEF Between

(* For every configuration, any number of ranks, replicas and crashes at   *)
(* any point: the weights have been trained on consecutive batches, the    *)
(* step number is that of the batch, and the batch in hand was generated   *)
(* with the actor it will update.                                          *)
THEOREM OrderCorrect == Spec => []TrainedInOrder
<1>1. IInv /\ BatchInHand /\ OrderInv /\ [Next]_vars => OrderInv'
  BY StepsInLineStep, WeightsInLineStep, DiskInLineStep DEF OrderInv
<1>2. IInv /\ BatchInHand /\ ReplicasTyped /\ TransferInv /\ PolicyInv /\ [Next]_vars => PolicyInv'
  BY PolicyStep
<1>3. Init => OrderInv /\ PolicyInv
  BY OrderInit DEF Init, PolicyInv, BeforeBatch, Training
<1>4. IInv /\ BatchInHand /\ OrderInv /\ PolicyInv => TrainedInOrder
  <2> SUFFICES ASSUME IInv, BatchInHand, OrderInv, PolicyInv
               PROVE  TrainedInOrder
    OBVIOUS
  <2>1. ASSUME pc \in {"save", "saving", "next_batch"}
        PROVE  /\ dataloader = IF At("next_batch") THEN global_steps - 1 ELSE global_steps
               /\ \A role \in Roles, r \in Ranks :
                    Numbers(weights[role][r]) = Consecutive(FirstBatch(role), dataloader)
    <3>1. TrainedThrough = dataloader
      BY <2>1 DEF TrainedThrough, Training
    <3>2. dataloader \in Nat /\ global_steps \in Nat
      BY DEF IInv, TypeInv
    <3>3. dataloader = IF At("next_batch") THEN global_steps - 1 ELSE global_steps
      BY <2>1, <3>2 DEF OrderInv, StepsInLine, BeforeBatch, At
    <3> QED
      BY <3>1, <3>3 DEF OrderInv, WeightsInLine
  <2>2. batch # NoBatch => batch.policies = {weights["actor"]}
    BY DEF BatchInHand, PolicyInv
  <2> QED
    BY <2>1, <2>2 DEF TrainedInOrder
<1> QED
  BY <1>1, <1>2, <1>3, <1>4, TransferAlways, PTL DEF Spec

-----------------------------------------------------------------------------
(* The rows of a batch.                                                    *)

\* the generated rows in some order, each of its prompt
RowsSound(rows) ==
  /\ rows = [i \in 1..Len(rows) |-> rows[i]] /\ Len(rows) \in Nat
  /\ Lists([i \in 1..Len(rows) |-> rows[i].row], 1..Len(rows))
  /\ \A i \in 1..Len(rows) : /\ rows[i].mask \in Seq({0, 1})
                             /\ rows[i].uid = (rows[i].row - 1) \div config.n + 1

\* some of them
RowsPart(rows) ==
  /\ rows = [i \in 1..Len(rows) |-> rows[i]] /\ Len(rows) \in Nat
  /\ \A i \in 1..Len(rows) : rows[i].mask \in Seq({0, 1})

\* what the compute call answers for the rows of worker w
ChunkResults(w) == [i \in 1..Len(Chunks[w]) |-> RowResult(Chunks[w][i])]

RowsInv ==
  pc \in Training =>
    /\ RowsSound(batch.rows) /\ SizesFit(config, Len(batch.rows))
    /\ pc = "balance" => \A i \in 1..Len(batch.rows) : batch.rows[i].row = i
    /\ pc \in {"balance", "old_log_prob"} => batch.old_log_probs = << >>
    /\ pc \in {"balance", "old_log_prob", "values"} => batch.values = << >>
    /\ batch.old_log_probs # << >> =>
         batch.old_log_probs = [i \in 1..Len(batch.rows) |-> LogProb(batch.rows[i])]
    /\ batch.values # << >> =>
         batch.values = [i \in 1..Len(batch.rows) |-> Values(batch.rows[i])]

AnswersInv ==
  /\ pc \notin {"old_log_prob", "values"} => answers = NoAnswers
  /\ pc \in {"old_log_prob", "values"} =>
       /\ answers = [w \in Workers |-> answers[w]]
       /\ \A w \in Workers : answers[w].done => answers[w] = Answer(ChunkResults(w))

ValidatedInv == validated # << >> => validated = config.val_rows

DataInv == RowsInv /\ AnswersInv /\ ValidatedInv

LEMMA ConfigFacts ==
  ASSUME config \in Configs
  PROVE  /\ MeshSound(config.mesh) /\ dp_size(config.mesh) \in Nat \ {0}
         /\ config.n \in Nat \ {0} /\ config.num_workers \in Nat \ {0}
         /\ config.ppo_mini_batch_size \in Nat \ {0} /\ config.prompt_len \in Nat \ {0}
         /\ config.max_token_len \in Nat \ {0}
         /\ config.val_rows \in Seq(Nat)
         /\ config.balance \in {"off", "default", "keep_minibatch", "prefix_grouper"}
<1>1. /\ MeshSound(config.mesh)
      /\ {config.n, config.num_workers, config.ppo_mini_batch_size, config.prompt_len,
          config.max_token_len} \subseteq Nat \ {0}
      /\ config.balance \in {"off", "default", "keep_minibatch", "prefix_grouper"}
      /\ config.val_rows \in Seq(Nat)
  BY PPOTrainerDataAssumption
<1>2. dp_size(config.mesh) \in Nat \ {0}
  BY <1>1, MeshRanks DEF MeshSound
<1> QED BY <1>1, <1>2

LEMMA SequenceOfEntries ==
  ASSUME NEW s, Len(s) \in Nat, s = [i \in 1..Len(s) |-> s[i]]
  PROVE  s \in Seq(EntriesOf(s))
<1> DEFINE n == Len(s)
           E == EntriesOf(s)
<1>1. \A i \in 1..n : s[i] \in E
  BY DEF EntriesOf
<1>2. n \in Nat
  OBVIOUS
<1>3. s = [i \in 1..n |-> s[i]]
  OBVIOUS
<1> HIDE DEF n, E
<1>4. s \in [1..n -> E]
  BY <1>1, <1>3, Zenon
<1> QED BY <1>2, <1>4 DEF E

LEMMA WiderSequence ==
  ASSUME NEW A, NEW B, A \subseteq B, NEW s \in Seq(A)
  PROVE  s \in Seq(B)
OBVIOUS

LEMMA ListsEntries ==
  ASSUME NEW S, NEW s, Lists(s, S)
  PROVE  s \in Seq(S) /\ \A i \in 1..Len(s) : s[i] \in S
BY DEF Lists

LEMMA ReorderSound ==
  ASSUME NEW rows, RowsSound(rows), NEW p, Lists(p, 1..Len(rows))
  PROVE  RowsSound(reorder(rows, p)) /\ Len(reorder(rows, p)) = Len(rows)
<1> DEFINE n == Len(rows)
           numbers == [i \in 1..n |-> rows[i].row]
           t == reorder(rows, p)
           u == [i \in 1..n |-> t[i].row]
           S == 1..n
<1>1. n \in Nat /\ Lists(numbers, S)
  BY DEF RowsSound
<1>2. p \in Seq(S) /\ Len(p) = n /\ \A i \in 1..n : p[i] \in S
  <2>1. Len(p) = n
    BY <1>1, ListsLength
  <2>2. p \in Seq(S) /\ \A i \in 1..Len(p) : p[i] \in S
    BY ListsEntries
  <2> QED BY <2>1, <2>2
<1>3. t = [i \in 1..n |-> rows[p[i]]]
  BY <1>2 DEF reorder
<1> HIDE DEF t
<1>4. Len(t) = n /\ \A i \in 1..n : t[i] = rows[p[i]]
  BY <1>1, <1>3
<1>5. \A i \in 1..n : u[i] = numbers[p[i]]
  BY <1>2, <1>4
<1>6. numbers \in Seq(S) /\ Len(numbers) = n
  BY <1>1 DEF Lists
<1>11. u = [i \in 1..n |-> u[i]]
  OBVIOUS
<1>12. Lists(p, S)
  OBVIOUS
<1>13. S = 1..n
  OBVIOUS
<1> HIDE DEF numbers, u
<1>7. u = [i \in 1..n |-> numbers[p[i]]]
  BY <1>5, <1>11
<1>8. Permutes(u, numbers)
  BY <1>2, <1>6, <1>7, <1>12, <1>13 DEF Permutes
<1>9. Lists(u, S)
  BY <1>1, <1>8, PermutedLists
<1>10. \A i \in 1..n : t[i].mask \in Seq({0, 1}) /\ t[i].uid = (t[i].row - 1) \div config.n + 1
  BY <1>2, <1>4 DEF RowsSound
<1>14. t = [i \in 1..n |-> t[i]]
  BY <1>3, <1>4
<1> QED BY <1>1, <1>4, <1>9, <1>10, <1>14 DEF RowsSound, t, u

LEMMA PermutesTwice ==
  ASSUME NEW s, Len(s) \in Nat, NEW t, Permutes(t, s), NEW u, Permutes(u, t)
  PROVE  Permutes(u, s)
<1> DEFINE n == Len(s)
           S == 1..n
<1>1. PICK p \in Seq(S) : Lists(p, S) /\ Len(p) = n /\ t = [i \in 1..n |-> s[p[i]]]
  BY DEF Permutes
<1>2. Len(t) = n
  BY <1>1
<1>3. PICK q \in Seq(S) : Lists(q, S) /\ Len(q) = n /\ u = [i \in 1..n |-> t[q[i]]]
  BY <1>2 DEF Permutes
<1>0. S = 1..n /\ n \in Nat
  OBVIOUS
<1> HIDE DEF S, n
<1>4. \A i \in 1..n : p[i] \in 1..n /\ q[i] \in 1..n
  BY <1>0, <1>1, <1>3
<1> DEFINE r == [i \in 1..n |-> p[q[i]]]
<1>5. r \in Seq(S) /\ Len(r) = n
  <2>1. r \in [1..n -> S]
    BY <1>0, <1>4
  <2> QED BY <1>0, <2>1
<1>6. \A i \in 1..n : r[i] = p[q[i]]
  OBVIOUS
<1> HIDE DEF r
<1>7. ASSUME NEW i \in 1..n, NEW j \in 1..n, r[i] = r[j] PROVE i = j
  <2>1. \A x, y \in 1..n : p[x] = p[y] => x = y
    BY <1>1 DEF Lists, OneToOne
  <2>2. \A x, y \in 1..n : q[x] = q[y] => x = y
    BY <1>3 DEF Lists, OneToOne
  <2>3. q[i] \in 1..n /\ q[j] \in 1..n /\ p[q[i]] = p[q[j]]
    BY <1>4, <1>6, <1>7
  <2>4. q[i] = q[j]
    BY <2>1, <2>3
  <2> QED BY <2>2, <2>4
<1>8. \A x \in S : \E i \in 1..n : r[i] = x
  <2> TAKE x \in S
  <2>1. PICK j \in 1..n : p[j] = x
    BY <1>1 DEF Lists
  <2>2. PICK i \in 1..n : q[i] = j
    BY <2>1, <1>0, <1>3 DEF Lists
  <2> QED BY <2>1, <2>2, <1>6
<1>9. Lists(r, S)
  BY <1>5, <1>7, <1>8 DEF Lists, OneToOne
<1>10. u = [i \in 1..n |-> s[r[i]]]
  <2>1. \A i \in 1..n : t[q[i]] = s[r[i]]
    BY <1>1, <1>4, <1>6
  <2> QED BY <2>1, <1>3
<1> QED BY <1>0, <1>5, <1>9, <1>10 DEF Permutes, n

LEMMA SeqlensOf ==
  ASSUME config \in Configs, NEW rows, RowsPart(rows)
  PROVE  /\ Seqlens(rows) \in Seq(Nat) /\ Len(Seqlens(rows)) = Len(rows)
         /\ \A i \in 1..Len(rows) : Seqlens(rows)[i] = Seqlen(rows[i]) /\ Seqlen(rows[i]) \in Nat \ {0}
<1> DEFINE n == Len(rows)
<1>1. n \in Nat /\ rows = [i \in 1..n |-> rows[i]]
  BY DEF RowsPart
<1>2. DOMAIN rows = 1..n
  BY <1>1
<1>3. ASSUME NEW i \in 1..n PROVE Seqlen(rows[i]) \in Nat \ {0}
  <2>1. rows[i].mask \in Seq({0, 1})
    BY DEF RowsPart
  <2>2. Len(rows[i].mask) \in Nat
    BY <2>1
  <2> QED BY <2>2, ConfigFacts DEF Seqlen
<1>4. Seqlens(rows) = [i \in 1..n |-> Seqlen(rows[i])]
  BY <1>2 DEF Seqlens
<1> HIDE DEF n
<1>5. Seqlens(rows) \in [1..n -> Nat]
  BY <1>3, <1>4
<1>6. Seqlens(rows) \in Seq(Nat) /\ Len(Seqlens(rows)) = n
  BY <1>1, <1>5
<1> QED BY <1>3, <1>4, <1>6 DEF n

LEMMA Workloads ==
  ASSUME config \in Configs, NEW rows, RowsSound(rows),
         NEW workloads, workloads = [i \in DOMAIN rows |-> calculate_workload(Seqlens(rows)[i])]
  PROVE  workloads \in Seq(Int) /\ Len(workloads) = Len(rows)
<1> DEFINE n == Len(rows)
<1>0. RowsPart(rows)
  BY DEF RowsSound, RowsPart
<1>1. n \in Nat /\ DOMAIN rows = 1..n
  BY DEF RowsSound
<1>2. ASSUME NEW i \in 1..n PROVE calculate_workload(Seqlens(rows)[i]) \in Int
  <2> DEFINE l == Seqlens(rows)[i]
  <2>1. l \in Int
    BY <1>0, SeqlensOf
  <2> HIDE DEF l
  <2>2. calculate_workload(l) \in Int
    BY <2>1 DEF calculate_workload
  <2> QED BY <2>2 DEF l
<1>3. workloads \in [1..n -> Int]
  BY <1>1, <1>2
<1> HIDE DEF n
<1>4. workloads \in Seq(Int) /\ Len(workloads) = n
  BY <1>1, <1>3
<1> QED BY <1>4 DEF n

\* what EndsLight makes of a part
LEMMA EndsLightPermutes ==
  ASSUME NEW part \in Seq(Int), NEW workloads
  PROVE  Permutes(EndsLight(part, workloads), part)
<1> DEFINE less == { p \in Range(part) \X Range(part) :
                      workloads[p[1]] < workloads[p[2]]
                        \/ (workloads[p[1]] = workloads[p[2]] /\ p[1] < p[2]) }
           ascending == Inserted(part, less)
<1>1. EndsLight(part, workloads) = EvenIndices(ascending) \o Reverse(OddIndices(ascending))
  BY DEF EndsLight, SortedBy
<1> HIDE DEF less
<1>2. ascending \in Seq(Int) /\ Permutes(ascending, part)
  BY InsertedPermutes
<1> HIDE DEF ascending
<1>3. Permutes(EvenIndices(ascending) \o Reverse(OddIndices(ascending)), ascending)
  BY <1>2, EndsLighter
<1> DEFINE t == EvenIndices(ascending) \o Reverse(OddIndices(ascending))
<1>4. Permutes(t, ascending)
  BY <1>3
<1> HIDE DEF t
<1>5. Permutes(t, part)
  BY <1>2, <1>4, PermutesTwice
<1> QED BY <1>1, <1>5 DEF t

\* balancing gives every row one place
LEMMA BalancedRows ==
  ASSUME config \in Configs, NEW rows, RowsSound(rows), SizesFit(config, Len(rows)),
         \A i \in 1..Len(rows) : rows[i].row = i, config.balance # "off"
  PROVE  Lists(FlattenSeq(global_partition_lst(rows)), 1..Len(rows))
<1> DEFINE n == Len(rows)
           dp == dp_size(config.mesh)
           lens == [i \in DOMAIN rows |-> Seqlen(rows[i])]
           workloads == [i \in DOMAIN rows |-> calculate_workload(lens[i])]
           Reordered(partitions) == [d \in 1..dp |-> EndsLight(partitions[d], workloads)]
           M == 1..n
<1>1. n \in Nat /\ n # 0 /\ DOMAIN rows = 1..n /\ dp \in Nat \ {0} /\ n % dp = 0
  BY ConfigFacts DEF RowsSound, SizesFit
<1>2. lens = Seqlens(rows) /\ workloads = [i \in DOMAIN rows |-> calculate_workload(Seqlens(rows)[i])]
  BY DEF Seqlens
<1>3. lens \in Seq(Nat) /\ Len(lens) = n
  BY <1>2, SeqlensOf DEF RowsSound, RowsPart
<1>4. workloads \in Seq(Int) /\ Len(workloads) = n
  BY <1>2, Workloads
<1>14. M = 1..n /\ M \subseteq Int
  OBVIOUS
<1> HIDE DEF n, dp, lens, workloads, M
<1>5. ASSUME NEW parts, NEW D, Splits(parts, D, M), Len(parts) = dp
      PROVE  Lists(FlattenSeq(Reordered(parts)), M)
  <2> DEFINE t == Reordered(parts)
  <2>1. \A d \in 1..dp : parts[d] \in Seq(Int)
    <3>1. \A d \in 1..dp : parts[d] \in Seq(M)
      BY <1>5 DEF Splits
    <3> TAKE d \in 1..dp
    <3> DEFINE u == parts[d]
    <3>2. u \in Seq(M)
      BY <3>1
    <3> HIDE DEF u
    <3>3. u \in Seq(Int)
      BY <3>2, <1>14, WiderSequence
    <3> QED BY <3>3 DEF u
  <2>2. \A d \in 1..dp : t[d] = EndsLight(parts[d], workloads)
    OBVIOUS
  <2>3. \A d \in 1..dp : Permutes(t[d], parts[d])
    BY <2>1, <2>2, EndsLightPermutes
  <2>4. t = [d \in 1..dp |-> t[d]]
    OBVIOUS
  <2> HIDE DEF t
  <2>5. Splits(t, D, M)
    BY <1>5, <2>3, <2>4, EachPermuted
  <2>6. Lists(FlattenSeq(t), M)
    BY <2>5, FlattenLists
  <2> QED BY <2>6 DEF t
<1>6. CASE config.balance = "default"
  <2> DEFINE parts == get_seqlen_balanced_partitions(workloads, dp, TRUE)
             D == [j \in 1..dp |-> EntriesOf(parts[j])]
  <2>1. global_partition_lst(rows) = Reordered(parts)
    BY <1>6 DEF global_partition_lst, dp, lens, workloads
  <2>2. Partition(parts, dp, n, TRUE)
    BY <1>1, <1>4, PartitionsSplit
  <2>3. Splits(parts, D, M) /\ Len(parts) = dp
    BY <2>2 DEF Partition, M
  <2> HIDE DEF parts, D, Reordered
  <2>4. Lists(FlattenSeq(Reordered(parts)), M)
    BY <2>3, <1>5
  <2> QED BY <2>1, <2>4 DEF M, n
<1>7. CASE config.balance = "keep_minibatch"
  <2> DEFINE size == config.ppo_mini_batch_size
             count == n \div size
             part == [m \in 1..count |-> get_seqlen_balanced_partitions(
                        SubSeq(workloads, (m - 1) * size + 1, m * size), dp, TRUE)]
             joined == JoinedMinibatches(part, count, dp, size)
  <2>1. size \in Nat \ {0} /\ n % size = 0 /\ size % dp = 0
    BY <1>7, ConfigFacts DEF SizesFit, n, dp
  <2>2. count \in Nat /\ n = count * size
    BY <1>1, <2>1, Exact
  <2>3. MinibatchPartitions(workloads, dp, size) = joined
    BY <1>4 DEF MinibatchPartitions, JoinedMinibatches, Shifted
  <2>4. global_partition_lst(rows) = Reordered(MinibatchPartitions(workloads, dp, size))
    BY <1>7 DEF global_partition_lst, dp, lens, workloads
  <2> HIDE DEF count, joined, Reordered, size
  <2>5. ASSUME NEW m \in 1..count PROVE Partition(part[m], dp, size, TRUE)
    <3> DEFINE s == SubSeq(workloads, (m - 1) * size + 1, m * size)
    <3>1. (m - 1) * size \in Nat /\ m * size = (m - 1) * size + size /\ m * size \in Nat
      BY <2>1, <2>2, Products
    <3>2. m * size <= n
      <4>1. m \in Nat /\ m <= count
        BY <2>2
      <4> QED BY <4>1, <2>1, <2>2, ProductsGrow
    <3>3. s \in Seq(Int) /\ Len(s) = size
      BY <3>1, <3>2, <1>1, <1>4, <2>1
    <3> HIDE DEF s
    <3>4. Len(s) # 0 /\ Len(s) % dp = 0
      BY <3>3, <2>1
    <3>5. Partition(get_seqlen_balanced_partitions(s, dp, TRUE), dp, Len(s), TRUE)
      BY <3>3, <3>4, <1>1, PartitionsSplit
    <3>6. part[m] = get_seqlen_balanced_partitions(s, dp, TRUE)
      BY DEF s
    <3> QED BY <3>3, <3>5, <3>6
  <2> HIDE DEF part
  <2>6. PICK D : Splits(joined, D, 1..(count * size)) /\ Len(joined) = dp
    BY <1>1, <2>1, <2>2, <2>5, MinibatchesSplit DEF joined
  <2>7. Splits(joined, D, M) /\ Len(joined) = dp
    BY <2>2, <2>6 DEF M
  <2>8. Lists(FlattenSeq(Reordered(joined)), M)
    BY <2>7, <1>5
  <2> QED BY <2>3, <2>4, <2>8 DEF M, n
<1>8. CASE config.balance = "prefix_grouper"
  <2> DEFINE uids == [i \in DOMAIN rows |-> rows[i].uid]
             G == n \div config.n
             parts == get_group_balanced_partitions(lens, uids, dp)
  <2>1. global_partition_lst(rows) = parts
    BY <1>8 DEF global_partition_lst, dp, lens
  <2>2. config.n \in Nat \ {0} /\ n % config.n = 0 /\ G % dp = 0
    BY <1>8, ConfigFacts DEF SizesFit, n, dp
  <2>3. G \in Nat \ {0} /\ n = G * config.n
    <3>1. G \in Nat /\ n = G * config.n
      BY <1>1, <2>2, Exact
    <3> HIDE DEF G
    <3>2. G # 0
      BY <3>1, <1>1, <2>2
    <3> QED BY <3>1, <3>2, <2>2
  <2>4. uids = UidsOfPrompts(n, config.n)
    <3>1. \A i \in 1..n : rows[i].uid = (i - 1) \div config.n + 1
      BY DEF RowsSound, n
    <3> QED BY <3>1, <1>1 DEF UidsOfPrompts
  <2>7. Len(lens) = n /\ lens \in Seq(Nat)
    BY <1>3
  <2> HIDE DEF uids, G
  <2>5. PICK D : Splits(parts, D, 1..n)
    BY <1>1, <2>2, <2>3, <2>4, <2>7, GroupsSplit
  <2>6. Lists(FlattenSeq(parts), 1..n)
    BY <2>5, FlattenLists
  <2> QED BY <2>1, <2>6 DEF n
<1> QED BY <1>6, <1>7, <1>8, ConfigFacts

LEMMA RowsInParts ==
  ASSUME config \in Configs, RowsSound(batch.rows), SizesFit(config, Len(batch.rows)),
         NEW w \in Workers
  PROVE  LET size == Len(batch.rows) \div dp_size(config.mesh)
             r == config.mesh.dp_rank[w]
         IN  /\ size \in Nat \ {0}
             /\ RowsPart(Chunks[w]) /\ Len(Chunks[w]) = size
             /\ \A i \in 1..size : /\ r * size + i \in 1..Len(batch.rows)
                                   /\ Chunks[w][i] = batch.rows[r * size + i]
<1> DEFINE rows == batch.rows
           n == Len(rows)
           A == EntriesOf(rows)
           dp == dp_size(config.mesh)
           size == n \div dp
           r == config.mesh.dp_rank[w]
<1>1. rows \in Seq(A) /\ n # 0 /\ n % dp = 0
  BY SequenceOfEntries DEF RowsSound, SizesFit
<1>2. MeshSound(config.mesh) /\ w \in DOMAIN config.mesh.dp_rank
  BY ConfigFacts DEF Workers
<1>3. Chunks[w] = dispatch_nd_compute(config.mesh, rows)[w]
  BY DEF Chunks
<1> HIDE DEF rows, A
<1>4. /\ size \in Nat \ {0}
      /\ Chunks[w] \in Seq(A) /\ Len(Chunks[w]) = size
      /\ \A i \in 1..size : /\ r * size + i \in 1..n
                            /\ Chunks[w][i] = rows[r * size + i]
  BY <1>1, <1>2, <1>3, DispatchedRows
<1>5. \A i \in 1..n : rows[i].mask \in Seq({0, 1})
  BY DEF RowsSound, rows
<1>6. Chunks[w] = [i \in 1..size |-> Chunks[w][i]]
  BY <1>4
<1> HIDE DEF size, r, n
<1>7. \A i \in 1..size : Chunks[w][i].mask \in Seq({0, 1})
  BY <1>4, <1>5
<1>8. RowsPart(Chunks[w])
  BY <1>4, <1>6, <1>7 DEF RowsPart
<1> QED BY <1>4, <1>8 DEF size, r, n, rows, dp

LEMMA LocalCount ==
  ASSUME NEW lens \in Seq(Nat), Len(lens) # 0, \A i \in 1..Len(lens) : lens[i] # 0,
         NEW limit \in Nat \ {0}
  PROVE  num_micro_batches(lens, limit) \in Nat \ {0}
<1> DEFINE sum == SumSeq(lens)
           wanted == (sum + limit - 1) \div limit
           T == Nat
<1>1. T \subseteq Int /\ 0 \in T /\ lens \in Seq(T) /\ T \subseteq Nat
  OBVIOUS
<1>2. \A a, b \in T : a + b \in T
  OBVIOUS
<1>3. T = Nat
  OBVIOUS
<1> HIDE DEF T
<1>4. SumSeq(lens) \in T /\ SumSeq(lens) # 0
  BY <1>1, <1>2, SumSeqIn
<1>5. sum \in Nat \ {0}
  BY <1>3, <1>4
<1>6. num_micro_batches(lens, limit) = IF wanted < Len(lens) THEN wanted ELSE Len(lens)
  BY DEF num_micro_batches, ceildiv
<1> HIDE DEF sum
<1>7. wanted \in Nat \ {0}
  <2> DEFINE a == sum + limit - 1
             r == a % limit
  <2>1. a \in Nat /\ a >= limit
    BY <1>5
  <2> HIDE DEF a
  <2>2. wanted = a \div limit
    BY DEF a
  <2>3. wanted \in Nat /\ r \in 0..(limit - 1) /\ a = limit * wanted + r
    BY <2>1, <2>2, Division
  <2> HIDE DEF wanted, r
  <2>4. wanted = 0 => a < limit
    BY <2>3
  <2> QED BY <2>1, <2>3, <2>4
<1> HIDE DEF wanted
<1> QED BY <1>6, <1>7

LEMMA CountOfMicroBatches ==
  ASSUME config \in Configs, RowsSound(batch.rows), SizesFit(config, Len(batch.rows))
  PROVE  MicroBatchCount \in Nat \ {0}
<1> DEFINE limit == config.max_token_len
           m == Len(config.mesh.dp_rank)
           f == [w \in 1..m |-> num_micro_batches(Seqlens(Chunks[w]), limit)]
<1>1. m \in Nat /\ m # 0 /\ Workers = 1..m
  BY ConfigFacts DEF MeshSound, Workers
<1>2. ASSUME NEW w \in 1..m PROVE f[w] \in Nat \ {0}
  <2> DEFINE lens == Seqlens(Chunks[w])
  <2>1. w \in Workers
    BY <1>1
  <2> DEFINE size == Len(batch.rows) \div dp_size(config.mesh)
  <2>2. RowsPart(Chunks[w]) /\ Len(Chunks[w]) = size /\ size \in Nat \ {0}
    BY <2>1, RowsInParts
  <2>3. /\ lens \in Seq(Nat) /\ Len(lens) = Len(Chunks[w])
        /\ \A i \in 1..Len(Chunks[w]) :
             lens[i] = Seqlen(Chunks[w][i]) /\ Seqlen(Chunks[w][i]) \in Nat \ {0}
    BY <2>2, SeqlensOf
  <2>5. f[w] = num_micro_batches(lens, limit)
    OBVIOUS
  <2> HIDE DEF lens, size
  <2>4. Len(lens) # 0 /\ \A i \in 1..Len(lens) : lens[i] # 0
    BY <2>2, <2>3
  <2>6. limit \in Nat \ {0}
    BY ConfigFacts
  <2>7. num_micro_batches(lens, limit) \in Nat \ {0}
    BY <2>3, <2>4, <2>6, LocalCount
  <2> QED BY <2>5, <2>7
<1>3. { num_micro_batches(Seqlens(Chunks[w]), limit) : w \in Workers } = { f[w] : w \in 1..m }
  BY <1>1
<1>10. f = [w \in 1..m |-> f[w]]
  OBVIOUS
<1> HIDE DEF f, limit
<1>4. f \in Seq(Nat) /\ Len(f) = m /\ f # << >>
  <2>1. f \in [1..m -> Nat]
    BY <1>2, <1>10
  <2> QED BY <2>1, <1>1
<1> DEFINE S == EntriesOf(f)
<1>5. { num_micro_batches(Seqlens(Chunks[w]), limit) : w \in Workers } = S
  BY <1>3, <1>4 DEF EntriesOf
<1>6. \A c \in S : c \in Nat \ {0}
  BY <1>2, <1>4 DEF EntriesOf
<1>7. \E c \in S : \A d \in S : d <= c
  BY <1>4, Greatest
<1>8. MicroBatchCount = CHOOSE c \in S : \A d \in S : d <= c
  BY <1>5 DEF MicroBatchCount, limit
<1> HIDE DEF S
<1>9. MicroBatchCount \in S
  BY <1>7, <1>8
<1> QED BY <1>6, <1>9

\* a worker computes every row of its chunk, and returns them in their order
LEMMA WorkerResults ==
  ASSUME config \in Configs, RowsSound(batch.rows), SizesFit(config, Len(batch.rows)),
         NEW w \in Workers
  PROVE  compute_micro_batches(w) = ChunkResults(w)
<1> DEFINE rows == Chunks[w]
           lens == Seqlens(rows)
           size == Len(batch.rows) \div dp_size(config.mesh)
           num == MicroBatchCount
           indices == rearrange_micro_batches(lens, num)
           g == [i \in 1..size |-> RowResult(rows[i])]
           Y == { g[i] : i \in 1..size }
           results == FlattenSeq([m \in DOMAIN indices |->
                        [i \in DOMAIN indices[m] |-> RowResult(rows[indices[m][i]])]])
<1>1. RowsPart(rows) /\ Len(rows) = size /\ size \in Nat \ {0}
  BY RowsInParts
<1>2. lens \in Seq(Nat) /\ Len(lens) = size
  BY <1>1, SeqlensOf
<1>3. num \in Nat \ {0}
  BY CountOfMicroBatches
<1>4. compute_micro_batches(w) = restore_dynamic_batch(results, indices)
  BY DEF compute_micro_batches, MicroBatches
<1>5. ChunkResults(w) = g
  BY <1>1 DEF ChunkResults
<1>12. Y = { g[i] : i \in 1..size } /\ \A i \in 1..size : g[i] = RowResult(rows[i])
  OBVIOUS
<1>13. g = [i \in 1..size |-> g[i]]
  OBVIOUS
<1>14. results = FlattenSeq([m \in DOMAIN indices |->
                   [i \in DOMAIN indices[m] |-> RowResult(rows[indices[m][i]])]])
  OBVIOUS
<1>15. indices = rearrange_micro_batches(lens, num)
  OBVIOUS
<1> HIDE DEF rows, lens, size, num, indices, g, Y, results
<1>6. g \in [1..size -> Y]
  <2>1. \A i \in 1..size : g[i] \in Y
    BY <1>12
  <2> QED BY <2>1, <1>13, Zenon
<1>7. lens \in Seq(Int) /\ Len(lens) # 0
  <2>1. Nat \subseteq Int
    OBVIOUS
  <2>2. lens \in Seq(Int)
    BY <1>2, <2>1, WiderSequence
  <2> QED BY <2>2, <1>1, <1>2
<1>8. PICK D : Splits(indices, D, 1..Len(lens))
  BY <1>3, <1>7, <1>15, MicroBatchesSplit
<1>9. \A m \in DOMAIN indices : \A i \in DOMAIN indices[m] : indices[m][i] \in 1..size
  <2>1. indices \in Seq(Seq(1..size))
    BY <1>2, <1>8 DEF Splits
  <2> DEFINE M == 1..size
  <2> HIDE DEF M
  <2>2. indices \in Seq(Seq(M))
    BY <2>1 DEF M
  <2>3. \A m \in DOMAIN indices : indices[m] \in Seq(M)
    BY <2>2
  <2>4. \A m \in DOMAIN indices : \A i \in DOMAIN indices[m] : indices[m][i] \in M
    BY <2>3
  <2> QED BY <2>4 DEF M
<1>10. results = FlattenSeq(Through(indices, g))
  <2>1. \A m \in DOMAIN indices :
          [i \in DOMAIN indices[m] |-> RowResult(rows[indices[m][i]])]
            = [i \in DOMAIN indices[m] |-> g[indices[m][i]]]
    BY <1>9, <1>12
  <2> QED BY <2>1, <1>14 DEF Through
<1>11. restore_dynamic_batch(FlattenSeq(Through(indices, g)), indices) = g
  <2>1. g \in [1..Len(lens) -> Y]
    BY <1>2, <1>6
  <2> QED BY <2>1, <1>3, <1>7, <1>15, MicroBatchesRestore
<1> QED BY <1>4, <1>5, <1>10, <1>11

\* the driver gets them in the order of the rows
LEMMA CollectedResults ==
  ASSUME config \in Configs, RowsSound(batch.rows), SizesFit(config, Len(batch.rows)),
         \A w \in Workers : answers[w] = Answer(ChunkResults(w))
  PROVE  collect_nd_compute(config.mesh, [w \in Workers |-> answers[w].rows])
           = [i \in 1..Len(batch.rows) |-> RowResult(batch.rows[i])]
<1> DEFINE mesh == config.mesh
           dp == dp_size(mesh)
           n == Len(batch.rows)
           size == n \div dp
           results == [i \in 1..n |-> RowResult(batch.rows[i])]
           Y == { results[i] : i \in 1..n }
           outputs == [w \in Workers |-> answers[w].rows]
<1>1. MeshSound(mesh) /\ n \in Nat /\ n # 0 /\ n % dp = 0
  BY ConfigFacts DEF RowsSound, SizesFit
<1>2. Y = { results[i] : i \in 1..n } /\ \A i \in 1..n : results[i] = RowResult(batch.rows[i])
  OBVIOUS
<1>3. results = [i \in 1..n |-> results[i]]
  OBVIOUS
<1>4. DOMAIN outputs = DOMAIN mesh.dp_rank /\ Workers = DOMAIN mesh.dp_rank
  BY DEF Workers
<1>5. ASSUME NEW w \in Workers PROVE outputs[w] = ChunkResults(w)
  <2>1. answers[w] = [done |-> TRUE, rows |-> ChunkResults(w)]
    BY DEF Answer
  <2>2. outputs[w] = answers[w].rows
    OBVIOUS
  <2> DEFINE results_of == ChunkResults(w)
  <2> HIDE DEF results_of, outputs
  <2>3. answers[w] = [done |-> TRUE, rows |-> results_of]
    BY <2>1 DEF results_of
  <2>4. answers[w].rows = results_of
    BY <2>3
  <2> QED BY <2>2, <2>4 DEF results_of
<1>6. ASSUME NEW w \in Workers
      PROVE  LET r == mesh.dp_rank[w]
             IN  /\ ChunkResults(w) = [i \in 1..size |-> RowResult(Chunks[w][i])]
                 /\ \A i \in 1..size : r * size + i \in 1..n /\ Chunks[w][i] = batch.rows[r * size + i]
  BY RowsInParts DEF ChunkResults
<1> HIDE DEF results, Y, n
<1>7. results \in Seq(Y) /\ Len(results) = n
  <2>1. results \in [1..n -> Y]
    <3>1. \A i \in 1..n : results[i] \in Y
      BY <1>2
    <3> QED BY <3>1, <1>3, Zenon
  <2> QED BY <2>1, <1>1
<1>8. ASSUME NEW w \in Workers PROVE outputs[w] = dispatch_nd_compute(mesh, results)[w]
  <2> DEFINE part == dispatch_nd_compute(mesh, results)[w]
             r == mesh.dp_rank[w]
  <2>1. /\ part \in Seq(Y) /\ Len(part) = size
        /\ \A i \in 1..size : r * size + i \in 1..n /\ part[i] = results[r * size + i]
    <3>1. w \in DOMAIN mesh.dp_rank
      BY <1>4
    <3> HIDE DEF mesh
    <3> QED BY <3>1, <1>1, <1>7, DispatchedRows
  <2>2. part = [i \in 1..size |-> part[i]]
    BY <2>1
  <2>3. outputs[w] = [i \in 1..size |-> RowResult(Chunks[w][i])]
    BY <1>5, <1>6
  <2>4. \A i \in 1..size : Chunks[w][i] = batch.rows[r * size + i]
    BY <1>6
  <2> HIDE DEF part, r, size, outputs
  <2>5. \A i \in 1..size : part[i] = RowResult(Chunks[w][i])
    BY <2>1, <2>4, <1>2
  <2> QED BY <2>2, <2>3, <2>5 DEF part
<1>9. \A w \in DOMAIN outputs : outputs[w] = dispatch_nd_compute(mesh, results)[w]
  BY <1>8
<1> HIDE DEF mesh, outputs
<1>10. collect_nd_compute(mesh, outputs) = results
  <2>1. Len(results) % dp_size(mesh) = 0
    BY <1>1, <1>7
  <2> QED BY <2>1, <1>1, <1>4, <1>7, <1>9, CollectDispatched
<1> QED BY <1>10 DEF mesh, outputs, results, n

LEMMA ValidationIs ==
  ASSUME config \in Configs
  PROVE  Validation = config.val_rows
<1> DEFINE rows == config.val_rows
           k == config.num_workers
<1>1. rows \in Seq(Nat) /\ k \in Nat \ {0}
  BY ConfigFacts
<1>2. Validation = unpad_dataproto(concat(chunk(pad_dataproto_to_divisor(rows, k), k)),
                                   pad_size(rows, k))
  BY DEF Validation
<1> HIDE DEF rows, k
<1>3. unpad_dataproto(concat(chunk(pad_dataproto_to_divisor(rows, k), k)), pad_size(rows, k)) = rows
  BY <1>1, PaddedRows
<1> QED BY <1>2, <1>3 DEF rows

LEMMA GeneratedPrompts ==
  ASSUME config \in Configs, NEW rows, Len(rows) \in Nat, SizesFit(config, Len(rows))
  PROVE  Generated(rows) = [i \in 1..Len(rows) |-> (i - 1) \div config.n + 1]
<1> DEFINE n == config.n
           N == Len(rows)
           k == config.num_workers
<1>1. n \in Nat \ {0} /\ k \in Nat \ {0} /\ N \in Nat /\ N % n = 0 /\ N % k = 0
  BY ConfigFacts DEF SizesFit
<1>2. Generated(rows) = concat(chunk(repeat_interleave([i \in 1..(N \div n) |-> i], n), k))
  BY DEF Generated
<1> HIDE DEF n, N, k
<1>3. concat(chunk(repeat_interleave([i \in 1..(N \div n) |-> i], n), k))
        = [i \in 1..N |-> (i - 1) \div n + 1]
  BY <1>1, RepeatedPrompts
<1> QED BY <1>2, <1>3 DEF n, N

\* the rows of a new batch
LEMMA GeneratedRows ==
  ASSUME config \in Configs, Generate
  PROVE  /\ RowsSound(batch'.rows) /\ SizesFit(config, Len(batch'.rows))
         /\ \A i \in 1..Len(batch'.rows) : batch'.rows[i].row = i
         /\ batch'.old_log_probs = << >> /\ batch'.values = << >>
<1>1. PICK masks \in config.masks, scores \in config.scores :
        batch' = [id |-> dataloader', step |-> global_steps, order |-> "generated",
                  rows |-> [i \in DOMAIN RowsOf(masks, scores) |->
                     [RowsOf(masks, scores)[i] EXCEPT !.uid = Generated(RowsOf(masks, scores))[i]]],
                  policies |-> { replicas[r].policy : r \in Receivers },
                  awake |-> \A r \in Receivers : replicas[r].awake,
                  old_log_probs |-> << >>, values |-> << >>, advantages |-> << >>]
  BY DEF Generate
<1> DEFINE N == Len(masks)
           rows == RowsOf(masks, scores)
           prompts == Generated(rows)
           new == [i \in DOMAIN rows |-> [rows[i] EXCEPT !.uid = prompts[i]]]
<1>2. batch'.rows = new /\ batch'.old_log_probs = << >> /\ batch'.values = << >>
  BY <1>1
<1>3. masks \in Seq(Seq({0, 1})) /\ SizesFit(config, N)
  BY PPOTrainerDataAssumption
<1>4. N \in Nat /\ DOMAIN masks = 1..N /\ \A i \in 1..N : masks[i] \in Seq({0, 1})
  BY <1>3
<1>5. rows = [i \in 1..N |-> [row |-> i, uid |-> (i - 1) \div config.n, mask |-> masks[i],
                              score |-> scores[i],
                              baseline |-> repeat_interleave(config.baselines, config.n)[i]]]
  BY <1>4 DEF RowsOf
<1>6. new = [i \in DOMAIN rows |-> [rows[i] EXCEPT !.uid = prompts[i]]]
  OBVIOUS
<1>12. prompts = Generated(rows)
  OBVIOUS
<1> HIDE DEF N, rows, prompts, new
<1>7. Len(rows) = N /\ DOMAIN rows = 1..N
  BY <1>4, <1>5
<1>8. prompts = [i \in 1..N |-> (i - 1) \div config.n + 1]
  BY <1>3, <1>4, <1>7, <1>12, GeneratedPrompts
<1>9. new = [i \in 1..N |-> new[i]] /\ Len(new) = N
  BY <1>4, <1>6, <1>7
<1>10. \A i \in 1..N : /\ new[i].row = i /\ new[i].mask = masks[i]
                        /\ new[i].uid = (i - 1) \div config.n + 1
  <2> TAKE i \in 1..N
  <2> DEFINE score == scores[i]
             baseline == repeat_interleave(config.baselines, config.n)[i]
             old == (i - 1) \div config.n
             mask == masks[i]
             uid == prompts[i]
  <2>1. rows[i] = [row |-> i, uid |-> old, mask |-> mask, score |-> score, baseline |-> baseline]
    BY <1>5
  <2>2. new[i] = [rows[i] EXCEPT !.uid = uid]
    BY <1>6, <1>7
  <2>3. uid = old + 1
    BY <1>8
  <2>4. mask = masks[i]
    OBVIOUS
  <2> HIDE DEF score, baseline, mask, uid
  <2>5. new[i].row = i /\ new[i].mask = mask /\ new[i].uid = uid
    BY <2>1, <2>2
  <2> QED BY <2>3, <2>4, <2>5
<1>11. Lists([i \in 1..N |-> new[i].row], 1..N)
  <2> DEFINE s == [i \in 1..N |-> new[i].row]
             S == 1..N
  <2>1. \A i \in 1..N : s[i] = i
    BY <1>10
  <2>2. s = [i \in 1..N |-> s[i]]
    OBVIOUS
  <2> HIDE DEF s
  <2>3. s \in [1..N -> 1..N]
    BY <2>1, <2>2
  <2>4. s \in Seq(1..N) /\ Len(s) = N
    BY <2>3, <1>4
  <2>5. OneToOne(s) /\ \A x \in 1..N : \E i \in 1..N : s[i] = x
    BY <2>1, <2>4 DEF OneToOne
  <2>6. Lists(s, 1..N)
    BY <2>4, <2>5 DEF Lists
  <2> QED BY <2>6 DEF s
<1>13. RowsSound(new)
  BY <1>4, <1>9, <1>10, <1>11 DEF RowsSound
<1> QED BY <1>2, <1>3, <1>9, <1>10, <1>13

\* The batch stays as it is, and what is known of it.
LEMMA RowsFrame ==
  ASSUME RowsInv, pc \in Training, UNCHANGED << batch, config >>, pc' = pc
  PROVE  RowsInv'
BY DEF RowsInv, RowsSound, SizesFit, LogProb, Values

LEMMA BalanceStep ==
  ASSUME IInv, BatchInHand, DataInv, _balance_batch
  PROVE  DataInv'
<1> USE DEF At, Goto
<1>1. /\ pc = "balance" /\ pc' = "old_log_prob" /\ UNCHANGED << answers, config, validated >>
      /\ batch' = [batch EXCEPT !.order = "balanced",
                      !.rows = IF config.balance = "off" THEN batch.rows
                               ELSE reorder(batch.rows, FlattenSeq(global_partition_lst(batch.rows)))]
  BY DEF _balance_batch, jobVars
<1>2. config \in Configs
  BY DEF IInv, TypeInv
<1> DEFINE rows == batch.rows
           new == IF config.balance = "off" THEN rows
                  ELSE reorder(rows, FlattenSeq(global_partition_lst(rows)))
<1>3. /\ RowsSound(rows) /\ SizesFit(config, Len(rows)) /\ \A i \in 1..Len(rows) : rows[i].row = i
      /\ batch.old_log_probs = << >> /\ batch.values = << >>
  BY <1>1 DEF DataInv, RowsInv, Training
<1>4. batch'.rows = new /\ batch'.old_log_probs = << >> /\ batch'.values = << >>
  <2>1. batch = [field \in BatchFields |-> batch[field]]
    BY <1>1 DEF BatchInHand, Training
  <2>2. batch' = [batch EXCEPT !.order = "balanced", !.rows = new]
    BY <1>1
  <2> HIDE DEF new
  <2> QED BY <2>1, <2>2, <1>3 DEF BatchFields
<1>5. RowsSound(new) /\ Len(new) = Len(rows)
  <2>1. CASE config.balance = "off"
    BY <2>1, <1>3
  <2>2. CASE config.balance # "off"
    <3> DEFINE p == FlattenSeq(global_partition_lst(rows))
    <3>1. Lists(p, 1..Len(rows))
      BY <1>2, <1>3, <2>2, BalancedRows
    <3> HIDE DEF p, rows
    <3>2. RowsSound(reorder(rows, p)) /\ Len(reorder(rows, p)) = Len(rows)
      BY <1>3, <3>1, ReorderSound
    <3>3. new = reorder(rows, p)
      BY <2>2 DEF p
    <3> QED BY <3>2, <3>3
  <2> QED BY <2>1, <2>2
<1> HIDE DEF new, rows
<1>6. RowsSound(batch.rows)'
  <2> HIDE DEF RowsSound
  <2>2. config' = config /\ batch'.rows = new
    BY <1>1, <1>4
  <2>1. RowsSound(new) <=> RowsSound(batch.rows)'
    BY <2>2 DEF RowsSound
  <2> QED BY <2>1, <1>5
<1>7. SizesFit(config, Len(batch.rows))'
  BY <1>1, <1>3, <1>4, <1>5 DEF SizesFit
<1>8. RowsInv'
  BY <1>1, <1>4, <1>6, <1>7 DEF RowsInv
<1>9. AnswersInv'
  <2>1. answers' = NoAnswers /\ NoAnswers' = [w \in Workers' |-> NoAnswer] /\ Workers' = Workers
    BY <1>1 DEF DataInv, AnswersInv, NoAnswers, Workers
  <2>2. answers' = [w \in Workers' |-> NoAnswer]
    BY <2>1 DEF NoAnswers
  <2>3. \A w \in Workers' : ~answers'[w].done
    BY <2>2 DEF NoAnswer
  <2>4. answers' = [w \in Workers' |-> answers'[w]]
    BY <2>2
  <2> QED BY <1>1, <2>3, <2>4 DEF AnswersInv
<1>10. ValidatedInv'
  BY <1>1 DEF DataInv, ValidatedInv
<1> QED BY <1>8, <1>9, <1>10 DEF DataInv

LEMMA WorkerStep ==
  ASSUME IInv, BatchInHand, DataInv, NEW w \in Workers, WorkerComputes(w)
  PROVE  DataInv'
<1>1. /\ pc \in {"old_log_prob", "values"} /\ UNCHANGED << pc, batch, config, validated >>
      /\ answers' = [answers EXCEPT ![w] = Answer(compute_micro_batches(w))]
  BY DEF WorkerComputes, driverVars, jobVars
<1>2. config \in Configs /\ pc \in Training
  BY <1>1 DEF IInv, TypeInv, Training
<1>3. RowsSound(batch.rows) /\ SizesFit(config, Len(batch.rows))
  BY <1>2 DEF DataInv, RowsInv
<1>4. compute_micro_batches(w) = ChunkResults(w)
  BY <1>2, <1>3, WorkerResults
<1>5. Workers' = Workers /\ \A v \in Workers : ChunkResults(v)' = ChunkResults(v)
  BY <1>1 DEF Workers, ChunkResults, Chunks, RowResult, Values, LogProb, At
<1>6. AnswersInv'
  <2>1. answers = [v \in Workers |-> answers[v]]
        /\ \A v \in Workers : answers[v].done => answers[v] = Answer(ChunkResults(v))
    BY <1>1 DEF DataInv, AnswersInv
  <2>2. answers' = [v \in Workers |-> answers'[v]]
    BY <1>1, <2>1
  <2>3. \A v \in Workers : answers'[v].done => answers'[v] = Answer(ChunkResults(v))
    <3> TAKE v \in Workers
    <3>1. CASE v = w
      BY <3>1, <1>1, <1>4, <2>1
    <3>2. CASE v # w
      BY <3>2, <1>1, <2>1
    <3> QED BY <3>1, <3>2
  <2>4. \A v \in Workers : Answer(ChunkResults(v))' = Answer(ChunkResults(v))
    BY <1>5 DEF Answer
  <2>5. answers' = [v \in Workers' |-> answers'[v]]
    BY <1>5, <2>2
  <2>6. \A v \in Workers' : answers'[v].done => answers'[v] = Answer(ChunkResults(v))'
    BY <1>5, <2>3, <2>4
  <2> QED BY <1>1, <2>5, <2>6 DEF AnswersInv
<1>7. RowsInv'
  BY <1>1, <1>2, RowsFrame DEF DataInv
<1>8. ValidatedInv'
  BY <1>1 DEF DataInv, ValidatedInv
<1> QED BY <1>6, <1>7, <1>8 DEF DataInv

LEMMA CollectStep ==
  ASSUME IInv, BatchInHand, DataInv, CollectAnswers
  PROVE  DataInv'
<1> USE DEF At, Goto
<1> DEFINE collected == collect_nd_compute(config.mesh, [w \in Workers |-> answers[w].rows])
           rows == batch.rows
           n == Len(rows)
<1>1. /\ \A w \in Workers : answers[w].done
      /\ \/ pc = "old_log_prob" /\ pc' = "values" /\ batch' = [batch EXCEPT !.old_log_probs = collected]
         \/ pc = "values" /\ pc' = "adv" /\ batch' = [batch EXCEPT !.values = collected]
      /\ answers' = NoAnswers /\ UNCHANGED << config, validated >>
  BY DEF CollectAnswers, jobVars
<1>2. config \in Configs /\ pc \in Training
  BY <1>1 DEF IInv, TypeInv, Training
<1>3. RowsSound(rows) /\ SizesFit(config, n)
  BY <1>2 DEF DataInv, RowsInv
<1>4. collected = [i \in 1..n |-> RowResult(rows[i])]
  <2>1. \A w \in Workers : answers[w] = Answer(ChunkResults(w))
    BY <1>1 DEF DataInv, AnswersInv
  <2> QED BY <2>1, <1>2, <1>3, CollectedResults
<1> HIDE DEF collected
<1>5. batch = [field \in BatchFields |-> batch[field]]
  BY <1>2 DEF BatchInHand
<1>6. batch'.rows = rows
  BY <1>1, <1>5 DEF BatchFields
<1>9. /\ pc' \in {"values", "adv"}
      /\ pc' = "values" => batch'.values = << >>
      /\ batch'.old_log_probs # << >> => batch'.old_log_probs = [i \in 1..n |-> LogProb(rows[i])]
      /\ batch'.values # << >> => batch'.values = [i \in 1..n |-> Values(rows[i])]
  <2>1. CASE pc = "old_log_prob"
    <3>1. /\ pc' = "values" /\ batch'.old_log_probs = [i \in 1..n |-> LogProb(rows[i])]
          /\ batch'.values = << >>
      <4>1. batch'.old_log_probs = collected /\ batch'.values = batch.values
        BY <1>1, <1>5, <2>1 DEF BatchFields
      <4>2. collected = [i \in 1..n |-> LogProb(rows[i])]
        BY <1>4, <2>1 DEF RowResult
      <4>3. batch.values = << >> /\ pc' = "values"
        BY <1>1, <1>2, <2>1 DEF DataInv, RowsInv
      <4> QED BY <4>1, <4>2, <4>3
    <3> QED BY <3>1
  <2>2. CASE pc = "values"
    <3>1. batch'.values = collected /\ batch'.old_log_probs = batch.old_log_probs
      BY <1>1, <1>5, <2>2 DEF BatchFields
    <3>2. collected = [i \in 1..n |-> Values(rows[i])]
      BY <1>4, <2>2 DEF RowResult
    <3>3. batch.old_log_probs # << >> =>
            batch.old_log_probs = [i \in 1..n |-> LogProb(rows[i])]
      BY <1>2 DEF DataInv, RowsInv
    <3>4. pc' = "adv"
      BY <1>1, <2>2
    <3> QED BY <3>1, <3>2, <3>3, <3>4
  <2> QED BY <1>1, <2>1, <2>2
<1>10. RowsInv'
  <2>1. RowsSound(batch.rows)' /\ SizesFit(config, Len(batch.rows))'
    BY <1>1, <1>3, <1>6 DEF RowsSound, SizesFit
  <2>2. Len(batch'.rows) = n /\ batch'.rows = rows
    BY <1>6
  <2>3. /\ batch'.old_log_probs # << >> =>
             batch'.old_log_probs = [i \in 1..Len(batch'.rows) |-> LogProb(batch'.rows[i])]
        /\ batch'.values # << >> =>
             batch'.values = [i \in 1..Len(batch'.rows) |-> Values(batch'.rows[i])]
    BY <1>9, <2>2
  <2> QED BY <1>9, <2>1, <2>3 DEF RowsInv, LogProb, Values
<1>11. AnswersInv'
  <2>1. answers' = [w \in Workers' |-> NoAnswer] /\ NoAnswers' = NoAnswers
    BY <1>1 DEF NoAnswers, Workers
  <2>2. \A w \in Workers' : ~answers'[w].done
    BY <2>1 DEF NoAnswer
  <2>3. answers' = [w \in Workers' |-> answers'[w]]
    BY <2>1
  <2> QED BY <1>1, <2>1, <2>2, <2>3 DEF AnswersInv
<1>12. ValidatedInv'
  BY <1>1 DEF DataInv, ValidatedInv
<1> QED BY <1>10, <1>11, <1>12 DEF DataInv

LEMMA DataInit == Init => DataInv
  BY DEF Init, DataInv, RowsInv, AnswersInv, ValidatedInv, Training

LEMMA DataStep ==
  ASSUME IInv, BatchInHand, DataInv, [Next]_vars
  PROVE  DataInv'
<1> USE DEF At, Goto
<1>0. config \in Configs /\ config' = config
  BY ConfigFixed DEF IInv, TypeInv
<1>1. Workers' = Workers /\ NoAnswers' = NoAnswers
  BY <1>0 DEF Workers, NoAnswers
\* outside a batch, with no answers and nothing or the whole validated
<1>2. ASSUME pc' \notin Training, answers' = NoAnswers, UNCHANGED validated \/ validated' = << >>
      PROVE  DataInv'
  <2>1. AnswersInv'
    BY <1>1, <1>2 DEF AnswersInv, Training
  <2>2. ValidatedInv'
    BY <1>0, <1>2 DEF DataInv, ValidatedInv
  <2>3. RowsInv'
    BY <1>2 DEF RowsInv
  <2> QED BY <2>1, <2>2, <2>3 DEF DataInv
<1>3. pc \notin Training => answers = NoAnswers
  BY DEF DataInv, AnswersInv, Training
<1>4. CASE _balance_batch
  BY <1>4, BalanceStep
<1>5. CASE \E w \in Workers : WorkerComputes(w)
  BY <1>5, WorkerStep
<1>6. CASE CollectAnswers
  BY <1>6, CollectStep
<1>7. CASE compute_advantage
  <2>1. PICK advantages : batch' = [batch EXCEPT !.advantages = advantages]
    BY <1>7 DEF compute_advantage
  <2>2. /\ pc = "adv" /\ pc' = "update" /\ UNCHANGED << answers, validated >>
    BY <1>7 DEF compute_advantage
  <2>3. batch = [field \in BatchFields |-> batch[field]]
    BY <2>2 DEF BatchInHand, Training
  <2>4. UNCHANGED << batch.rows, batch.old_log_probs, batch.values >>
    BY <2>1, <2>3 DEF BatchFields
  <2>5. RowsInv'
    <3>1. RowsInv /\ pc \in Training /\ pc' \in Training
      BY <2>2 DEF DataInv, Training
    <3> QED BY <3>1, <2>2, <2>4, <1>0 DEF RowsInv, RowsSound, SizesFit, LogProb, Values
  <2>6. AnswersInv'
    BY <1>1, <2>2 DEF DataInv, AnswersInv
  <2>7. ValidatedInv'
    BY <1>0, <2>2 DEF DataInv, ValidatedInv
  <2> QED BY <2>5, <2>6, <2>7 DEF DataInv
<1>8. CASE Generate
  <2>1. /\ pc = "next_batch" /\ pc' = "balance" /\ UNCHANGED answers /\ validated' = << >>
    BY <1>8 DEF Generate
  <2>2. /\ RowsSound(batch'.rows) /\ SizesFit(config, Len(batch'.rows))
        /\ \A i \in 1..Len(batch'.rows) : batch'.rows[i].row = i
        /\ batch'.old_log_probs = << >> /\ batch'.values = << >>
    BY <1>0, <1>8, GeneratedRows
  <2>3. RowsSound(batch.rows)' /\ SizesFit(config, Len(batch.rows))'
    BY <1>0, <2>2 DEF RowsSound, SizesFit
  <2>4. RowsInv'
    BY <2>2, <2>3 DEF RowsInv
  <2>5. AnswersInv'
    BY <1>1, <1>3, <2>1 DEF AnswersInv, Training
  <2>6. ValidatedInv'
    BY <2>1 DEF ValidatedInv
  <2> QED BY <2>4, <2>5, <2>6 DEF DataInv
<1>9. CASE UpdateModels
  <2>1. pc = "update" /\ pc' \in {"validate", "save"} /\ UNCHANGED << answers, validated >>
    BY <1>9 DEF UpdateModels
  <2>2. answers = NoAnswers /\ pc' \notin Training
    BY <2>1 DEF DataInv, AnswersInv, Training
  <2> QED BY <1>2, <2>1, <2>2
<1>10. CASE StartLoop \/ EndStep
  <2>1. /\ validated' \in {Validation, << >>} /\ UNCHANGED answers
        /\ pc \notin Training /\ pc' \notin Training
    BY <1>10 DEF StartLoop, EndStep, batchVars, Training
  <2>2. validated' \in {config.val_rows, << >>}
    BY <1>0, <2>1, ValidationIs
  <2>3. ValidatedInv'
    BY <1>0, <2>2 DEF ValidatedInv
  <2>4. AnswersInv'
    BY <1>1, <1>3, <2>1 DEF AnswersInv, Training
  <2>5. RowsInv'
    BY <2>1 DEF RowsInv
  <2> QED BY <2>3, <2>4, <2>5 DEF DataInv
<1>11. CASE Restart
  <2>1. pc' = "load" /\ answers' = NoAnswers' /\ validated' = << >>
    BY <1>0, <1>1, <1>11 DEF Restart
  <2>2. pc' \notin Training
    BY <2>1 DEF Training
  <2> QED BY <1>1, <1>2, <2>1, <2>2
<1>12. CASE Between /\ ~StartLoop /\ ~EndStep /\ ~Restart
  <2>1. pc \notin Training /\ pc' \notin Training /\ UNCHANGED << answers, validated >>
    <3>1. CASE StartFromScratch \/ ResumeFromCheckpoint \/ ResumeFails
      BY <3>1 DEF StartFromScratch, ResumeFromCheckpoint, ResumeFails, batchVars, Training
    <3>2. CASE UpdateWeightsInPlace \/ UpdateWeights \/ Transfer \/ FinishUpdateWeights
      BY <3>2 DEF UpdateWeightsInPlace, UpdateWeights, Transfer, FinishUpdateWeights, batchVars,
                  driverVars, AfterSync, Training
    <3>3. CASE StartEpoch \/ EndEpoch
      BY <3>3 DEF StartEpoch, EndEpoch, batchVars, Training
    <3>4. CASE _save_checkpoint \/ Saving
      BY <3>4 DEF _save_checkpoint, Saving, batchVars, Training
    <3> QED BY <1>12, <3>1, <3>2, <3>3, <3>4 DEF Between
  <2> QED BY <1>2, <1>3, <2>1
<1>13. CASE UNCHANGED vars
  <2>1. UNCHANGED << pc, batch, config, answers, validated >>
    BY <1>13 DEF vars, batchVars, driverVars, jobVars
  <2> QED BY <2>1 DEF DataInv, RowsInv, RowsSound, SizesFit, LogProb, Values, AnswersInv, NoAnswers,
             Workers, ChunkResults, Chunks, RowResult, Answer, At, ValidatedInv
<1> QED
  BY <1>4, <1>5, <1>6, <1>7, <1>8, <1>9, <1>10, <1>11, <1>12, <1>13, NextCases DEF InStep

LEMMA RowsOfInvariant ==
  ASSUME BatchInHand, RowsInv, ValidatedInv
  PROVE  RowsKeepTheirResults
<1>1. ASSUME batch # NoBatch
      PROVE  /\ { batch.rows[i].row : i \in DOMAIN batch.rows } = DOMAIN batch.rows
             /\ \A i \in DOMAIN batch.rows :
                  /\ batch.old_log_probs # << >> => batch.old_log_probs[i] = LogProb(batch.rows[i])
                  /\ batch.values # << >> => batch.values[i] = Values(batch.rows[i])
                  /\ batch.rows[i].uid = (batch.rows[i].row - 1) \div config.n + 1
  <2> DEFINE rows == batch.rows
             n == Len(rows)
             numbers == [i \in 1..n |-> rows[i].row]
             S == 1..n
  <2>1. pc \in Training
    BY <1>1 DEF BatchInHand
  <2>2. RowsSound(rows)
    BY <2>1 DEF RowsInv
  <2>3. n \in Nat /\ DOMAIN rows = S /\ Lists(numbers, S)
    BY <2>2 DEF RowsSound
  <2>4. /\ batch.old_log_probs # << >> => batch.old_log_probs = [i \in S |-> LogProb(rows[i])]
        /\ batch.values # << >> => batch.values = [i \in S |-> Values(rows[i])]
    BY <2>1 DEF RowsInv
  <2>5. \A i \in S : rows[i].uid = (rows[i].row - 1) \div config.n + 1
    BY <2>2 DEF RowsSound
  <2>6. \A i \in S : numbers[i] = rows[i].row
    OBVIOUS
  <2>7. Len(numbers) = n /\ S = 1..n
    BY <2>3
  <2> HIDE DEF numbers, S, n, rows
  <2>8. { rows[i].row : i \in S } = S
    <3>1. \A i \in S : numbers[i] \in S
      BY <2>3, <2>7, ListsEntries
    <3>2. \A x \in S : \E i \in S : numbers[i] = x
      BY <2>3, <2>7 DEF Lists
    <3> QED BY <3>1, <3>2, <2>6
  <2>10. DOMAIN batch.rows = S /\ rows = batch.rows
    BY <2>3 DEF rows
  <2>11. { batch.rows[i].row : i \in DOMAIN batch.rows } = DOMAIN batch.rows
    BY <2>8, <2>10
  <2>12. \A i \in DOMAIN batch.rows : batch.rows[i].uid = (batch.rows[i].row - 1) \div config.n + 1
    BY <2>5, <2>10
  <2>13. ASSUME NEW i \in DOMAIN batch.rows
         PROVE  /\ batch.old_log_probs # << >> => batch.old_log_probs[i] = LogProb(batch.rows[i])
                /\ batch.values # << >> => batch.values[i] = Values(batch.rows[i])
    <3>1. i \in S
      BY <2>10
    <3>2. /\ batch.old_log_probs # << >> => batch.old_log_probs[i] = LogProb(rows[i])
          /\ batch.values # << >> => batch.values[i] = Values(rows[i])
      BY <3>1, <2>4
    <3> QED BY <3>2 DEF rows
  <2> QED BY <2>11, <2>12, <2>13
<1> QED BY <1>1 DEF RowsKeepTheirResults, ValidatedInv

(* Balancing, dispatch, micro-batching and collecting lose, repeat and mix *)
(* no row, and validation none of its padding, for batches of any size and *)
(* responses of any length.                                                *)
THEOREM RowsCorrect == Spec => []RowsKeepTheirResults
<1>1. Spec => [](IInv /\ BatchInHand /\ ReplicasTyped)
  BY HandAlways
<1>2. Init => DataInv
  BY DataInit
<1>3. IInv /\ BatchInHand /\ DataInv /\ [Next]_vars => DataInv'
  BY DataStep
<1>4. BatchInHand /\ DataInv => RowsKeepTheirResults
  BY RowsOfInvariant DEF DataInv
<1> QED
  BY <1>1, <1>2, <1>3, <1>4, PTL DEF Spec

=============================================================================
