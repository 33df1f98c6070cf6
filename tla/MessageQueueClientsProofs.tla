---------------------- MODULE MessageQueueClientsProofs ----------------------
(***************************************************************************)
(* Proofs about MessageQueueClients: for any number of consumers and any   *)
(* queue size the message queue keeps its order, forgets no waiting        *)
(* consumer and implements the stream of SampleStream.                     *)
(***************************************************************************)
EXTENDS MessageQueueClients, SequenceTheorems, TLAPS

(***************************************************************************)
(* What a consumer's call can be doing, and the effect of notify_all.      *)
(***************************************************************************)
LEMMA NotifyConsumersType ==
  ASSUME getter \in [Consumers -> {"idle", "waiting", "woken", "closed"}]
  PROVE  /\ NotifyConsumers(getter) \in [Consumers -> {"idle", "waiting", "woken", "closed"}]
         /\ \A c \in Consumers : NotifyConsumers(getter)[c] # "waiting"
  BY DEF NotifyConsumers

(***************************************************************************)
(* The deque after put_sample: one longer, or as long when it was full,    *)
(* and every element but the new one was there before.                     *)
(***************************************************************************)
LEMMA PutSampleElements ==
  ASSUME QueueTypeOK, FreshestRun, NEW n \in Nat, PutSample(n)
  PROVE  /\ queue' \in Seq(Nat)
         /\ Len(queue') = IF QueueFull THEN Len(queue) ELSE Len(queue) + 1
         /\ \A i \in 1..(Len(queue') - 1) :
              queue'[i] = IF QueueFull THEN queue[i + 1] ELSE queue[i]
         /\ queue'[Len(queue')] = n
<1>1. MaxQueueSize \in Nat \ {0}
  BY MaxQueueSizeAssumption
<1>2. queue \in Seq(Nat) /\ Len(queue) \in Nat
  BY DEF QueueTypeOK
<1>3. CASE QueueFull
  <2>1. queue # << >>
    BY <1>1, <1>2, <1>3 DEF QueueFull
  <2>2. /\ Tail(queue) \in Seq(Nat)
        /\ Len(Tail(queue)) = Len(queue) - 1
        /\ \A i \in 1..Len(Tail(queue)) : Tail(queue)[i] = queue[i + 1]
    BY <1>2, <2>1
  <2>3. queue' = Append(Tail(queue), n)
    BY <1>3 DEF PutSample
  <2> QED BY <1>2, <1>3, <2>1, <2>2, <2>3
<1>4. CASE ~QueueFull
  <2>1. queue' = Append(queue, n)
    BY <1>4 DEF PutSample
  <2> QED BY <1>2, <1>4, <2>1
<1> QED BY <1>3, <1>4

-----------------------------------------------------------------------------
(***************************************************************************)
(* The inductive invariant.  DeliveredInOrder alone is not inductive: that *)
(* the next element is later than all delivered ones needs FreshestRun.    *)
(***************************************************************************)
QueueInv == QueueTypeOK /\ FreshestRun /\ DeliveredInOrder /\ NoSleepingConsumer

(***************************************************************************)
(* The new actor satisfies the invariant.                                  *)
(***************************************************************************)
LEMMA QueueInvInit == QueueInit => QueueInv
<1> SUFFICES ASSUME QueueInit PROVE QueueInv
  OBVIOUS
<1>1. queue = << >> /\ delivered = << >> /\ Len(queue) = 0 /\ Len(delivered) = 0
  BY DEF QueueInit, MQInit
<1>2. QueueTypeOK
  BY DEF QueueInit, MQInit, QueueTypeOK
<1>3. FreshestRun
  BY <1>1, MaxQueueSizeAssumption DEF FreshestRun
<1>4. DeliveredInOrder
  BY <1>1 DEF DeliveredInOrder
<1>5. NoSleepingConsumer
  BY <1>1 DEF NoSleepingConsumer, QueueInit
<1> QED BY <1>2, <1>3, <1>4, <1>5 DEF QueueInv

(***************************************************************************)
(* put_sample keeps the invariant.                                         *)
(***************************************************************************)
LEMMA QueueInvPut == QueueInv /\ Put => QueueInv'
<1> SUFFICES ASSUME QueueInv, Put PROVE QueueInv'
  OBVIOUS
<1> USE DEF QueueInv
<1>0. total_produced + 1 \in Nat /\ PutSample(total_produced + 1)
  BY DEF QueueTypeOK, Put
<1>1. /\ queue' \in Seq(Nat)
      /\ Len(queue') = IF QueueFull THEN Len(queue) ELSE Len(queue) + 1
      /\ \A i \in 1..(Len(queue') - 1) :
           queue'[i] = IF QueueFull THEN queue[i + 1] ELSE queue[i]
      /\ queue'[Len(queue')] = total_produced + 1
  BY <1>0, PutSampleElements
<1>2. total_produced' = total_produced + 1
  BY <1>0 DEF PutSample
<1>3. Len(queue) \in Nat /\ MaxQueueSize \in Nat \ {0} /\ total_produced \in Nat
  BY MaxQueueSizeAssumption DEF QueueTypeOK
<1>4. QueueTypeOK'
  BY <1>0, <1>1, NotifyConsumersType DEF QueueTypeOK, Put, PutSample
<1>5. FreshestRun'
  <2>1. Len(queue') <= MaxQueueSize
    BY <1>1, <1>3 DEF QueueFull, FreshestRun
  <2>2. ASSUME NEW i \in 1..Len(queue')
        PROVE  queue'[i] = total_produced' - Len(queue') + i
    <3>1. CASE i = Len(queue')
      BY <1>1, <1>2, <1>3, <3>1
    <3>2. CASE i # Len(queue')
      <4>1. i \in 1..(Len(queue') - 1)
        BY <1>1, <3>2
      <4>2. CASE QueueFull
        <5>1. i + 1 \in 1..Len(queue) /\ queue'[i] = queue[i + 1]
          BY <1>1, <1>3, <4>1, <4>2
        <5> QED BY <1>1, <1>2, <1>3, <4>2, <5>1 DEF FreshestRun
      <4>3. CASE ~QueueFull
        <5>1. i \in 1..Len(queue) /\ queue'[i] = queue[i]
          BY <1>1, <1>3, <4>1, <4>3
        <5> QED BY <1>1, <1>2, <1>3, <4>3, <5>1 DEF FreshestRun
      <4> QED BY <4>2, <4>3
    <3> QED BY <3>1, <3>2
  <2> QED BY <2>1, <2>2 DEF FreshestRun
<1>6. DeliveredInOrder'
  <2>1. delivered' = delivered
    BY DEF Put
  <2>2. delivered \in Seq(Nat) /\ Len(delivered) \in Nat
    BY DEF QueueTypeOK
  <2>3. /\ Len(queue') \in Nat /\ total_produced' \in Nat
        /\ total_produced - Len(queue) <= total_produced' - Len(queue')
    BY <1>1, <1>2, <1>3
  <2>4. ASSUME NEW i \in 1..Len(delivered)
        PROVE  delivered[i] <= total_produced' - Len(queue')
    <3>1. delivered[i] \in Nat /\ delivered[i] <= total_produced - Len(queue)
      BY <2>2 DEF DeliveredInOrder
    <3> QED BY <1>3, <2>3, <3>1
  <2> QED BY <2>1, <2>4 DEF DeliveredInOrder
<1>7. NoSleepingConsumer'
  BY NotifyConsumersType DEF NoSleepingConsumer, QueueTypeOK, Put
<1> QED BY <1>4, <1>5, <1>6, <1>7

(***************************************************************************)
(* So does a get_sample that returns an element.                           *)
(***************************************************************************)
LEMMA QueueInvGetReturn ==
  ASSUME NEW c \in Consumers, QueueInv, GetReturn(c)
  PROVE  QueueInv'
<1> USE DEF QueueInv
<1>1. queue \in Seq(Nat) /\ queue # << >> /\ queue' = Tail(queue)
  BY DEF QueueTypeOK, GetReturn, GetSample
<1>2. /\ Tail(queue) \in Seq(Nat)
      /\ Len(queue) \in Nat \ {0}
      /\ Len(queue') = Len(queue) - 1
      /\ \A i \in 1..Len(queue') : queue'[i] = queue[i + 1]
      /\ Head(queue) = queue[1] /\ Head(queue) \in Nat
  BY <1>1
<1>3. total_produced' = total_produced /\ total_produced \in Nat
  BY DEF QueueTypeOK, GetReturn, GetSample
<1>4. Head(queue) = total_produced - Len(queue) + 1
  BY <1>2, <1>3 DEF FreshestRun
<1>5. QueueTypeOK'
  BY <1>1, <1>2 DEF QueueTypeOK, GetReturn, GetSample
<1>6. FreshestRun'
  <2>1. Len(queue') <= MaxQueueSize
    BY <1>2, MaxQueueSizeAssumption DEF FreshestRun
  <2>2. ASSUME NEW i \in 1..Len(queue')
        PROVE  queue'[i] = total_produced' - Len(queue') + i
    <3>1. i + 1 \in 1..Len(queue)
      BY <1>2
    <3> QED BY <1>2, <1>3, <3>1 DEF FreshestRun
  <2> QED BY <2>1, <2>2 DEF FreshestRun
<1>7. DeliveredInOrder'
  <2>1. delivered' = Append(delivered, Head(queue)) /\ delivered \in Seq(Nat)
    BY DEF QueueTypeOK, GetReturn
  <2>2. /\ Len(delivered') = Len(delivered) + 1 /\ Len(delivered) \in Nat
        /\ \A i \in 1..Len(delivered) : delivered'[i] = delivered[i] /\ delivered[i] \in Nat
        /\ delivered'[Len(delivered')] = Head(queue)
    BY <1>2, <2>1
  <2>3. \A i \in 1..Len(delivered) : delivered[i] < Head(queue)
    BY <1>2, <1>3, <1>4, <2>2 DEF DeliveredInOrder
  <2>4. ASSUME NEW i \in 1..Len(delivered'), NEW j \in 1..Len(delivered'), i < j
        PROVE  delivered'[i] < delivered'[j]
    <3>1. i \in 1..Len(delivered)
      BY <2>2, <2>4
    <3>2. CASE j = Len(delivered')
      BY <2>2, <2>3, <3>1, <3>2
    <3>3. CASE j # Len(delivered')
      <4>1. j \in 1..Len(delivered)
        BY <2>2, <3>3
      <4> QED BY <2>2, <2>4, <3>1, <4>1 DEF DeliveredInOrder
    <3> QED BY <3>2, <3>3
  <2>5. ASSUME NEW i \in 1..Len(delivered')
        PROVE  delivered'[i] <= total_produced' - Len(queue')
    <3>1. CASE i = Len(delivered')
      BY <1>2, <1>3, <1>4, <2>2, <3>1
    <3>2. CASE i # Len(delivered')
      <4>1. i \in 1..Len(delivered)
        BY <2>2, <3>2
      <4> QED BY <1>2, <1>3, <1>4, <2>2, <2>3, <4>1
    <3> QED BY <3>1, <3>2
  <2> QED BY <2>4, <2>5 DEF DeliveredInOrder
<1>8. NoSleepingConsumer'
  BY <1>1 DEF NoSleepingConsumer, QueueTypeOK, GetReturn
<1> QED BY <1>5, <1>6, <1>7, <1>8

(***************************************************************************)
(* Every step keeps the invariant.                                         *)
(***************************************************************************)
LEMMA QueueInvNext == QueueInv /\ [QueueNext]_queueVars => QueueInv'
<1> SUFFICES ASSUME QueueInv, [QueueNext]_queueVars PROVE QueueInv'
  OBVIOUS
<1> USE DEF QueueInv
<1>1. CASE Put
  BY <1>1, QueueInvPut
<1>2. ASSUME NEW c \in Consumers, GetWait(c) PROVE QueueInv'
  <2>1. UNCHANGED << mqVars, open, delivered >>
    BY <1>2 DEF GetWait
  <2>2. QueueTypeOK' /\ FreshestRun' /\ DeliveredInOrder'
    BY <1>2, <2>1 DEF GetWait, QueueTypeOK, FreshestRun, DeliveredInOrder, mqVars
  <2>3. NoSleepingConsumer'
    BY <1>2, <2>1 DEF GetWait, MustWait, NoSleepingConsumer, mqVars
  <2> QED BY <2>2, <2>3
<1>3. ASSUME NEW c \in Consumers, GetReturn(c) PROVE QueueInv'
  BY <1>3, QueueInvGetReturn
<1>4. ASSUME NEW c \in Consumers, GetClosed(c) PROVE QueueInv'
  <2>1. UNCHANGED << mqVars, open, delivered >>
    BY <1>4 DEF GetClosed
  <2>2. QueueTypeOK' /\ FreshestRun' /\ DeliveredInOrder'
    BY <1>4, <2>1 DEF GetClosed, QueueTypeOK, FreshestRun, DeliveredInOrder, mqVars
  <2>3. NoSleepingConsumer'
    BY <1>4, <2>1 DEF GetClosed, NoSleepingConsumer, QueueTypeOK, mqVars
  <2> QED BY <2>2, <2>3
<1>5. CASE ClearQueue
  <2>1. queue' = << >> /\ Len(queue') = 0 /\ Len(queue) \in Nat /\ total_produced \in Nat
        /\ UNCHANGED << total_produced, delivered, open, getter >>
    BY <1>5 DEF ClearQueue, clientVars, QueueTypeOK
  <2>2. QueueTypeOK'
    BY <1>5, <2>1 DEF ClearQueue, clientVars, QueueTypeOK
  <2>3. FreshestRun'
    BY <2>1, MaxQueueSizeAssumption DEF FreshestRun
  <2>4. DeliveredInOrder'
    <3>1. delivered \in Seq(Nat) /\ Len(delivered) \in Nat
      BY DEF QueueTypeOK
    <3> QED BY <2>1, <3>1 DEF DeliveredInOrder
  <2>5. NoSleepingConsumer'
    BY <1>5, <2>1 DEF ClearQueue, NoSleepingConsumer
  <2> QED BY <2>2, <2>3, <2>4, <2>5
<1>6. CASE Shutdown
  <2>1. UNCHANGED << mqVars, delivered >>
    BY <1>6 DEF Shutdown
  <2>2. QueueTypeOK' /\ FreshestRun' /\ DeliveredInOrder'
    BY <1>6, <2>1, NotifyConsumersType
    DEF Shutdown, QueueTypeOK, FreshestRun, DeliveredInOrder, mqVars
  <2>3. NoSleepingConsumer'
    BY <1>6, NotifyConsumersType DEF Shutdown, NoSleepingConsumer, QueueTypeOK
  <2> QED BY <2>2, <2>3
<1>7. CASE UNCHANGED queueVars
  BY <1>7 DEF queueVars, mqVars, clientVars, QueueTypeOK, FreshestRun, DeliveredInOrder,
              NoSleepingConsumer
<1> QED BY <1>1, <1>2, <1>3, <1>4, <1>5, <1>6, <1>7 DEF QueueNext, Get

LEMMA QueueInvariant == QueueSpec => []QueueInv
  BY QueueInvInit, QueueInvNext, PTL DEF QueueSpec

-----------------------------------------------------------------------------
(***************************************************************************)
(* Every variable keeps its type.                                          *)
(***************************************************************************)
THEOREM QueueTypeCorrect == QueueSpec => []QueueTypeOK
<1>1. QueueInv => QueueTypeOK
  BY DEF QueueInv
<1> QED BY <1>1, QueueInvariant, PTL

(***************************************************************************)
(* The deque is the latest run of what was put, gap-free and bounded.      *)
(***************************************************************************)
THEOREM FreshestRunCorrect == QueueSpec => []FreshestRun
<1>1. QueueInv => FreshestRun
  BY DEF QueueInv
<1> QED BY <1>1, QueueInvariant, PTL

(***************************************************************************)
(* Consumers get elements in order and at most once.                       *)
(***************************************************************************)
THEOREM DeliveryCorrect == QueueSpec => []DeliveredInOrder
<1>1. QueueInv => DeliveredInOrder
  BY DEF QueueInv
<1> QED BY <1>1, QueueInvariant, PTL

(***************************************************************************)
(* No consumer waits while there is an element or the queue is closed.     *)
(***************************************************************************)
THEOREM WakeupCorrect == QueueSpec => []NoSleepingConsumer
<1>1. QueueInv => NoSleepingConsumer
  BY DEF QueueInv
<1> QED BY <1>1, QueueInvariant, PTL

(***************************************************************************)
(* The message queue implements SampleStream: put_sample is Send, a        *)
(* get_sample that returns is Deliver, clear_queue is Purge, and waiting,  *)
(* waking and closing are stutters.                                        *)
(***************************************************************************)
THEOREM StreamRefinement == QueueSpec => StreamSpecRefined
<1>1. QueueInit => Stream!StreamInit
  BY DEF QueueInit, MQInit, Stream!StreamInit
<1>2. QueueInv /\ [QueueNext]_queueVars => [Stream!StreamNext]_(Stream!streamVars)
  <2> SUFFICES ASSUME QueueInv, [QueueNext]_queueVars
               PROVE  [Stream!StreamNext]_(Stream!streamVars)
    OBVIOUS
  <2> USE DEF QueueInv
  <2>0. Len(queue) \in Nat /\ total_produced \in Nat /\ MaxQueueSize \in Nat \ {0}
    BY MaxQueueSizeAssumption DEF QueueTypeOK
  <2>1. CASE Put
    <3>1. /\ Len(queue') = IF QueueFull THEN Len(queue) ELSE Len(queue) + 1
          /\ total_produced' = total_produced + 1
      BY <2>0, <2>1, PutSampleElements DEF Put, PutSample
    <3>2. Stream!Send
      BY <2>0, <2>1, <3>1 DEF Stream!Send, QueueFull, Put
    <3> QED BY <3>2 DEF Stream!StreamNext
  <2>2. ASSUME NEW c \in Consumers, Get(c) PROVE [Stream!StreamNext]_(Stream!streamVars)
    <3>1. CASE GetReturn(c)
      <4>1. queue \in Seq(Nat) /\ queue # << >> /\ queue' = Tail(queue)
            /\ total_produced' = total_produced
            /\ delivered' = Append(delivered, Head(queue))
        BY <3>1 DEF QueueTypeOK, GetReturn, GetSample
      <4>2. Len(queue) \in Nat \ {0} /\ Len(queue') = Len(queue) - 1
        BY <4>1
      <4>3. Head(queue) = total_produced - Len(queue) + 1
        BY <2>0, <4>1, <4>2 DEF FreshestRun
      <4>4. Stream!Deliver
        BY <2>0, <4>1, <4>2, <4>3 DEF Stream!Deliver
      <4> QED BY <4>4 DEF Stream!StreamNext
    <3>2. CASE GetWait(c) \/ GetClosed(c)
      BY <3>2 DEF GetWait, GetClosed, mqVars, Stream!streamVars
    <3> QED BY <2>2, <3>1, <3>2 DEF Get
  <2>3. CASE ClearQueue
    <3>1. Len(queue') = 0 /\ total_produced' = total_produced /\ delivered' = delivered
      BY <2>3 DEF ClearQueue, clientVars
    <3>2. Stream!Purge
      BY <2>0, <3>1 DEF Stream!Purge
    <3> QED BY <3>2 DEF Stream!StreamNext
  <2>4. CASE Shutdown \/ UNCHANGED queueVars
    BY <2>4 DEF Shutdown, queueVars, clientVars, mqVars, Stream!streamVars
  <2> QED BY <2>1, <2>2, <2>3, <2>4 DEF QueueNext
<1> QED BY <1>1, <1>2, QueueInvariant, PTL DEF QueueSpec, StreamSpecRefined, Stream!StreamSpec

=============================================================================
