------------------------- MODULE MessageQueueClients -------------------------
(***************************************************************************)
(* The MessageQueue actor with the calls it serves: producers that put,    *)
(* consumers that wait in get_sample on the condition of the actor's lock, *)
(* clear_queue and shutdown.  Elements are numbered in the order in which  *)
(* they are put.                                                           *)
(*                                                                         *)
(* The actor is created with max_concurrency calls at a time, and a        *)
(* consumer that waits occupies one of them.                               *)
(***************************************************************************)
EXTENDS MessageQueue, FiniteSets

CONSTANTS
  Consumers,         \* processes that call get_sample
  MaxConcurrency,    \* max_concurrency of the actor (20 in the code)
  MaxPut             \* bound: put_sample calls

ASSUME ClientsAssumption ==
  /\ IsFiniteSet(Consumers)
  /\ MaxConcurrency \in Nat
  /\ Cardinality(Consumers) < MaxConcurrency    \* one consumer, the Trainer, in the code
  /\ MaxPut \in Nat

VARIABLES
  open,         \* MessageQueue.running
  getter,       \* what each consumer's get_sample call is doing
  delivered     \* history: the elements handed out, in order

clientVars == << open, getter, delivered >>
queueVars == << mqVars, clientVars >>

QueueInit ==
  /\ MQInit
  /\ open = TRUE
  /\ getter = [c \in Consumers |-> "idle"]
  /\ delivered = << >>

\* Calls that occupy a slot of the actor.
Calls == {c \in Consumers : getter[c] \in {"waiting", "woken"}}
SlotFree == Cardinality(Calls) < MaxConcurrency

\* A get_sample call that is about to test its loop condition: new, or notified.
CanRun(c) == getter[c] = "woken" \/ (getter[c] = "idle" /\ SlotFree)

\* Variant: notify_all is forgotten.
NotifyNoConsumer(state) == state

\* _consumer_condition.notify_all()
NotifyConsumers(state) == [c \in Consumers |-> IF state[c] = "waiting" THEN "woken" ELSE state[c]]

Put ==
  /\ SlotFree
  /\ total_produced < MaxPut
  /\ PutSample(total_produced + 1)
  /\ getter' = NotifyConsumers(getter)
  /\ UNCHANGED << open, delivered >>

\* The loop condition of get_sample.
MustWait(c) == queue = << >> /\ open

GetWait(c) ==
  /\ CanRun(c)
  /\ MustWait(c)
  /\ getter' = [getter EXCEPT ![c] = "waiting"]
  /\ UNCHANGED << mqVars, open, delivered >>

GetReturn(c) ==
  /\ CanRun(c)
  /\ ~MustWait(c)
  /\ GetSample
  /\ getter' = [getter EXCEPT ![c] = "idle"]
  /\ delivered' = Append(delivered, Head(queue))
  /\ UNCHANGED open

\* get_sample returns None: the queue is closed and empty.
GetClosed(c) ==
  /\ CanRun(c)
  /\ ~MustWait(c)
  /\ queue = << >>
  /\ getter' = [getter EXCEPT ![c] = "closed"]
  /\ UNCHANGED << mqVars, open, delivered >>

\* clear_queue: the elements are gone, and no counter tells.
ClearQueue ==
  /\ SlotFree
  /\ queue # << >>
  /\ queue' = << >>
  /\ UNCHANGED << total_produced, total_consumed, dropped_samples, mq_param_version,
                  val_queue, clientVars >>

\* Variant: the end is marked by an element of its own.
ShutdownBySentinel ==
  /\ SlotFree
  /\ open
  /\ open' = FALSE
  /\ queue' = Append(queue, -1)
  /\ getter' = NotifyConsumers(getter)
  /\ UNCHANGED << total_produced, total_consumed, dropped_samples, mq_param_version,
                  val_queue, delivered >>

Shutdown ==
  /\ SlotFree
  /\ open
  /\ open' = FALSE
  /\ getter' = NotifyConsumers(getter)
  /\ UNCHANGED << mqVars, delivered >>

Get(c) == GetWait(c) \/ GetReturn(c) \/ GetClosed(c)

QueueNext ==
  \/ Put
  \/ \E c \in Consumers : Get(c)
  \/ ClearQueue
  \/ Shutdown

QueueSpec == QueueInit /\ [][QueueNext]_queueVars

\* A call that has a slot and the lock runs.
QueueFairSpec == QueueSpec /\ \A c \in Consumers : WF_queueVars(Get(c))

-----------------------------------------------------------------------------
(***************************************************************************)
(* The type of every variable.                                             *)
(***************************************************************************)
QueueTypeOK ==
  /\ queue \in Seq(Nat)
  /\ total_produced \in Nat
  /\ total_consumed \in Nat
  /\ dropped_samples \in Nat
  /\ mq_param_version \in Nat
  /\ val_queue \in Seq(Nat)
  /\ open \in BOOLEAN
  /\ getter \in [Consumers -> {"idle", "waiting", "woken", "closed"}]
  /\ delivered \in Seq(Nat)

(***************************************************************************)
(* The deque always holds the most recent elements, in order and without a *)
(* gap, and at most max_queue_size of them: an overrun costs the oldest.   *)
(***************************************************************************)
FreshestRun ==
  /\ Len(queue) <= MaxQueueSize
  /\ \A i \in 1..Len(queue) : queue[i] = total_produced - Len(queue) + i

(***************************************************************************)
(* Consumers, however many wait and race after a notify_all, get elements  *)
(* in the order they were put, none twice, and none that is still queued.  *)
(***************************************************************************)
DeliveredInOrder ==
  /\ \A i, j \in 1..Len(delivered) : i < j => delivered[i] < delivered[j]
  /\ \A i \in 1..Len(delivered) : delivered[i] <= total_produced - Len(queue)

(***************************************************************************)
(* No consumer sleeps on while there is an element or the queue is closed: *)
(* each change that could end its wait has notified it.                    *)
(***************************************************************************)
NoSleepingConsumer ==
  queue # << >> \/ ~open => \A c \in Consumers : getter[c] # "waiting"

(***************************************************************************)
(* After shutdown every waiting get_sample returns.                        *)
(***************************************************************************)
ShutdownReleases == ~open ~> (Calls = {})

(***************************************************************************)
(* The queue implements the stream of SampleStream: what get_sample hands  *)
(* out is the next sample of the stream, the oldest not lost.              *)
(***************************************************************************)
Stream == INSTANCE SampleStream WITH
  Capacity <- MaxQueueSize,
  sent <- total_produced,
  next <- total_produced - Len(queue) + 1,
  received <- delivered

StreamSpecRefined == Stream!StreamSpec

=============================================================================
