---------------------------- MODULE MessageQueue ----------------------------
(***************************************************************************)
(* The MessageQueue actor of verl's fully asynchronous policy trainer      *)
(* (fully_async_policy/message_queue.py): the bounded buffer between the   *)
(* Rollouter, which puts finished samples, and the Trainer, which gets     *)
(* them one at a time, plus the side channel on which the Rollouter        *)
(* publishes validation metrics.                                           *)
(*                                                                         *)
(* Every method of the actor runs under one asyncio lock and awaits        *)
(* nothing while it holds it (except get_sample, which waits for an        *)
(* element), so each is one atomic step.  The operators below are those    *)
(* steps; the modules that use the queue conjoin them with what the caller *)
(* does.                                                                   *)
(***************************************************************************)
EXTENDS Integers, Sequences

CONSTANT MaxQueueSize    \* max_queue_size: the deque never holds more

ASSUME MaxQueueSizeAssumption == MaxQueueSize \in Nat \ {0}

VARIABLES
  queue,              \* the deque, oldest element first
  total_produced,     \* put_sample calls served
  total_consumed,     \* elements handed to a consumer
  dropped_samples,    \* elements overwritten because the deque was full
  mq_param_version,   \* MessageQueue.current_param_version
  val_queue           \* versions whose validation metrics wait for the Trainer

mqVars == << queue, total_produced, total_consumed, dropped_samples,
             mq_param_version, val_queue >>

QueueFull == Len(queue) >= MaxQueueSize

MQInit ==
  /\ queue = << >>
  /\ total_produced = 0
  /\ total_consumed = 0
  /\ dropped_samples = 0
  /\ mq_param_version = 0
  /\ val_queue = << >>

\* Variant: a full deque refuses the new element instead of dropping the oldest.
PutSampleRefused(entry) ==
  /\ queue' = IF QueueFull THEN queue ELSE Append(queue, entry)
  /\ total_produced' = total_produced + 1
  /\ dropped_samples' = IF QueueFull THEN dropped_samples + 1 ELSE dropped_samples
  /\ UNCHANGED << total_consumed, mq_param_version, val_queue >>

(***************************************************************************)
(* put_sample: a full deque loses its OLDEST element to the new one.  The  *)
(* call reports FALSE when that happened, although the new element is in.  *)
(***************************************************************************)
PutSample(entry) ==
  /\ queue' = Append(IF QueueFull THEN Tail(queue) ELSE queue, entry)
  /\ total_produced' = total_produced + 1
  /\ dropped_samples' = IF QueueFull THEN dropped_samples + 1 ELSE dropped_samples
  /\ UNCHANGED << total_consumed, mq_param_version, val_queue >>

\* Variant: the element is read and stays in the deque.
GetSampleKept ==
  /\ queue # << >>
  /\ total_consumed' = total_consumed + 1
  /\ UNCHANGED << queue, total_produced, dropped_samples, mq_param_version, val_queue >>

(***************************************************************************)
(* The part of get_sample after its wait: there is an element to take.     *)
(***************************************************************************)
GetSample ==
  /\ queue # << >>
  /\ queue' = Tail(queue)
  /\ total_consumed' = total_consumed + 1
  /\ UNCHANGED << total_produced, dropped_samples, mq_param_version, val_queue >>

UpdateQueueVersion(version) ==
  /\ mq_param_version' = version
  /\ UNCHANGED << queue, total_produced, total_consumed, dropped_samples, val_queue >>

PutValidate(data) ==
  /\ val_queue' = Append(val_queue, data)
  /\ UNCHANGED << queue, total_produced, total_consumed, dropped_samples, mq_param_version >>

(***************************************************************************)
(* get_validate never waits: with nothing to return it returns None.       *)
(***************************************************************************)
GetValidate ==
  /\ val_queue' = IF val_queue = << >> THEN << >> ELSE Tail(val_queue)
  /\ UNCHANGED << queue, total_produced, total_consumed, dropped_samples, mq_param_version >>

=============================================================================
