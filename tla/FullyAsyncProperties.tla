------------------------ MODULE FullyAsyncProperties ------------------------
(***************************************************************************)
(* What fully asynchronous training promises, as properties of the         *)
(* composition in FullyAsync.                                              *)
(***************************************************************************)
EXTENDS FullyAsync

ProcessorStates == {"top", "get", "set_pause", "drain", "await_resume", "limit", "submit",
                    "final_drain", "done", "crashed"}
TrainerStates == {"collect", "update", "wait_last_valid", "sync", "log", "finish",
                  "stopped", "failed"}
Coroutines == {"processor", "monitor", "main", "rpc"}
Entries == [sample : 0..TotalRolloutSteps, version : Nat]

(***************************************************************************)
(* The type of every variable, part by part.                               *)
(***************************************************************************)
QueueTypes ==
  /\ queue \in Seq(Entries)
  /\ total_produced \in Nat
  /\ total_consumed \in Nat
  /\ dropped_samples \in Nat
  /\ mq_param_version \in Nat
  /\ val_queue \in Seq(Nat)

ProcessorTypes ==
  /\ fed \in 0..(TotalRolloutSteps + 1)
  /\ pending_queue \in Seq(0..TotalRolloutSteps)
  /\ processor_pc \in ProcessorStates
  /\ held \in 0..TotalRolloutSteps
  /\ condition_wait \in BOOLEAN
  /\ done_tasks_bound \in BOOLEAN

TaskTypes ==
  /\ running \subseteq Samples
  /\ generating \subseteq running
  /\ interrupted \subseteq running
  /\ putting \subseteq Entries
  /\ finished \in Nat
  /\ finished_failed \in Nat
  /\ failed_samples \subseteq Samples
  /\ cancel_queue \in Seq(Samples)

ControlTypes ==
  /\ servers_paused \in BOOLEAN
  /\ paused \in BOOLEAN
  /\ monitor_loop_trigger \in BOOLEAN
  /\ monitor_pc \in {"sleep", "wake", "stopped"}
  /\ main_pc \in {"stream", "stop", "over"}
  /\ rollouter_running \in BOOLEAN
  /\ staleness_samples \in Nat
  /\ rollout_version \in Nat
  /\ rpc \in {"none", "pause", "gather", "update", "resume"}
  /\ rpc_version \in Nat

TrainerTypes ==
  /\ trainer_pc \in TrainerStates
  /\ batch \subseteq Entries
  /\ trained \subseteq Entries
  /\ local_trigger_step \in 1..TriggerParameterSyncStep
  /\ train_version \in Nat
  /\ sync_pc \in {"idle", "pausing", "transfer"}
  /\ sync_version \in Nat

TypeOK ==
  /\ QueueTypes
  /\ ProcessorTypes
  /\ TaskTypes
  /\ ControlTypes
  /\ lock_queue \in Seq(Coroutines)
  /\ TrainerTypes

-----------------------------------------------------------------------------
(* Where samples are.                                                      *)

InQueue == {queue[i].sample : i \in DOMAIN queue} \ {None}
InPending == {pending_queue[i] : i \in DOMAIN pending_queue} \ {Done}
InCancelQueue == {cancel_queue[i] : i \in DOMAIN cancel_queue}
InHand == {held} \ {None}
InBatch == {e.sample : e \in batch}
InTrained == {e.sample : e \in trained}
FedSamples == 1..(IF fed > TotalRolloutSteps THEN TotalRolloutSteps ELSE fed)

\* Entries of a message queue that are samples, not end signals.
SamplesIn(entries) == Cardinality({i \in DOMAIN entries : entries[i].sample # None})
PendingDone == Cardinality({i \in DOMAIN pending_queue : pending_queue[i] = Done})

\* Copies of samples in the system; equal to the number of samples when there is no duplicate.
Copies ==
  SamplesIn(queue) + (Len(pending_queue) - PendingDone) + Len(cancel_queue)
    + Cardinality(InHand) + Cardinality(running) + Cardinality(batch)
    + Cardinality(trained) + Cardinality(failed_samples)

Located ==
  InQueue \cup InPending \cup InCancelQueue \cup InHand \cup running \cup InBatch
    \cup InTrained \cup failed_samples

(***************************************************************************)
(* Through pauses, interruptions, resubmissions and queue overruns, every  *)
(* sample the feeder made is in exactly one place, and the only ones       *)
(* missing are those dropped_samples counts: nothing is generated twice    *)
(* for training, nothing vanishes between the processor's hand, the task   *)
(* set, the cancel queue and the message queue.                            *)
(***************************************************************************)
SampleConservation ==
  /\ Located \subseteq FedSamples
  /\ Copies = Cardinality(Located)
  /\ Cardinality(FedSamples \ Located) <= dropped_samples
  /\ main_pc = "stream" => Cardinality(FedSamples \ Located) = dropped_samples

\* Samples taken for generation and not yet handed to the Trainer.
Outstanding ==
  Cardinality(InHand) + Cardinality(running) + Len(cancel_queue) + SamplesIn(queue)

(***************************************************************************)
(* The freshness counter never falls behind what is outstanding by more    *)
(* than one: the sample that is in the processor's hand, where             *)
(* update_param_version does not see it, when it recounts.                 *)
(***************************************************************************)
FreshnessCounter == Outstanding <= staleness_samples + 1

(***************************************************************************)
(* Freshness control: what is generated ahead of the Trainer stays within  *)
(* max_required_samples and the one sample the recount can miss.           *)
(***************************************************************************)
OutstandingBound == Outstanding <= MaxRequiredSamples + 1

(***************************************************************************)
(* active_tasks, finished tasks that nobody reaped included, never         *)
(* exceeds max_concurrent_samples, whichever of the processor and pause()  *)
(* removes them.                                                           *)
(***************************************************************************)
ConcurrencyBound == ActiveTasks <= MaxConcurrentSamples

SamplesPerVersion == RequiredSamples * TriggerParameterSyncStep

(***************************************************************************)
(* How old a sample can be.  pause() waits for the tasks, so a sample is   *)
(* in the queue before the weights move that make its version the last but *)
(* one; only one finished between a pause and the update behind it, when   *)
(* the monitor let generation go on, is in time for the next pause and no  *)
(* earlier.  With partial rollout the servers refuse to generate there.    *)
(* In the queue at most max_required_samples - 1 samples are before it.    *)
(***************************************************************************)
VersionsToQueue == IF PartialRollout THEN 1 ELSE 2

VersionLagBound ==
  \A e \in batch :
    train_version - e.version
      <= VersionsToQueue + (MaxRequiredSamples - 1) \div SamplesPerVersion

(***************************************************************************)
(* staleness_threshold = 0 "indicates synchronous training" (README of     *)
(* fully_async_policy, line 133): only samples of the Trainer's own        *)
(* version are trained on, and the queue never has to drop one.            *)
(***************************************************************************)
SynchronousTraining ==
  MaxRequiredSamples = SamplesPerVersion =>
    /\ \A e \in batch : e.version = train_version
    /\ dropped_samples = 0

(***************************************************************************)
(* wait_last_valid before each sync_weights: no version is skipped and no  *)
(* two synchronizations overlap.  The Trainer raises its version before it *)
(* waits, so it can be two ahead of the Rollouter; the synchronizer never  *)
(* is more than one ahead, the message queue is between it and the         *)
(* Rollouter, and once update and resume have returned they agree.         *)
(***************************************************************************)
VersionHandshake ==
  /\ rollout_version <= mq_param_version
  /\ mq_param_version <= sync_version
  /\ sync_version <= rollout_version + 1
  /\ train_version = IF trainer_pc = "wait_last_valid" THEN sync_version + 1 ELSE sync_version
  /\ LastSyncOver => rollout_version = sync_version

(***************************************************************************)
(* The processor never waits on the condition while generation is not      *)
(* paused: whoever clears paused also notifies it.                         *)
(***************************************************************************)
NoLostWakeup == condition_wait => paused

(***************************************************************************)
(* Unless the processor died, the end signal is the last thing ever put in *)
(* the queue: by then no task is left to put a sample behind it.           *)
(***************************************************************************)
EndSignalIsLast ==
  main_pc # "stream" /\ processor_pc = "done" =>
    /\ running = {} /\ InHand = {} /\ InPending = {}
    /\ \A i \in DOMAIN queue : queue[i].sample = None <=> i = Len(queue)

(***************************************************************************)
(* Each synchronization publishes one validation record and the Trainer    *)
(* reads at most one per step, possibly before the record is there; still  *)
(* none is left unread when fit ends.                                      *)
(***************************************************************************)
ValidationRecordsRead == TrainerEnded => val_queue = << >>

-----------------------------------------------------------------------------
(* Liveness.                                                               *)

(***************************************************************************)
(* Training ends: every pause, stale or not, is eventually undone, and the *)
(* Trainer gets its samples or the end signal.                             *)
(***************************************************************************)
TrainingEnds == <>TrainerEnded

(***************************************************************************)
(* A pause is never forever: generation goes on or the stream ends.        *)
(***************************************************************************)
GenerationResumes == condition_wait ~> (~condition_wait \/ TrainerEnded)

-----------------------------------------------------------------------------
(* Statements of the documentation that the code does not keep.            *)

(***************************************************************************)
(* "After the pause is over, the lock is acquired and it is necessary to   *)
(* determine whether it is the pause phase, otherwise continue to wait"    *)
(* (fully_async_rollouter.py:569): no sample is submitted between the end  *)
(* of pause() and the release of the Rollouter by sync_weights.            *)
(***************************************************************************)
NoSubmissionWhilePaused ==
  [][sync_pc = "transfer" => running' \subseteq running]_vars

(***************************************************************************)
(* "After acquiring the lock, the number of active_tasks may change, need  *)
(* to be verified again" (fully_async_rollouter.py:521): the reaping loops *)
(* handle an active_tasks that pause() emptied.  Without failing tasks the *)
(* processor has no reason to end before the Done mark.                    *)
(***************************************************************************)
ProcessorSurvives == failed_samples = {} => processor_pc # "crashed"

(***************************************************************************)
(* "rollout continues to generate and trainer continues to consume"        *)
(* (README.md:145): they do not both wait for the other.  The Trainer      *)
(* waits on an empty queue, the processor waits to be resumed, no task or  *)
(* call is left, and the freshness test keeps the monitor from resuming.   *)
(***************************************************************************)
MutualWait ==
  /\ trainer_pc = "collect" /\ queue = << >>
  /\ condition_wait
  /\ running = {} /\ lock_queue = << >>
  /\ sync_pc = "idle" /\ rpc = "none"
  /\ ShouldPause

NeverMutualWait == ~MutualWait

=============================================================================
