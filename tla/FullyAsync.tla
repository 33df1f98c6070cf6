----------------------------- MODULE FullyAsync -----------------------------
(***************************************************************************)
(* Fully asynchronous policy training: the Rollouter and the MessageQueue  *)
(* composed with the FullyAsyncTrainer (fully_async_trainer.py) and the    *)
(* ParameterSynchronizer (param_sync.py).                                  *)
(*                                                                         *)
(* The Trainer gets RequiredSamples samples one by one, updates the actor, *)
(* and after TriggerParameterSyncStep updates raises the parameter version *)
(* and has the synchronizer pause the Rollouter, move the weights, and     *)
(* then, without waiting, update the Rollouter's version and resume it.    *)
(*                                                                         *)
(* The behaviours start where FullyAsyncTaskRunner calls fit on both       *)
(* actors: the initial synchronization has completed and its (empty)       *)
(* validation record has been read.                                        *)
(***************************************************************************)
EXTENDS Rollouter

CONSTANTS
  RequiredSamples,            \* required_samples: samples per update
  TriggerParameterSyncStep,   \* trigger_parameter_sync_step: updates per sync
  TestFreq                    \* rollout.test_freq

ASSUME FullyAsyncAssumption ==
  /\ RequiredSamples \in Nat \ {0}
  /\ TriggerParameterSyncStep \in Nat \ {0}
  /\ TestFreq \in Nat \ {0}
  \* max_required_samples is this product times 1 + staleness_threshold, rounded down
  /\ MaxRequiredSamples >= RequiredSamples * TriggerParameterSyncStep

VARIABLES
  trainer_pc,           \* where fit is
  batch,                \* entries got from the queue for the next update
  trained,              \* history: entries an update has used
  local_trigger_step,
  train_version,        \* FullyAsyncTrainer.current_param_version
  sync_pc,              \* where ParameterSynchronizer.sync_weights is
  sync_version          \* ParameterSynchronizer.current_version

trainerVars == << trainer_pc, batch, trained, local_trigger_step, train_version >>
syncVars == << sync_pc, sync_version >>
vars == << mqVars, rollouterVars, trainerVars, syncVars >>

Init ==
  /\ MQInit
  /\ RollouterInit
  /\ trainer_pc = "collect"
  /\ batch = {}
  /\ trained = {}
  /\ local_trigger_step = 1
  /\ train_version = 0
  /\ sync_pc = "idle"
  /\ sync_version = 0

-----------------------------------------------------------------------------
(* The Trainer.                                                            *)

\* One get_sample of _get_samples_from_queue.
TrainerGetSample ==
  /\ trainer_pc = "collect"
  /\ GetSample
  /\ Head(queue).sample # None
  /\ batch' = batch \cup {Head(queue)}
  /\ trainer_pc' = IF Cardinality(batch) + 1 < RequiredSamples THEN "collect" ELSE "update"
  /\ UNCHANGED << rollouterVars, trained, local_trigger_step, train_version, syncVars >>

\* The end signal: what has been collected so far is not trained on.
TrainerGetEndSignal ==
  /\ trainer_pc = "collect"
  /\ GetSample
  /\ Head(queue).sample = None
  /\ trainer_pc' = "finish"
  /\ UNCHANGED << rollouterVars, batch, trained, local_trigger_step, train_version, syncVars >>

\* Variant: the local step is not reset when the version is raised.
NextLocalStepUnreset(step) == step + 1

\* local_trigger_step after an update.
NextLocalStep(step) == IF step < TriggerParameterSyncStep THEN step + 1 ELSE 1

(***************************************************************************)
(* _fit_update_actor, then _trigger_parameter_sync_after_step: either one  *)
(* more local step, or a new version, which begins with wait_last_valid.   *)
(***************************************************************************)
TrainerUpdate ==
  /\ trainer_pc = "update"
  /\ trained' = trained \cup batch
  /\ batch' = {}
  /\ local_trigger_step' = NextLocalStep(local_trigger_step)
  /\ IF local_trigger_step < TriggerParameterSyncStep
     THEN trainer_pc' = "log" /\ UNCHANGED train_version
     ELSE trainer_pc' = "wait_last_valid" /\ train_version' = train_version + 1
  /\ UNCHANGED << mqVars, rollouterVars, syncVars >>

\* Variant: only sync_weights itself is waited for.
LastSyncSent == sync_pc = "idle"

\* wait_last_valid: the last update_param_version and resume have returned.
LastSyncOver == sync_pc = "idle" /\ rpc = "none"

\* sync_weights is called and calls pause.
TrainerSync ==
  /\ trainer_pc = "wait_last_valid"
  /\ LastSyncOver
  /\ trainer_pc' = "sync"
  /\ sync_pc' = "pausing"
  /\ sync_version' = train_version
  /\ rpc' = "pause"
  /\ UNCHANGED << mqVars, feedVars, processorVars, taskVars, controlVars, driverVars,
                  lock_queue, servers_paused, rpc_version, batch, trained,
                  local_trigger_step, train_version >>

\* _log_validation_data at the end of fit_step takes at most one record.
TrainerLog ==
  /\ trainer_pc = "log"
  /\ GetValidate
  /\ trainer_pc' = "collect"
  /\ UNCHANGED << rollouterVars, batch, trained, local_trigger_step, train_version, syncVars >>

NeedsFinalSync == train_version % TestFreq # 0 \/ local_trigger_step > 1

(***************************************************************************)
(* The end of fit.  When a last synchronization is due it is requested     *)
(* with a keyword, global_steps, that _trigger_parameter_sync_after_step   *)
(* does not have: the call raises TypeError and fit fails there.           *)
(***************************************************************************)
TrainerFinish ==
  /\ trainer_pc = "finish"
  /\ LastSyncOver
  /\ GetValidate
  /\ trainer_pc' = IF NeedsFinalSync THEN "failed" ELSE "stopped"
  /\ UNCHANGED << rollouterVars, batch, trained, local_trigger_step, train_version, syncVars >>

TrainerEnded == trainer_pc \in {"stopped", "failed"}

-----------------------------------------------------------------------------
(* ParameterSynchronizer.sync_weights.                                     *)

\* pause has returned; the message queue learns the version.
SyncUpdateQueue ==
  /\ sync_pc = "pausing"
  /\ rpc = "none"
  /\ UpdateQueueVersion(sync_version)
  /\ sync_pc' = "transfer"
  /\ UNCHANGED << rollouterVars, trainerVars, sync_version >>

(***************************************************************************)
(* The place of the weight transfer (commented out in the code), then      *)
(* update_param_version and, behind it, resume are sent without waiting,   *)
(* and sync_weights returns to the Trainer.                                *)
(***************************************************************************)
SyncRelease ==
  /\ sync_pc = "transfer"
  /\ rpc' = "update"
  /\ rpc_version' = sync_version
  /\ sync_pc' = "idle"
  /\ trainer_pc' = "log"
  /\ UNCHANGED << mqVars, feedVars, processorVars, taskVars, controlVars, driverVars,
                  lock_queue, servers_paused, batch, trained, local_trigger_step,
                  train_version, sync_version >>

-----------------------------------------------------------------------------
Trainer ==
  \/ TrainerGetSample
  \/ TrainerGetEndSignal
  \/ TrainerUpdate
  \/ TrainerSync
  \/ TrainerLog
  \/ TrainerFinish

Synchronizer == SyncUpdateQueue \/ SyncRelease

\* fit has returned or raised; the task runner then cancels what is left.
Ended == TrainerEnded /\ UNCHANGED vars

Next ==
  \/ RollouterNext /\ UNCHANGED << trainerVars, syncVars >>
  \/ Trainer
  \/ Synchronizer
  \/ Ended

Spec == Init /\ [][Next]_vars

(***************************************************************************)
(* Every coroutine that can go on does, generation ends, calls are         *)
(* delivered, and the monitor wakes up every check_interval.               *)
(***************************************************************************)
Fairness ==
  /\ WF_vars(Feeder /\ UNCHANGED << trainerVars, syncVars >>)
  /\ WF_vars(Processor /\ UNCHANGED << trainerVars, syncVars >>)
  /\ \A s \in Samples :
       /\ WF_vars(Task(s) /\ UNCHANGED << trainerVars, syncVars >>)
       /\ WF_vars(Server(s) /\ UNCHANGED << trainerVars, syncVars >>)
  /\ WF_vars(Monitor /\ UNCHANGED << trainerVars, syncVars >>)
  /\ WF_vars(Main /\ UNCHANGED << trainerVars, syncVars >>)
  /\ WF_vars(Handlers /\ UNCHANGED << trainerVars, syncVars >>)
  /\ WF_vars(Trainer)
  /\ WF_vars(Synchronizer)

FairSpec == Spec /\ Fairness

=============================================================================
