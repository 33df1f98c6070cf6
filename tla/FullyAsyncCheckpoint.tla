------------------------- MODULE FullyAsyncCheckpoint -------------------------
(***************************************************************************)
(* FullyAsyncTrainer's use of the checkpoints (verl/experimental/          *)
(* fully_async_policy/fully_async_trainer.py): it saves after every        *)
(* fit_step, under the parameter version, which only a parameter sync      *)
(* advances; the dataloader is the rollouter's and runs ahead meanwhile.   *)
(* Samples, the queue and the sync itself are in FullyAsync; here a step   *)
(* is one update.                                                          *)
(***************************************************************************)
EXTENDS Checkpoint

CONSTANTS
  SaveFreq,                  \* trainer.save_freq
  TriggerParameterSyncStep,  \* async_training.trigger_parameter_sync_step
  TestFreq,                  \* rollout.test_freq
  Limits,                    \* values of max_actor_ckpt_to_keep to check, 0 for None
  MaxUpdates,                \* bound: updates over all lives of the job
  MaxRestarts                \* bound: crashes

VARIABLES
  fit_pc,                 \* where the job is
  current_param_version,
  local_trigger_step,
  updates,                \* updates made so far, the identity of the next one
  restarts

fitVars == << fit_pc, current_param_version, local_trigger_step, updates, restarts >>
vars == << checkpointVars, fitVars >>

Init ==
  /\ max_ckpt_to_keep \in Limits
  /\ CheckpointInit
  /\ fit_pc = "load"
  /\ current_param_version = 0
  /\ local_trigger_step = 1
  /\ updates = 0
  /\ restarts = 0

\* trainer and rollouter each look for the tracker and load their part
load_checkpoint ==
  /\ fit_pc = "load"
  /\ \/ /\ NoTracker
        /\ fit_pc' = "fit"
        /\ UNCHANGED << checkpointVars, current_param_version >>
     \/ /\ LoadTracked
        /\ fit_pc' = "fit"
        /\ current_param_version' = TrackedStep
     \/ /\ ~NoTracker /\ ~CanLoad
        /\ fit_pc' = "failed"
        /\ UNCHANGED << checkpointVars, current_param_version >>
  /\ UNCHANGED << local_trigger_step, updates, restarts >>

\* The rollouter feeds another sample.  Writing data.pt blocks its event loop.
FeedSample ==
  /\ fit_pc \in {"fit", "save", "saving"}
  /\ save_pc # "close_data"
  /\ dataloader < MaxUpdates
  /\ dataloader' = dataloader + 1
  /\ UNCHANGED << diskVars, previous_saved_paths, max_ckpt_to_keep, weights, saveVars, fitVars >>

\* a batch from the queue: update the models, sync every few steps
fit_step ==
  /\ fit_pc = "fit"
  /\ updates < MaxUpdates
  /\ updates' = updates + 1
  /\ weights' = [role \in Roles |-> [r \in Ranks |-> Append(weights[role][r], updates')]]
  /\ IF local_trigger_step < TriggerParameterSyncStep
     THEN /\ local_trigger_step' = local_trigger_step + 1
          /\ UNCHANGED current_param_version
     ELSE /\ local_trigger_step' = 1
          /\ current_param_version' = current_param_version + 1
  /\ fit_pc' = "save"
  /\ UNCHANGED << diskVars, previous_saved_paths, max_ckpt_to_keep, dataloader, saveVars,
                  restarts >>

\* The queue ends.  The final sync, where one is due, passes a keyword its
\* method does not take; otherwise fit ends with another save.
FitEnds ==
  /\ fit_pc = "fit"
  /\ fit_pc' = IF current_param_version % TestFreq # 0 \/ local_trigger_step > 1
               THEN "failed" ELSE "last_save"
  /\ UNCHANGED << checkpointVars, current_param_version, local_trigger_step, updates, restarts >>

AfterSave == IF fit_pc \in {"last_save", "last_saving"} THEN "done" ELSE "fit"

_fit_save_checkpoint ==
  /\ fit_pc \in {"save", "last_save"}
  /\ \E esi_close_to_expiration \in BOOLEAN :
       IF SaveFreq > 0 /\ (current_param_version % SaveFreq = 0 \/ esi_close_to_expiration)
       THEN /\ StartSave(current_param_version)
            /\ fit_pc' = IF fit_pc = "save" THEN "saving" ELSE "last_saving"
            /\ UNCHANGED << diskVars, previous_saved_paths, max_ckpt_to_keep, memoryVars >>
       ELSE /\ fit_pc' = AfterSave
            /\ UNCHANGED checkpointVars
  /\ UNCHANGED << current_param_version, local_trigger_step, updates, restarts >>

_save_checkpoint ==
  /\ fit_pc \in {"saving", "last_saving"}
  /\ SaveStep
  /\ fit_pc' = IF save_pc' = "idle" THEN AfterSave ELSE fit_pc
  /\ UNCHANGED << current_param_version, local_trigger_step, updates, restarts >>

Crash ==
  /\ fit_pc # "load"
  /\ restarts < MaxRestarts
  /\ restarts' = restarts + 1
  /\ LoseMemory
  /\ fit_pc' = "load"
  /\ current_param_version' = 0
  /\ local_trigger_step' = 1
  /\ UNCHANGED updates

Next ==
  \/ load_checkpoint \/ FeedSample \/ fit_step \/ FitEnds
  \/ _fit_save_checkpoint \/ _save_checkpoint \/ Crash

Spec == Init /\ [][Next]_vars

-----------------------------------------------------------------------------
(* "Tracker file rescords the latest chckpoint during training to restart  *)
(* from" (checkpoint_manager.py:232): between two saves, the checkpoint it *)
(* names can be restarted from.                                            *)
TrackedCheckpointRestartable ==
  save_pc = "idle" /\ restarts = 0 /\ IsWritten(tracker) => Complete(TrackedStep)

=============================================================================
