----------------------------- MODULE OneStepOff -----------------------------
(***************************************************************************)
(* OneStepOffRayTrainer.fit (verl/experimental/one_step_off_policy/        *)
(* ray_trainer.py): the next batch is generated by an asyncio task on      *)
(* rollout workers of their own while the current one is trained on.  What *)
(* the trainer does with a batch it inherits, and so does this module from *)
(* PPOTrainer; checkpoints and restarts are the same.                      *)
(*                                                                         *)
(* The driver's remote calls block its event loop, and it yields between   *)
(* the phases of a step: the task starts, and takes the next batch of the  *)
(* dataloader, before the training of the current one goes on, and ends    *)
(* in any of the later phases.  _fit_update_weights is "pass".             *)
(***************************************************************************)
EXTENDS PPOTrainerProperties

VARIABLE batch_data_future      \* the look-ahead task

oneStepVars == << vars, batch_data_future >>

NoTask == [at |-> "none"]
GeneratingAhead(b) == [at |-> "generating", batch |-> b]
Ready(b) == [at |-> "ready", batch |-> b]
EndOfData == [at |-> "returned_none"]

OneStepInit == Init /\ batch_data_future = NoTask

Start == StartFromScratch \/ ResumeFromCheckpoint \/ ResumeFails

(***************************************************************************)
(* next(continuous_iterator), `left` batches before the end of an epoch,   *)
(* counted from the start of the job; then generation, with the weights    *)
(* the rollout workers have.                                               *)
(***************************************************************************)
_async_gen_next_batch(current_epoch, left, step) ==
  IF left = 0 /\ current_epoch + 1 >= config.total_epochs
  THEN /\ batch_data_future' = EndOfData
       /\ epoch' = current_epoch
       /\ batches_left' = 0
       /\ UNCHANGED dataloader
  ELSE /\ epoch' = IF left = 0 THEN current_epoch + 1 ELSE current_epoch
       /\ batches_left' = (IF left = 0 THEN config.epoch_len ELSE left) - 1
       /\ dataloader' = dataloader + 1
       /\ \E masks \in config.masks, scores \in config.scores :
            LET rows == RowsOf(masks, scores)
                prompts == Generated(rows)
            IN  batch_data_future' = GeneratingAhead(
              [id |-> dataloader', step |-> step, order |-> "generated",
               rows |-> [i \in DOMAIN rows |-> [rows[i] EXCEPT !.uid = prompts[i]]],
               policies |-> { replicas[r].policy : r \in Receivers }, awake |-> TRUE,
               old_log_probs |-> << >>, values |-> << >>, advantages |-> << >>])

\* after the first, empty, update of the weights: validation, step 1, first task
StartPipeline ==
  /\ At("sync")
  /\ validated' = IF config.val_before_train THEN Validation ELSE << >>
  /\ global_steps' = global_steps + 1
  /\ first_sync' = FALSE
  /\ restored' = FALSE
  /\ \E left \in PassLengths : _async_gen_next_batch(0, left, global_steps')
  /\ Goto("next_batch")
  /\ UNCHANGED << diskVars, previous_saved_paths, max_ckpt_to_keep, weights, saveVars, syncVars,
                  batchVars, jobVars, replicas >>

\* the task returns the batch, balanced
FinishGeneration ==
  /\ batch_data_future.at = "generating"
  /\ LET b == batch_data_future.batch
     IN  batch_data_future' = Ready([b EXCEPT
           !.order = "balanced",
           !.rows = IF config.balance = "off" THEN b.rows
                    ELSE reorder(b.rows, FlattenSeq(global_partition_lst(b.rows)))])
  /\ UNCHANGED vars

\* the rollout workers keep the weights they have
_fit_update_weights == replicas

\* Variant: there is a next batch after the last step.
LookAheadAlways == TRUE

LookAheadDue == ~IsLastStep

\* await the task, and start the next one unless this is the last step
_fit_generate ==
  /\ At("next_batch")
  /\ batch_data_future.at = "ready"
  /\ global_steps \in Steps    \* bound
  /\ batch' = batch_data_future.batch
  /\ validated' = << >>
  /\ replicas' = _fit_update_weights
  /\ IF LookAheadDue
     THEN _async_gen_next_batch(epoch, batches_left, global_steps + 1)
     ELSE /\ batch_data_future' = NoTask
          /\ UNCHANGED << epoch, batches_left, dataloader >>
  /\ Goto("old_log_prob")
  /\ UNCHANGED << diskVars, previous_saved_paths, max_ckpt_to_keep, weights, saveVars, syncVars,
                  global_steps, restored, first_sync, answers, jobVars >>

\* a task that found the data exhausted returns None, which cannot be unpacked
UnpackNone ==
  /\ At("next_batch")
  /\ batch_data_future = EndOfData
  /\ Goto("failed")
  /\ UNCHANGED << checkpointVars, syncVars, global_steps, epoch, batches_left, restored,
                  first_sync, batchVars, jobVars, replicas, validated, batch_data_future >>

TrainBatch ==
  \/ \E w \in Workers : WorkerComputes(w)
  \/ CollectAnswers
  \/ compute_advantage

_fit_update_critic_and_actor ==
  /\ At("update")
  /\ weights' = Updated(IF WarmingUp THEN {"critic"} ELSE {"critic", "actor"})
  /\ batch' = NoBatch
  /\ Goto("validate")
  /\ UNCHANGED << diskVars, previous_saved_paths, max_ckpt_to_keep, dataloader, saveVars,
                  syncVars, global_steps, epoch, batches_left, restored, first_sync, answers,
                  jobVars, replicas, validated >>

_fit_validate ==
  /\ At("validate")
  /\ validated' = IF config.test_freq > 0 /\ (IsLastStep \/ global_steps % config.test_freq = 0)
                  THEN Validation ELSE << >>
  /\ Goto("save")
  /\ UNCHANGED << checkpointVars, syncVars, global_steps, epoch, batches_left, restored,
                  first_sync, batchVars, jobVars, replicas >>

_fit_postprocess_step ==
  /\ global_steps' = global_steps + 1
  /\ Goto(IF IsLastStep THEN "done" ELSE "next_batch")

_fit_save_checkpoint ==
  /\ At("save")
  /\ \E esi_close_to_expiration \in config.esi :
       IF SaveDue(esi_close_to_expiration)
       THEN /\ StartSave(global_steps)
            /\ Goto("saving")
            /\ UNCHANGED << diskVars, previous_saved_paths, max_ckpt_to_keep, memoryVars,
                            global_steps >>
       ELSE /\ _fit_postprocess_step
            /\ UNCHANGED checkpointVars
  /\ UNCHANGED << syncVars, epoch, batches_left, restored, first_sync, batchVars, jobVars,
                  replicas, validated >>

\* _save_checkpoint: the dataloader it saves has handed out the next batch
SaveAndGoOn ==
  /\ At("saving")
  /\ SaveStep
  /\ IF save_pc' = "idle" THEN _fit_postprocess_step ELSE UNCHANGED << global_steps, pc >>
  /\ UNCHANGED << syncVars, epoch, batches_left, restored, first_sync, batchVars, jobVars,
                  replicas, validated >>

OneStepNext ==
  \/ (Start \/ TrainBatch) /\ UNCHANGED batch_data_future
  \/ StartPipeline \/ FinishGeneration \/ _fit_generate \/ UnpackNone
  \/ (_fit_update_critic_and_actor \/ _fit_validate \/ _fit_save_checkpoint \/ SaveAndGoOn)
       /\ UNCHANGED batch_data_future
  \/ Restart /\ batch_data_future' = NoTask

OneStepSpec == OneStepInit /\ [][OneStepNext]_oneStepVars

-----------------------------------------------------------------------------
\* update number i + 1 comes after update number i
Follows(before, after, i) ==
  LET skipped == after[1] - before[1] - 1
  IN  IF before[2] < after[2] /\ i < config.total_training_steps
      THEN skipped = 1 \/ (skipped = 0 /\ before[1] % config.epoch_len = 0)
      ELSE skipped = 0

DataForAllSteps == config.total_training_steps <= config.total_epochs * config.epoch_len

(* The pipeline is one batch deep.  The batch in training is the one       *)
(* before the batch in generation, at the step that counts the updates;    *)
(* within one life of the job the weights, but those that wait for the     *)
(* critic's warm-up, are trained on consecutive batches.  The saved        *)
(* dataloader is ahead by the batch in generation: a resumed job skips     *)
(* that batch and no other; there is none in the last step, and at the end *)
(* of an epoch there may be none.  Skipped batches are the only reason why *)
(* a job with data for its steps runs out of them, where it fails.         *)
LookAheadInOrder ==
  config.trainer = "one_step_off" =>
    /\ \A role \in Roles, r \in Ranks :
         LET trained == weights[role][r]
         IN  FirstBatch(role) = 1 =>
               /\ trained # << >> => trained[1][1] = 1
               /\ \A i \in 1..(Len(trained) - 1) : Follows(trained[i], trained[i + 1], i)
               /\ batch # NoBatch => Len(trained) = batch.step - 1 /\ batch.step = global_steps
    /\ batch # NoBatch /\ batch_data_future.at \in {"generating", "ready"} =>
         batch_data_future.batch.id = batch.id + 1
    /\ At("failed") /\ ~first_sync =>
         /\ dataloader >= config.total_epochs * config.epoch_len
         /\ DataForAllSteps => incarnation > 0

(* "Throughout this process, generation and training parameters maintain a *)
(* one-step off policy" (README.md of the trainer, line 31): a batch was   *)
(* generated at most one update before the weights it trains.              *)
OneStepOffPolicy ==
  At("old_log_prob") =>
    \A policy \in batch.policies : \A r \in Ranks :
      Len(weights["actor"][r]) - Len(policy[r]) <= 1

=============================================================================
