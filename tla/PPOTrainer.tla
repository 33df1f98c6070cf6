----------------------------- MODULE PPOTrainer -----------------------------
(***************************************************************************)
(* RayPPOTrainer.fit (verl/trainer/ppo/ray_trainer.py), the synchronous    *)
(* trainer: it composes the checkpoints (Checkpoint), the transfer of the  *)
(* weights to the rollout replicas (WeightSync, or in place when trainer   *)
(* and rollout share their devices), and the data plane of a training step *)
(* (SeqlenBalancing, DataProto, CoreAlgos).  The job may crash between any *)
(* two steps and is started again with resume_mode "auto".                 *)
(*                                                                         *)
(* The driver is one thread that waits for each remote call.  Weights are  *)
(* the list of the updates applied to them: the number of the batch and    *)
(* the incarnation of the job that applied it.  A batch's number is its    *)
(* place in the dataloader's stream over all epochs.                       *)
(***************************************************************************)
EXTENDS Checkpoint, WeightSync, SeqlenBalancing, DataProto, CoreAlgos

CONSTANTS
  Configs,        \* the configurations; Init picks one
  MaxRestarts     \* bound: crashes and resubmissions of the job

ASSUME PPOTrainerAssumption ==
  /\ \A c \in Configs : /\ c.max_ckpt_to_keep \in Nat /\ c.epoch_len \in Nat \ {0}
                          /\ c.critic_warmup \in Int
                          /\ c.total_training_steps \in Int /\ c.total_epochs \in Int
  /\ "actor" \in Roles /\ Receivers # {}
  /\ MaxRestarts \in Nat

\* The sizes of a batch: n responses to each prompt, the equal chunks that
\* DataProto.chunk asserts, and what the ways of balancing divide it into.
SizesFit(c, size) ==
  /\ size # 0
  /\ \A parts \in {dp_size(c.mesh), c.n, c.num_workers} : size % parts = 0
  /\ c.balance = "keep_minibatch" =>
       size % c.ppo_mini_batch_size = 0 /\ c.ppo_mini_batch_size % dp_size(c.mesh) = 0
  /\ c.balance = "prefix_grouper" => (size \div c.n) % dp_size(c.mesh) = 0

ASSUME PPOTrainerDataAssumption ==
  \A c \in Configs :
    /\ MeshSound(c.mesh)
    /\ {c.n, c.num_workers, c.ppo_mini_batch_size, c.prompt_len, c.max_token_len} \subseteq Nat \ {0}
    /\ c.balance \in {"off", "default", "keep_minibatch", "prefix_grouper"}
    /\ \A masks \in c.masks : masks \in Seq(Seq({0, 1})) /\ SizesFit(c, Len(masks))
    /\ c.val_rows \in Seq(Nat)

VARIABLES
  config,         \* the hydra configuration of the job
  pc,             \* where the driver is
  global_steps, epoch,
  batches_left,   \* of the dataloader iterator of this epoch
  restored,       \* the dataloader state was loaded and is not used yet
  first_sync,     \* the weights are being sent for the first time
  batch,          \* the batch of the step, or NoBatch
  answers,        \* answers[w]: what worker w has returned of the call
  replicas,       \* replicas[r]: its weights, and whether they are loaded
  validated,      \* outputs of the last validation, in order
  incarnation,    \* restarts so far
  inherited       \* history: steps with a shard when this incarnation began

driverVars == << pc, global_steps, epoch, batches_left, restored, first_sync >>
batchVars == << batch, answers >>
jobVars == << config, incarnation, inherited >>
vars == << checkpointVars, syncVars, driverVars, batchVars, jobVars, replicas, validated >>

NoBatch == [id |-> 0]
NoAnswer == [done |-> FALSE]
Answer(rows) == [done |-> TRUE, rows |-> rows]
\* the workers of a call; Ranks are those among them whose shards are modelled
Workers == DOMAIN config.mesh.dp_rank
NoAnswers == [w \in Workers |-> NoAnswer]
Naive == config.backend = "naive"
OnDisk(role) == { n \in Steps : \E r \in Ranks : shards[n][role][r] # Missing }

\* init_workers ends with sleep_replicas, which leaves standalone replicas alone
FreshReplicas == [r \in Receivers |-> [awake |-> ~Naive, policy |-> [w \in Ranks |-> << >>]]]

Init ==
  /\ config \in Configs
  /\ max_ckpt_to_keep = config.max_ckpt_to_keep
  /\ CheckpointInit
  /\ SyncIdle
  /\ pc = "load"
  /\ global_steps = 0
  /\ epoch = 0
  /\ batches_left = 0
  /\ restored = FALSE
  /\ first_sync = TRUE
  /\ batch = NoBatch
  /\ answers = NoAnswers
  /\ replicas = FreshReplicas
  /\ validated = << >>
  /\ incarnation = 0
  /\ inherited = {}

Goto(label) == pc' = label
At(label) == pc = label

-----------------------------------------------------------------------------
(* Start: _load_checkpoint, the first update_weights, the validation.      *)

StartFromScratch ==
  /\ At("load")
  /\ NoTracker
  /\ Goto("sync")
  /\ UNCHANGED << checkpointVars, syncVars, global_steps, epoch, batches_left, restored,
                  first_sync, batchVars, jobVars, replicas, validated >>

ResumeFromCheckpoint ==
  /\ At("load")
  /\ LoadTracked
  /\ global_steps' = TrackedStep
  /\ restored' = TRUE
  /\ Goto("sync")
  /\ UNCHANGED << syncVars, epoch, batches_left, first_sync, batchVars, jobVars, replicas,
                  validated >>

\* int("") of a truncated tracker, or a shard that is not there or torn:
\* the exception ends the job, and so does every later attempt
ResumeFails ==
  /\ At("load")
  /\ ~NoTracker
  /\ ~CanLoad
  /\ Goto("failed")
  /\ UNCHANGED << checkpointVars, syncVars, global_steps, epoch, batches_left, restored,
                  first_sync, batchVars, jobVars, replicas, validated >>

AfterSync == IF first_sync THEN Goto("validate_first") ELSE Goto("validate")

\* CheckpointEngineManager.update_weights with the naive backend
UpdateWeightsInPlace ==
  /\ At("sync")
  /\ Naive
  /\ replicas' = [r \in Receivers |-> [awake |-> TRUE, policy |-> weights["actor"]]]
  /\ AfterSync
  /\ UNCHANGED << checkpointVars, syncVars, global_steps, epoch, batches_left, restored,
                  first_sync, batchVars, jobVars, validated >>

UpdateWeights ==
  /\ At("sync")
  /\ ~Naive
  /\ StartSync(weights["actor"])
  /\ Goto("syncing")
  /\ UNCHANGED << checkpointVars, global_steps, epoch, batches_left, restored, first_sync,
                  batchVars, jobVars, replicas, validated >>

Transfer ==
  /\ At("syncing")
  /\ SyncStep
  /\ UNCHANGED << checkpointVars, driverVars, batchVars, jobVars, replicas, validated >>

FinishUpdateWeights ==
  /\ At("syncing")
  /\ SyncFinished
  /\ finalize
  /\ replicas' = [r \in Receivers |->
       [replicas[r] EXCEPT !.policy = IF Delivered(r, Len(Sizes)) THEN sent_version ELSE @]]
  /\ AfterSync
  /\ UNCHANGED << checkpointVars, global_steps, epoch, batches_left, restored, first_sync,
                  batchVars, jobVars, validated >>

\* _validate pads the batch for the agent loop workers and drops the padding
Validation ==
  LET padded == pad_dataproto_to_divisor(config.val_rows, config.num_workers)
      outputs == concat(chunk(padded, config.num_workers))
  IN  unpad_dataproto(outputs, pad_size(config.val_rows, config.num_workers))

StartLoop ==
  /\ At("validate_first")
  /\ validated' = IF config.val_before_train THEN Validation ELSE << >>
  /\ epoch' = global_steps \div config.epoch_len
  /\ global_steps' = global_steps + 1
  /\ first_sync' = FALSE
  /\ Goto("epoch")
  /\ UNCHANGED << checkpointVars, syncVars, batches_left, restored, batchVars, jobVars,
                  replicas >>

\* A dataloader restored at the end of an epoch gives an empty pass or a
\* whole one, depending on the library.
PassLengths ==
  IF restored /\ dataloader > 0 /\ dataloader % config.epoch_len = 0
  THEN {0, config.epoch_len}
  ELSE {config.epoch_len - (dataloader % config.epoch_len)}

StartEpoch ==
  /\ At("epoch")
  /\ IF epoch < config.total_epochs
     THEN /\ batches_left' \in PassLengths
          /\ restored' = FALSE
          /\ Goto("next_batch")
     ELSE /\ Goto("done")
          /\ UNCHANGED << batches_left, restored >>
  /\ UNCHANGED << checkpointVars, syncVars, global_steps, epoch, first_sync, batchVars,
                  jobVars, replicas, validated >>

-----------------------------------------------------------------------------
(* A training step.                                                        *)

IsLastStep == global_steps >= config.total_training_steps

RowsOf(masks, scores) ==
  [i \in DOMAIN masks |-> [row |-> i, uid |-> (i - 1) \div config.n, mask |-> masks[i],
                           score |-> scores[i],
                           baseline |-> repeat_interleave(config.baselines, config.n)[i]]]

Seqlen(row) == config.prompt_len + Len(row.mask)

\* the responses of the agent loops, in the order of the repeated prompts
Generated(rows) ==
  concat(chunk(repeat_interleave([i \in 1..(Len(rows) \div config.n) |-> i], config.n),
               config.num_workers))

EndEpoch ==
  /\ At("next_batch")
  /\ batches_left = 0
  /\ epoch' = epoch + 1
  /\ Goto("epoch")
  /\ UNCHANGED << checkpointVars, syncVars, global_steps, batches_left, restored, first_sync,
                  batchVars, jobVars, replicas, validated >>

\* Variant: the replicas stay awake beside the trainer.
AsleepNever(replica) == replica

Asleep(replica) == IF Naive THEN [replica EXCEPT !.awake = FALSE] ELSE replica

\* Take the next batch, generate n responses for each prompt, and put
\* colocated replicas to sleep.  Nothing wakes them before.
Generate ==
  /\ At("next_batch")
  /\ batches_left > 0
  /\ global_steps \in Steps    \* bound
  /\ batches_left' = batches_left - 1
  /\ dataloader' = dataloader + 1
  /\ validated' = << >>
  /\ \E masks \in config.masks, scores \in config.scores :
       LET rows == RowsOf(masks, scores)
           prompts == Generated(rows)
       IN  batch' = [id |-> dataloader', step |-> global_steps, order |-> "generated",
                     rows |-> [i \in DOMAIN rows |-> [rows[i] EXCEPT !.uid = prompts[i]]],
                     policies |-> { replicas[r].policy : r \in Receivers },
                     awake |-> \A r \in Receivers : replicas[r].awake,
                     old_log_probs |-> << >>, values |-> << >>, advantages |-> << >>]
  /\ replicas' = [r \in Receivers |-> Asleep(replicas[r])]
  /\ Goto("balance")
  /\ UNCHANGED << diskVars, previous_saved_paths, max_ckpt_to_keep, weights, saveVars,
                  syncVars, global_steps, epoch, restored, first_sync, answers, jobVars >>

\* smaller sequences at both ends of a rank's part
EndsLight(partition, workloads) ==
  LET ascending == SortedBy(partition, LAMBDA i, j :
                     workloads[i] < workloads[j] \/ (workloads[i] = workloads[j] /\ i < j))
  IN  EvenIndices(ascending) \o Reverse(OddIndices(ascending))

MinibatchPartitions(workloads, dp, size) ==
  LET part(m) == get_seqlen_balanced_partitions(
                   SubSeq(workloads, (m - 1) * size + 1, m * size), dp, TRUE)
  IN  [d \in 1..dp |-> FlattenSeq([m \in 1..(Len(workloads) \div size) |->
         [i \in DOMAIN part(m)[d] |-> part(m)[d][i] + (m - 1) * size]])]

global_partition_lst(rows) ==
  LET dp == dp_size(config.mesh)
      lens == [i \in DOMAIN rows |-> Seqlen(rows[i])]
      workloads == [i \in DOMAIN rows |-> calculate_workload(lens[i])]
      Reordered(partitions) == [d \in 1..dp |-> EndsLight(partitions[d], workloads)]
  IN  CASE config.balance = "prefix_grouper" ->
             get_group_balanced_partitions(lens, [i \in DOMAIN rows |-> rows[i].uid], dp)
        [] config.balance = "keep_minibatch" ->
             Reordered(MinibatchPartitions(workloads, dp, config.ppo_mini_batch_size))
        [] config.balance = "default" ->
             Reordered(get_seqlen_balanced_partitions(workloads, dp, TRUE))

_balance_batch ==
  /\ At("balance")
  /\ batch' = [batch EXCEPT
       !.order = "balanced",
       !.rows = IF config.balance = "off" THEN batch.rows
                ELSE reorder(batch.rows, FlattenSeq(global_partition_lst(batch.rows)))]
  /\ Goto("old_log_prob")
  /\ UNCHANGED << checkpointVars, syncVars, global_steps, epoch, batches_left, restored,
                  first_sync, answers, jobVars, replicas, validated >>

-----------------------------------------------------------------------------
(* A call of the worker group: every worker computes its chunk in micro-   *)
(* batches, in its own time.  What the model computes for a row is a       *)
(* function of the row alone.                                              *)

LogProb(row) == row.row
Values(row) == [t \in DOMAIN row.mask |-> (row.row + t) % 3]
RowResult(row) == IF At("values") THEN Values(row) ELSE LogProb(row)

Chunks == dispatch_nd_compute(config.mesh, batch.rows)
Seqlens(rows) == [i \in DOMAIN rows |-> Seqlen(rows[i])]

\* the all_reduce(MAX) over the data parallel group
MicroBatchCount ==
  LET counts == { num_micro_batches(Seqlens(Chunks[w]), config.max_token_len) : w \in Workers }
  IN  CHOOSE c \in counts : \A d \in counts : d <= c

\* Variant: every rank uses its own count.
MicroBatchesLocalCount(w) ==
  LET lens == Seqlens(Chunks[w])
  IN  rearrange_micro_batches(lens, num_micro_batches(lens, config.max_token_len))

MicroBatches(w) == rearrange_micro_batches(Seqlens(Chunks[w]), MicroBatchCount)

compute_micro_batches(w) ==
  LET indices == MicroBatches(w)
      results == FlattenSeq([m \in DOMAIN indices |->
                   [i \in DOMAIN indices[m] |-> RowResult(Chunks[w][indices[m][i]])]])
  IN  restore_dynamic_batch(results, indices)

WorkerComputes(w) ==
  /\ pc \in {"old_log_prob", "values"}
  /\ ~answers[w].done
  /\ answers' = [answers EXCEPT ![w] = Answer(compute_micro_batches(w))]
  /\ UNCHANGED << checkpointVars, syncVars, driverVars, batch, jobVars, replicas, validated >>

CollectAnswers ==
  /\ \A w \in Workers : answers[w].done
  /\ LET collected == collect_nd_compute(config.mesh, [w \in Workers |-> answers[w].rows])
     IN  \/ At("old_log_prob") /\ batch' = [batch EXCEPT !.old_log_probs = collected]
                               /\ Goto("values")
         \/ At("values") /\ batch' = [batch EXCEPT !.values = collected]
                         /\ Goto("adv")
  /\ answers' = NoAnswers
  /\ UNCHANGED << checkpointVars, syncVars, global_steps, epoch, batches_left, restored,
                  first_sync, jobVars, replicas, validated >>

\* the outcome reward sits on the last token of the response
Advantages(rows, values) ==
  LET scores == [i \in DOMAIN rows |-> rows[i].score]
      index == [i \in DOMAIN rows |-> rows[i].uid]
      lengths == [i \in DOMAIN rows |-> SumSeq(rows[i].mask)]
      rewards(row) == [t \in DOMAIN row.mask |-> IF t = Len(row.mask) THEN row.score ELSE 0]
      estimator == config.adv_estimator
  IN  CASE estimator = "grpo" -> compute_grpo_outcome_advantage(scores, index)
        [] estimator = "grpo_vectorized" ->
             compute_grpo_vectorized_outcome_advantage(scores, index)
        [] estimator = "rloo" -> compute_rloo_outcome_advantage(scores, index)
        [] estimator = "rloo_vectorized" ->
             compute_rloo_vectorized_outcome_advantage(scores, index)
        [] estimator = "reinforce_plus_plus_baseline" ->
             compute_reinforce_plus_plus_baseline_outcome_advantage(scores, index)
        [] estimator = "opo" -> compute_opo_outcome_advantage(scores, lengths, index)
        [] estimator = "gpg" -> compute_gpg_outcome_advantage(scores, index)
        [] estimator = "grpo_passk" -> compute_grpo_passk_outcome_advantage(scores, index)
        [] estimator = "reinforce_plus_plus" ->
             [i \in DOMAIN rows |->
               compute_reinforce_plus_plus_outcome_advantage(rewards(rows[i]), rows[i].mask)]
        [] estimator = "remax" ->
             [i \in DOMAIN rows |-> compute_remax_outcome_advantage(rewards(rows[i]),
                                      rows[i].baseline, rows[i].mask)]
        [] estimator = "gae" ->
             [i \in DOMAIN rows |-> compute_gae_advantage_return(rewards(rows[i]), values[i],
                                                                rows[i].mask, config.lam)]

compute_advantage ==
  /\ At("adv")
  /\ batch' = [batch EXCEPT !.advantages = Advantages(batch.rows, batch.values)]
  /\ Goto("update")
  /\ UNCHANGED << checkpointVars, syncVars, global_steps, epoch, batches_left, restored,
                  first_sync, answers, jobVars, replicas, validated >>

\* What the ranks contribute to the actor's update: each adds up the losses of
\* its micro-batches, and the gradients are averaged over the dp ranks.
LossMat(row) == [t \in DOMAIN row.mask |-> row.row + t]

AggregatedLoss(rows, loss_agg_mode, dp) ==
  agg_loss([i \in DOMAIN rows |-> LossMat(rows[i])], [i \in DOMAIN rows |-> rows[i].mask],
           loss_agg_mode, dp, SumSeq([i \in DOMAIN batch.rows |-> SumSeq(batch.rows[i].mask)]),
           Len(batch.rows), config.loss_scale_factor)

update_actor_loss(loss_agg_mode) ==
  LET dp == dp_size(config.mesh)
      RankLoss(w) == SumFractions([m \in DOMAIN MicroBatches(w) |->
                       AggregatedLoss(reorder(Chunks[w], MicroBatches(w)[m]), loss_agg_mode, dp)])
      ranks == Ascending({ w \in Workers : config.mesh.collect[w] })
      sum == SumFractions([i \in DOMAIN ranks |-> RankLoss(ranks[i])])
  IN  << sum[1], sum[2] * dp >>

\* the gradient step of every rank of the role
Updated(roles) ==
  [role \in Roles |-> [r \in Ranks |->
    IF role \in roles THEN Append(weights[role][r], << batch.id, incarnation >>)
    ELSE weights[role][r]]]

WarmingUp == config.critic_warmup > global_steps

\* the critic, then the actor unless the critic is still warming up
UpdateModels ==
  /\ At("update")
  /\ weights' = Updated(IF WarmingUp THEN {"critic"} ELSE {"critic", "actor"})
  /\ batch' = NoBatch
  /\ Goto(IF WarmingUp THEN "validate" ELSE "save")
  /\ UNCHANGED << diskVars, previous_saved_paths, max_ckpt_to_keep, dataloader, saveVars,
                  syncVars, global_steps, epoch, batches_left, restored, first_sync, answers,
                  jobVars, replicas, validated >>

-----------------------------------------------------------------------------
(* The end of a step: save, send the weights, validate, go on.             *)

SaveDue(esi_close_to_expiration) ==
  /\ config.save_freq > 0
  /\ \/ IsLastStep
     \/ global_steps % config.save_freq = 0
     \/ esi_close_to_expiration

_save_checkpoint ==
  /\ At("save")
  /\ \E esi_close_to_expiration \in config.esi :
       IF SaveDue(esi_close_to_expiration)
       THEN /\ StartSave(global_steps)
            /\ Goto("saving")
            /\ UNCHANGED << diskVars, previous_saved_paths, max_ckpt_to_keep, memoryVars >>
       ELSE /\ Goto("sync")
            /\ UNCHANGED checkpointVars
  /\ UNCHANGED << syncVars, global_steps, epoch, batches_left, restored, first_sync,
                  batchVars, jobVars, replicas, validated >>

Saving ==
  /\ At("saving")
  /\ SaveStep
  /\ IF save_pc' = "idle" THEN Goto("sync") ELSE UNCHANGED pc
  /\ UNCHANGED << syncVars, global_steps, epoch, batches_left, restored, first_sync,
                  batchVars, jobVars, replicas, validated >>

EndStep ==
  /\ At("validate")
  /\ validated' = IF config.test_freq > 0 /\ (IsLastStep \/ global_steps % config.test_freq = 0)
                  THEN Validation ELSE << >>
  /\ global_steps' = global_steps + 1
  /\ Goto(IF IsLastStep THEN "done" ELSE "next_batch")
  /\ UNCHANGED << checkpointVars, syncVars, epoch, batches_left, restored, first_sync,
                  batchVars, jobVars, replicas >>

\* The job dies at any point, or is submitted again after its end.
Restart ==
  /\ ~At("failed")
  /\ incarnation < MaxRestarts
  /\ config.restarts
  /\ incarnation' = incarnation + 1
  /\ inherited' = UNION { OnDisk(role) : role \in Roles }
  /\ LoseMemory
  /\ finalize
  /\ pc' = "load"
  /\ global_steps' = 0
  /\ epoch' = 0
  /\ batches_left' = 0
  /\ restored' = FALSE
  /\ first_sync' = TRUE
  /\ batch' = NoBatch
  /\ answers' = NoAnswers
  /\ replicas' = FreshReplicas
  /\ validated' = << >>
  /\ UNCHANGED config

DriverStep ==
  \/ StartFromScratch \/ ResumeFromCheckpoint \/ ResumeFails
  \/ UpdateWeightsInPlace \/ UpdateWeights \/ Transfer \/ FinishUpdateWeights
  \/ StartLoop \/ StartEpoch \/ EndEpoch
  \/ Generate \/ _balance_batch
  \/ \E w \in Workers : WorkerComputes(w)
  \/ CollectAnswers \/ compute_advantage \/ UpdateModels
  \/ _save_checkpoint \/ Saving \/ EndStep

Next == DriverStep \/ Restart

Spec == Init /\ [][Next]_vars

=============================================================================
