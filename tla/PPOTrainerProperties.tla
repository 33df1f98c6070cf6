------------------------ MODULE PPOTrainerProperties ------------------------
(***************************************************************************)
(* What the synchronous trainer promises, and but for TrainedInOrder the   *)
(* trainer of OneStepOff, which is one batch off it, too.                  *)
(***************************************************************************)
EXTENDS PPOTrainer

(* Types of the variables the driver and the checkpoints share. *)
TypeOK ==
  /\ config \in Configs
  /\ pc \in {"load", "sync", "syncing", "validate_first", "epoch", "next_batch", "balance",
             "old_log_prob", "values", "adv", "update", "save", "saving", "validate",
             "done", "failed"}
  /\ global_steps \in Nat /\ epoch \in Nat /\ batches_left \in Nat /\ dataloader \in Nat
  /\ save_pc \in {"idle", "ensure", "write", "open_data", "close_data", "open_tracker",
                  "close_tracker"}
  /\ save_role \in DOMAIN RoleOrder
  /\ tracker \in {Missing, Torn} \cup { Written(n) : n \in Steps }
  /\ \A n \in Steps : data[n] \in {Missing, Torn} \/ data[n] = Written(data[n].content)
  /\ \A role \in Roles : previous_saved_paths[role] \in Seq(Steps)
  /\ incarnation \in 0..MaxRestarts

-----------------------------------------------------------------------------
(* Checkpoints: _save_checkpoint, the workers' save_checkpoint, retention, *)
(* and what a crash at any point leaves on the disk.                       *)

Numbers(updates) == [i \in DOMAIN updates |-> updates[i][1]]
Consecutive(from, to) == [i \in 1..(to - from + 1) |-> from + i - 1]

\* the first batch that updates the role
FirstBatch(role) ==
  IF role = "actor" /\ config.critic_warmup > 1 THEN config.critic_warmup ELSE 1

(* The checkpoint the tracker names can always be resumed from: every rank *)
(* of every role has a whole shard of the same update, and the dataloader  *)
(* state is there.  A limit of one checkpoint gives this up: registering   *)
(* the new actor deletes the tracked one before the new critic, data.pt    *)
(* and tracker exist.  So a job that cannot be resumed was stopped between *)
(* the truncation and the writing of the tracker, or has that limit.       *)
TrackedCheckpointResumable ==
  /\ IsWritten(tracker) /\ max_ckpt_to_keep # 1 => Complete(TrackedStep)
  /\ At("failed") /\ first_sync => tracker = Torn \/ max_ckpt_to_keep = 1

(* Retention holds what it promises for one life of the job: the folders   *)
(* this incarnation has written never exceed max_ckpt_to_keep, with one    *)
(* more during a save when the limit is one.  Folders of earlier lives are *)
(* not in the in-memory list and stay.                                     *)
RetentionBound ==
  max_ckpt_to_keep > 0 =>
    \A role \in Roles :
      Cardinality(OnDisk(role) \ inherited) <=
        IF max_ckpt_to_keep = 1 /\ save_pc # "idle" THEN 2 ELSE max_ckpt_to_keep

(* The tracker only ever moves to a checkpoint that is complete at that    *)
(* moment, whatever the limit.                                             *)
TrackerMovesToComplete ==
  [][tracker' # tracker /\ IsWritten(tracker') => Complete(tracker'.content)]_vars

-----------------------------------------------------------------------------
(* Training: the order of the batches and the policy that generated them.  *)

(* Whatever crashes happened, the weights were trained on consecutive      *)
(* batches: none is skipped or applied twice, actor and critic agree, and  *)
(* the step number is the batch number.  Every batch is on policy: it was  *)
(* generated by replicas that all hold the actor it will update.           *)
TrainedInOrder ==
  config.trainer = "ppo" =>
    /\ pc \in {"save", "saving", "next_batch"} =>
         /\ dataloader = IF At("next_batch") THEN global_steps - 1 ELSE global_steps
         /\ \A role \in Roles, r \in Ranks :
              Numbers(weights[role][r]) = Consecutive(FirstBatch(role), dataloader)
    /\ batch # NoBatch => batch.policies = {weights["actor"]}

(* Colocated trainer and rollout share the device memory in turns: while   *)
(* the workers load, compute, update or save, the replicas sleep, and they *)
(* are awake when they generate, except in the steps after a warm-up step, *)
(* which does not wake them.                                               *)
SharedInTurns ==
  Naive =>
    /\ pc \in {"load", "sync", "balance", "old_log_prob", "values", "adv", "update", "save",
               "saving"} => \A r \in Receivers : ~replicas[r].awake
    /\ batch # NoBatch /\ ~batch.awake => batch.step <= config.critic_warmup

(* Every rollout worker receives the weights whole and in order, whatever  *)
(* the interleaving of filling, broadcasting and reading the two buffers,  *)
(* and when the transfer is over it has received all of them.              *)
WeightsDelivered ==
  \A r \in Receivers :
    /\ Delivered(r, Len(yielded[r]))
    /\ recv_pc[r] = "done" => Len(yielded[r]) = Len(Sizes)

(* A transfer hangs only if a receiver's subscription came up after the    *)
(* first metadata was published: the barrier of init_process_group does    *)
(* not wait for it and a PUB socket drops what nobody subscribes to.  In   *)
(* every other state before its end the guard of a step of the sender, of  *)
(* the collective or of a receiver holds; no new subscription is needed.   *)
SenderCanGoOn ==
  \/ /\ send_pc = "fill"
     /\ PreviousOver \/ (next_weight <= Len(Sizes) /\ FitsInBucket(next_weight))
  \/ send_pc = "wait_last" /\ send_op = Completed

ReceiverCanGoOn(r) ==
  \/ recv_pc[r] \in {"start", "yield"}
  \/ recv_pc[r] = "wait" /\ OpCompleted(r)
  \/ MetadataHere(r)

TransferNeverStuck ==
  At("syncing") /\ dropped = {} /\ ~SyncFinished =>
    SenderCanGoOn \/ EveryRankJoined \/ \E r \in Receivers : ReceiverCanGoOn(r)

-----------------------------------------------------------------------------
(* The data plane of a step.                                               *)

\* the rows in the order in which they were generated
GenerationOrder == [i \in DOMAIN batch.rows |->
                      CHOOSE row \in { batch.rows[j] : j \in DOMAIN batch.rows } : row.row = i]

(* Balancing, dispatch over the mesh, micro-batching and collecting lose,  *)
(* repeat and mix no row: the batch is a permutation of what was generated *)
(* and the answers stand at the rows they were computed from.  Validation  *)
(* has one output for each input, in order, without those of the padding.  *)
RowsKeepTheirResults ==
  /\ batch # NoBatch =>
       /\ { batch.rows[i].row : i \in DOMAIN batch.rows } = DOMAIN batch.rows
       /\ \A i \in DOMAIN batch.rows :
            /\ batch.old_log_probs # << >> => batch.old_log_probs[i] = LogProb(batch.rows[i])
            /\ batch.values # << >> => batch.values[i] = Values(batch.rows[i])
            /\ batch.rows[i].uid = (batch.rows[i].row - 1) \div config.n + 1
  /\ validated # << >> => validated = config.val_rows

(* The losses that the ranks aggregate from their micro-batches add up to  *)
(* the loss of the whole batch on one rank.                                *)
LossesAddUp(modes) ==
  At("update") => \A mode \in modes :
    SameFraction(update_actor_loss(mode), AggregatedLoss(batch.rows, mode, 1))

(* The ranks of a worker group stay in step: each runs the same number of  *)
(* micro-batches (a rank with fewer would leave the others waiting in a    *)
(* collective), none is empty, and every row of its chunk is in exactly    *)
(* one; and what they aggregate from them is the loss of the whole batch,  *)
(* whatever the parallelism, in the modes that average over tokens or      *)
(* sequences (LossInvariant has the other one).                            *)
MicroBatchesCover ==
  /\ LossesAddUp({"token-mean", "seq-mean-token-sum", "seq-mean-token-mean"})
  /\ pc \in {"old_log_prob", "values"} =>
    \A w \in Workers :
      LET indices == MicroBatches(w)
      IN  /\ Len(indices) = MicroBatchCount
          /\ \A m \in DOMAIN indices : indices[m] # << >>
          /\ SortSeq(FlattenSeq(indices), <) = [i \in DOMAIN Chunks[w] |-> i]

(* "Aggregate the loss across global batch to ensure the loss is invariant *)
(* to fsdp/megatron parallelism" (core_algos.py:1035), in every mode.      *)
LossInvariant ==
  LossesAddUp({"token-mean", "seq-mean-token-sum", "seq-mean-token-mean",
               "seq-mean-token-sum-norm"})

(* Advantages do not depend on the order balancing has put the rows in     *)
(* ("won't affect the advantage calculation (since it's based on uid)"),   *)
(* the group estimators are zero-sum, the vectorized ones agree with the   *)
(* others, and GAE is that of the policy's own tokens: tool observations   *)
(* between them change nothing.                                            *)
OwnTokens(row) == SelectSeq([t \in DOMAIN row.mask |-> t], LAMBDA t : row.mask[t] = 1)

GaeOfOwnTokens(row) ==
  LET own == OwnTokens(row)
      value(k) == IF k > Len(own) THEN 0 ELSE Values(row)[own[k]]
      reward(k) == IF own[k] = Len(row.mask) THEN row.score ELSE 0
      delta(k) == reward(k) + value(k + 1) - value(k)
  IN  [k \in DOMAIN own |->
        IF config.lam = 0 THEN delta(k)
        ELSE MapThenSumSet(LAMBDA j : reward(j), k..Len(own)) - value(k)]

Scores(rows) == [i \in DOMAIN rows |-> rows[i].score]
Uids(rows) == [i \in DOMAIN rows |-> rows[i].uid]

GroupEstimators ==
  {"grpo", "grpo_vectorized", "rloo", "rloo_vectorized", "reinforce_plus_plus_baseline", "gpg",
   "opo"}

\* the advantages of a group; opo counts every token of a response
WeightedSum(group) ==
  MapThenSumSet(LAMBDA j : batch.advantages[j][1] *
                             (IF config.adv_estimator = "opo" THEN SumSeq(batch.rows[j].mask) ELSE 1),
                group)

\* an own token that is certainly credited with the score: every one with remax,
\* those behind the last observation with reinforce_plus_plus
Credited(row, t) ==
  /\ row.mask[t] = 1
  /\ config.adv_estimator = "remax" \/ \A k \in t..Len(row.mask) : row.mask[k] = 1

\* remax takes off the score of the greedy response
Credit(row) ==
  row.score - (IF config.adv_estimator = "remax" THEN config.baselines[row.uid] ELSE 0)

AdvantagesFollowTheRows ==
  batch # NoBatch /\ batch.advantages # << >> =>
    LET rows == batch.rows
        reference == Advantages(GenerationOrder, [i \in DOMAIN rows |-> Values(GenerationOrder[i])])
    IN  /\ \A i \in DOMAIN rows : batch.advantages[i] = reference[rows[i].row]
        /\ config.adv_estimator = "gae" =>
             \A i \in DOMAIN rows : \A k \in DOMAIN OwnTokens(rows[i]) :
               batch.advantages[i][OwnTokens(rows[i])[k]] = GaeOfOwnTokens(rows[i])[k]
        /\ config.adv_estimator \in GroupEstimators /\ config.n > 1 =>
             \A i \in DOMAIN rows : WeightedSum(Group(Uids(rows), i)) = 0
        /\ config.adv_estimator = "rloo_vectorized" /\ config.n > 1 =>
             batch.advantages = compute_rloo_outcome_advantage(Scores(rows), Uids(rows))
        /\ config.adv_estimator \in {"reinforce_plus_plus", "remax"} =>
             \A i \in DOMAIN rows : \A t \in DOMAIN rows[i].mask :
               Credited(rows[i], t) => batch.advantages[i][t] = Credit(rows[i])

=============================================================================
