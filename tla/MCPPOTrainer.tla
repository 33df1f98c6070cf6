---------------------------- MODULE MCPPOTrainer ----------------------------
(***************************************************************************)
(* Configurations of PPOTrainer and OneStepOff for TLC: a job with         *)
(* restarts for each way of keeping checkpoints, one that sends its        *)
(* weights over NCCL, one step of training for each way of moving a batch, *)
(* and jobs of the one-step-off trainer with restarts.                     *)
(***************************************************************************)
EXTENDS OneStepOff

MCRoleOrder == << "actor", "critic" >>
\* four buckets of at most three bytes
MCSizes == << 1, 2, 1, 2, 3, 1 >>

\* two data parallel ranks: of one worker each, of two tensor parallel workers
\* each, and of two pipeline stages each
TensorParallel == [dp_rank |-> << 0, 0, 1, 1 >>, collect |-> << TRUE, FALSE, TRUE, FALSE >>]
Pipeline == [dp_rank |-> << 0, 1, 0, 1 >>, collect |-> << FALSE, FALSE, TRUE, TRUE >>]
TwoRanks == [dp_rank |-> << 0, 1 >>, collect |-> << TRUE, TRUE >>]

Short == << 1 >>
ToolCall == << 1, 0, 1 >>
Long == << 1, 1, 1, 1 >>

Base ==
  [trainer |-> "ppo", max_ckpt_to_keep |-> 0, save_freq |-> 1, critic_warmup |-> 0, esi |-> {FALSE},
   total_training_steps |-> 3, total_epochs |-> 2, epoch_len |-> 2, restarts |-> TRUE,
   backend |-> "naive", val_before_train |-> FALSE, test_freq |-> 0,
   balance |-> "off", ppo_mini_batch_size |-> 2, mesh |-> TwoRanks, num_workers |-> 2, n |-> 1,
   prompt_len |-> 1, max_token_len |-> 5, adv_estimator |-> "grpo", lam |-> 1,
   masks |-> {<< Short, Short >>}, scores |-> {<< 1, 0 >>}, baselines |-> << 1, 0 >>,
   loss_scale_factor |-> 4, val_rows |-> << 1, 2, 3 >>]

ResumeConfigs ==
  { [Base EXCEPT !.max_ckpt_to_keep = keep] : keep \in {0, 1, 2} }
  \cup { [Base EXCEPT !.max_ckpt_to_keep = 2, !.save_freq = 2, !.critic_warmup = 2,
                      !.esi = BOOLEAN, !.total_training_steps = 4, !.test_freq = 2] }

SyncConfigs ==
  { [Base EXCEPT !.backend = "nccl", !.total_training_steps = 1, !.val_before_train = TRUE,
                 !.save_freq = 0, !.restarts = FALSE] }

Responses == [1..4 -> {Short, ToolCall, Long}]
SomeResponses == { << Short, Long, ToolCall, Short >>, << Long, Short, Short, Long >>,
                   << Short, Short, Long, ToolCall >> }

DataConfigs ==
  LET OneStep == [Base EXCEPT !.total_training_steps = 1, !.save_freq = 0, !.restarts = FALSE,
                              !.n = 2, !.mesh = TensorParallel, !.masks = Responses, !.scores = {<< 2, 0, 1, 1 >>}]
  IN  { [OneStep EXCEPT !.balance = balance, !.adv_estimator = "rloo", !.mesh = Pipeline] :
          balance \in {"default", "keep_minibatch", "prefix_grouper"} }
      \cup { [OneStep EXCEPT !.balance = "default", !.adv_estimator = estimator,
                             !.masks = SomeResponses, !.scores = [1..4 -> 0..1]] : 
               estimator \in {"grpo", "grpo_passk", "opo", "gpg", "remax", "reinforce_plus_plus",
                              "grpo_vectorized", "rloo_vectorized",
                              "reinforce_plus_plus_baseline"} }
      \cup { [OneStep EXCEPT !.balance = "default", !.adv_estimator = "gae", !.lam = lam] :
               lam \in {0, 1} }

OneStepBase == [Base EXCEPT !.trainer = "one_step_off", !.backend = "none", !.balance = "default",
                            !.mesh = TwoRanks]

\* data for exactly the steps of the job; checkpoints at each step or at some
OneStepConfigs ==
  { [OneStepBase EXCEPT !.max_ckpt_to_keep = keep, !.total_training_steps = 4] : keep \in {1, 2} }
  \cup { [OneStepBase EXCEPT !.save_freq = 2, !.test_freq = 1, !.critic_warmup = 2] }

MCConfigs == ResumeConfigs \cup SyncConfigs \cup DataConfigs \cup OneStepConfigs

\* a job without failures
MCOneStepConfigs == { [OneStepBase EXCEPT !.restarts = FALSE, !.save_freq = 0] }

\* one step of training with responses of different lengths on two ranks
MCLossConfigs ==
  { [Base EXCEPT !.total_training_steps = 1, !.save_freq = 0, !.restarts = FALSE, !.n = 2,
                 !.masks = SomeResponses, !.scores = [1..4 -> 0..1]] }

\* each configuration is run by its trainer
TrainersNext ==
  \/ config.trainer = "ppo" /\ Next /\ UNCHANGED batch_data_future
  \/ config.trainer = "one_step_off" /\ OneStepNext

TrainersSpec == OneStepInit /\ [][TrainersNext]_oneStepVars

=============================================================================
