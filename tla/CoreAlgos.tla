----------------------------- MODULE CoreAlgos ------------------------------
(***************************************************************************)
(* The advantage estimators of verl/trainer/ppo/core_algos.py over integer *)
(* rewards.  An outcome advantage is the pair << numerator, denominator >> *)
(* of the exact quotient; the division by the standard deviation of the    *)
(* group (norm_adv_by_std_in_grpo) and the whitening of the batch are left *)
(* out.  gamma is 1, the code's default.                                   *)
(***************************************************************************)
EXTENDS Integers, Sequences, FiniteSets, SequencesExt

\* Variant: the responses of a prompt are taken to be neighbours.
GroupByPosition(index, i) ==
  LET n == Cardinality({ j \in DOMAIN index : index[j] = index[i] })
  IN  { j \in DOMAIN index : (j - 1) \div n = (i - 1) \div n }

Group(index, i) == { j \in DOMAIN index : index[j] = index[i] }

GroupSum(scores, group) == MapThenSumSet(LAMBDA j : scores[j], group)

\* mean 0 for a group of one
compute_grpo_outcome_advantage(scores, index) ==
  [i \in DOMAIN scores |->
    LET group == Group(index, i)
        n == Cardinality(group)
    IN  IF n = 1 THEN << scores[i], 1 >>
        ELSE << n * scores[i] - GroupSum(scores, group), n >>]

compute_rloo_outcome_advantage(scores, index) ==
  [i \in DOMAIN scores |->
    LET group == Group(index, i)
        n == Cardinality(group)
    IN  IF n = 1 THEN << scores[i], 1 >>
        ELSE << n * scores[i] - GroupSum(scores, group), n - 1 >>]

\* topk(rewards, 2): the best response gets its lead over the runner-up
compute_grpo_passk_outcome_advantage(scores, index) ==
  [i \in DOMAIN scores |->
    LET group == Group(index, i)
        best == CHOOSE j \in group : \A x \in group : scores[x] <= scores[j]
        second == CHOOSE j \in group \ {best} :
                    \A x \in group \ {best} : scores[x] <= scores[j]
    IN  << IF i = best THEN scores[best] - scores[second] ELSE 0, 1 >>]

\* The vectorized forms of the two agree with them for groups of two or more.
compute_grpo_vectorized_outcome_advantage(scores, index) ==
  compute_grpo_outcome_advantage(scores, index)

\* (c > 1): a group of one gets nothing
compute_rloo_vectorized_outcome_advantage(scores, index) ==
  [i \in DOMAIN scores |->
    LET group == Group(index, i)
        c == Cardinality(group)
    IN  IF c > 1 THEN << c * scores[i] - GroupSum(scores, group), c - 1 >> ELSE << 0, 1 >>]

compute_reinforce_plus_plus_baseline_outcome_advantage(scores, index) ==
  compute_grpo_outcome_advantage(scores, index)

\* the baseline is the mean of the scores weighted by the response lengths
compute_opo_outcome_advantage(scores, response_length, index) ==
  [i \in DOMAIN scores |->
    LET group == Group(index, i)
        tokens == GroupSum(response_length, group)
        weighted == MapThenSumSet(LAMBDA j : response_length[j] * scores[j], group)
    IN  IF Cardinality(group) = 1 THEN << scores[i], 1 >>
        ELSE << tokens * scores[i] - weighted, tokens >>]

\* alpha scales up batches in which few responses have a score
compute_gpg_outcome_advantage(scores, index) ==
  LET bsz == Len(scores)
      m == Cardinality({ i \in DOMAIN scores : scores[i] # 0 })
      centred == compute_grpo_outcome_advantage(scores, index)
  IN  [i \in DOMAIN scores |->
        << bsz * centred[i][1], (IF m = 0 THEN 1 ELSE m) * centred[i][2] >>]

\* One response: the running return starts anew in front of a token of mask 0.
compute_reinforce_plus_plus_outcome_advantage(rewards, mask) ==
  LET running_return[t \in 1..(Len(mask) + 1)] ==
        IF t = Len(mask) + 1 THEN 0
        ELSE rewards[t] + (IF t < Len(mask) /\ mask[t + 1] = 0 THEN 0 ELSE running_return[t + 1])
  IN  [t \in 1..Len(mask) |-> running_return[t]]

\* the reward to go, less the score of the greedy response to the same prompt
compute_remax_outcome_advantage(rewards, reward_baseline, mask) ==
  [t \in DOMAIN mask |->
    MapThenSumSet(LAMBDA k : rewards[k] * mask[k], t..Len(mask)) - reward_baseline * mask[t]]

\* One response: the loop runs from the last token to the first and carries
\* the advantage and the value of the next token of the policy; observation
\* tokens (mask 0) leave both as they are.
compute_gae_advantage_return(rewards, values, mask, lam) ==
  LET carry[t \in 1..(Len(mask) + 1)] ==
        IF t = Len(mask) + 1 THEN [lastgaelam |-> 0, nextvalues |-> 0]
        ELSE LET next == carry[t + 1]
                 delta == rewards[t] + next.nextvalues - values[t]
             IN  IF mask[t] = 0 THEN next
                 ELSE [lastgaelam |-> delta + lam * next.lastgaelam, nextvalues |-> values[t]]
  IN  [t \in 1..Len(mask) |-> carry[t].lastgaelam]

-----------------------------------------------------------------------------
(* The aggregation of a loss over the micro-batches and ranks of a step,   *)
(* with the sizes of the global batch as the engine workers pass them.     *)

Plus(f, g) ==
  IF f[2] = g[2] THEN << f[1] + g[1], f[2] >> ELSE << f[1] * g[2] + g[1] * f[2], f[2] * g[2] >>
SumFractions(fractions) == FoldLeft(Plus, << 0, 1 >>, fractions)
SameFraction(f, g) == f[1] * g[2] = g[1] * f[2]

agg_loss(losses, masks, loss_agg_mode, dp_size, batch_num_tokens, global_batch_size, scale) ==
  LET seq_loss(i) == MapThenSumSet(LAMBDA t : losses[i][t] * masks[i][t], DOMAIN masks[i])
      seq_tokens(i) == MapThenSumSet(LAMBDA t : masks[i][t], DOMAIN masks[i])
      total == MapThenSumSet(seq_loss, DOMAIN losses)
      token_means == SumFractions([i \in DOMAIN losses |-> << seq_loss(i), seq_tokens(i) >>])
  IN  CASE loss_agg_mode = "token-mean" -> << total * dp_size, batch_num_tokens >>
        [] loss_agg_mode = "seq-mean-token-sum" -> << total * dp_size, global_batch_size >>
        [] loss_agg_mode = "seq-mean-token-mean" ->
             << token_means[1] * dp_size, token_means[2] * global_batch_size >>
        [] loss_agg_mode = "seq-mean-token-sum-norm" -> << total, scale >>

=============================================================================
