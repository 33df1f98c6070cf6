-------------------------- MODULE OneStepOffProofs --------------------------
(***************************************************************************)
(* Proof about the one-step-off trainer, for any number of ranks, roles    *)
(* and restarts and any configuration: its weights are trained on          *)
(* consecutive batches, but for the one in generation when a checkpoint    *)
(* was saved.                                                              *)
(*                                                                         *)
(* The argument: the dataloader is at the batch in training or, while the  *)
(* look-ahead task has one, at the next, and that is the state a           *)
(* checkpoint stores with the weights.  What a job resumes from is what    *)
(* one earlier life saved, since a step beyond the tracked one is all that *)
(* any later life writes to.                                               *)
(***************************************************************************)
EXTENDS OneStepOff, PPOTrainerProofs

InTraining == {"old_log_prob", "values", "adv", "update"}
AfterUpdate == {"validate", "save", "saving"}
TakesBatches == {"next_batch"} \cup InTraining \cup AfterUpdate
Places == {"load", "sync", "done", "failed"} \cup TakesBatches
Ahead == batch_data_future.at \in {"generating", "ready"}

\* the roles that are updated in every step
EachStep == { role \in Roles : FirstBatch(role) = 1 }

-----------------------------------------------------------------------------
(* The place in the data.                                                  *)

\* an epoch is a whole number of passes; a resumed job may begin with an empty one
PassInv ==
  pc \in TakesBatches =>
    \E passes \in Nat : passes > epoch /\ dataloader + batches_left = passes * config.epoch_len

OutOfData ==
  /\ dataloader % config.epoch_len = 0
  /\ dataloader >= config.total_epochs * config.epoch_len
  /\ DataForAllSteps => incarnation > 0

\* the first life takes one batch for each step
FirstLifeInv ==
  incarnation = 0 /\ DataForAllSteps =>
    /\ pc = "load" => tracker = Missing
    /\ pc \in {"load", "sync"} => global_steps = 0 /\ dataloader = 0
    /\ pc = "next_batch" => dataloader = global_steps
    /\ pc \in InTraining \cup AfterUpdate =>
         dataloader = IF IsLastStep THEN global_steps ELSE global_steps + 1

-----------------------------------------------------------------------------
(* The look-ahead task.                                                    *)

\* where the dataloader is when batch number id is in training
TaskAfter(id) ==
  /\ dataloader = IF Ahead THEN id + 1 ELSE id
  /\ batch_data_future = NoTask <=> IsLastStep

NextBatch == batch_data_future.batch

IsBatch(b) ==
  /\ b = [field \in DOMAIN b |-> b[field]] /\ {"id", "step"} \subseteq DOMAIN b
  /\ b.id \in Nat

TaskInv ==
  /\ ~Ahead => batch_data_future \in {NoTask, EndOfData}
  /\ Ahead => /\ batch_data_future \in {GeneratingAhead(NextBatch), Ready(NextBatch)}
              /\ IsBatch(NextBatch)
              /\ NextBatch.id = dataloader
              /\ NextBatch.step = IF pc = "next_batch" THEN global_steps ELSE global_steps + 1
  /\ batch_data_future # NoTask => pc \in TakesBatches \cup {"failed"}
  /\ pc = "next_batch" => batch_data_future # NoTask
  /\ batch_data_future = EndOfData => OutOfData
  /\ pc \in AfterUpdate => (batch_data_future = NoTask <=> IsLastStep)
  /\ pc \notin InTraining => batch = NoBatch
  /\ pc \in InTraining => IsBatch(batch) /\ batch.step = global_steps /\ TaskAfter(batch.id)
  /\ pc = "failed" => first_sync \/ OutOfData
  /\ pc = "load" => first_sync /\ dataloader = 0 /\ global_steps = 0

-----------------------------------------------------------------------------
(* The weights.                                                            *)

\* a history of updates in order, none of them by a later life of the job
InOrder(trained) ==
  /\ trained # << >> => trained[1][1] = 1
  /\ \A i \in 1..(Len(trained) - 1) : Follows(trained[i], trained[i + 1], i)
  /\ \A i \in 1..Len(trained) : trained[i][2] <= incarnation

\* this life may go on with batch number id
MayFollow(trained, id) ==
  IF trained = << >> THEN id = 1
  ELSE Follows(trained[Len(trained)], << id, incarnation >>, Len(trained))

\* another life may go on behind place `from` of the data
MayResume(trained, from) ==
  LET last == trained[Len(trained)][1]
  IN  /\ trained # << >>
      /\ IF Len(trained) < config.total_training_steps
         THEN from = last + 1 \/ (from = last /\ last % config.epoch_len = 0)
         ELSE from = last

HistoryInv(trained) ==
  /\ InOrder(trained)
  /\ pc = "load" => trained = << >>
  /\ pc = "sync" => Len(trained) = global_steps /\ MayFollow(trained, dataloader + 1)
  /\ pc = "next_batch" => /\ Len(trained) = global_steps - 1
                          /\ Ahead => MayFollow(trained, dataloader)
  /\ pc \in InTraining => Len(trained) = global_steps - 1 /\ MayFollow(trained, batch.id)
  /\ pc \in AfterUpdate =>
       /\ Len(trained) = global_steps /\ trained # << >>
       /\ trained[Len(trained)][2] = incarnation
       /\ TaskAfter(trained[Len(trained)][1])

WeightsInv == \A role \in EachStep, r \in Ranks : HistoryInv(weights[role][r])

-----------------------------------------------------------------------------
(* The checkpoints.                                                        *)

\* in a life that has begun, the tracker is behind what it saves
TrackerBehind ==
  IsWritten(tracker) =>
    /\ pc = "sync" => TrackedStep = global_steps
    /\ pc \in TakesBatches => TrackedStep < global_steps

SavesStep ==
  /\ pc = "saving" <=> save_pc # "idle"
  /\ pc = "saving" => save_step = global_steps
  /\ save_pc # "write" => rank_pc = [r \in Ranks |-> "open"]
  /\ pc \in {"validate", "save"} => global_steps \in Steps

\* the file is the saver's, or gone
OfThisSave(role, r) ==
  IsWritten(shards[save_step][role][r]) =>
    shards[save_step][role][r].content = weights[role][r]

SavedSoFar ==
  pc = "saving" =>
    /\ save_pc \in AfterRoles => save_role = Len(RoleOrder)
    /\ \A k \in 1..Len(RoleOrder), r \in Ranks :
         k < save_role \/ (k = save_role /\ save_pc \in AfterRoles)
           => OfThisSave(RoleOrder[k], r)
    /\ \A r \in Ranks : rank_pc[r] = "barrier" => OfThisSave(SavingRole, r)
    /\ save_pc \in {"open_tracker", "close_tracker"} => data[save_step] = Written(dataloader)

TrackedHistory(role, r) ==
  IsWritten(shards[TrackedStep][role][r]) =>
    LET trained == shards[TrackedStep][role][r].content
    IN  /\ Len(trained) = TrackedStep
        /\ InOrder(trained)
        /\ MayResume(trained, data[TrackedStep].content)
        /\ pc = "load" => trained[Len(trained)][2] < incarnation

TrackedInv ==
  IsWritten(tracker) =>
    /\ IsWritten(data[TrackedStep])
    /\ \A role \in EachStep, r \in Ranks : TrackedHistory(role, r)

OneStepInv ==
  /\ TypeInv /\ pc \in Places
  /\ PassInv /\ FirstLifeInv /\ TaskInv /\ WeightsInv
  /\ TrackerBehind /\ SavesStep /\ SavedSoFar /\ TrackedInv

-----------------------------------------------------------------------------
(* Arithmetic of epochs.                                                   *)

LEMMA Division ==
  ASSUME NEW a \in Nat, NEW b \in Nat \ {0}
  PROVE  a \div b \in Nat /\ a % b \in 0..(b - 1) /\ a = b * (a \div b) + (a % b)
<1>1. a = b * (a \div b) + (a % b)
  OBVIOUS
<1> QED
  BY <1>1, DivisionTypes

LEMMA MultipleOf ==
  ASSUME NEW k \in Nat, NEW e \in Nat \ {0}
  PROVE  (k * e) % e = 0
<1> DEFINE q == (k * e) \div e
           s == (k * e) % e
<1>1. k * e \in Nat
  OBVIOUS
<1>2. q \in Nat /\ s \in 0..(e - 1) /\ k * e = e * q + s
  BY <1>1, Division
<1> HIDE DEF q, s
<1>3. s = e * (k - q)
  BY <1>2
<1>4. CASE k - q >= 1
  <2>1. e * (k - q) >= e
    BY <1>2, <1>4
  <2> QED
    BY <1>2, <1>3, <2>1
<1>5. CASE k - q <= -1
  <2>1. e * (k - q) <= 0 - e
    BY <1>2, <1>5
  <2> QED
    BY <1>2, <1>3, <2>1
<1>6. CASE k = q
  BY <1>3, <1>6, <1>2
<1> QED
  BY <1>2, <1>4, <1>5, <1>6 DEF s

LEMMA MultiplesGrow ==
  ASSUME NEW k \in Int, NEW j \in Int, NEW e \in Nat, j <= k
  PROVE  j * e <= k * e
<1>1. (k - j) * e >= 0
  OBVIOUS
<1> QED
  BY <1>1

LEMMA ConfigTypes ==
  ASSUME config \in Configs
  PROVE  /\ config.epoch_len \in Nat \ {0} /\ config.critic_warmup \in Int
         /\ config.total_training_steps \in Int /\ config.total_epochs \in Int
         /\ config.total_epochs * config.epoch_len \in Int
<1>1. config.epoch_len \in Nat \ {0} /\ config.total_epochs \in Int
  BY PPOTrainerAssumption
<1> QED
  BY <1>1, PPOTrainerAssumption

\* a pass ends at the end of an epoch
LEMMA PassLengthsEffect ==
  ASSUME config \in Configs, dataloader \in Nat, NEW left \in PassLengths
  PROVE  /\ left \in Nat
         /\ \E passes \in Nat : passes > 0 /\ dataloader + left = passes * config.epoch_len
         /\ dataloader = 0 => left > 0
<1> DEFINE e == config.epoch_len
           q == dataloader \div e
           s == dataloader % e
<1>1. e \in Nat \ {0}
  BY ConfigTypes
<1>2. q \in Nat /\ s \in 0..(e - 1) /\ dataloader = e * q + s
  BY <1>1, Division
<1>3. left = e - s \/ (left = 0 /\ s = 0 /\ dataloader > 0) \/ (left = e /\ s = 0)
  BY DEF PassLengths
<1> HIDE DEF e, q, s
<1>4. e * q = q * e /\ (q + 1) * e = q * e + e
  BY <1>1, <1>2
<1>5. CASE left = e - s
  <2>1. dataloader + left = (q + 1) * e
    BY <1>1, <1>2, <1>4, <1>5
  <2>2. q + 1 \in Nat /\ q + 1 > 0 /\ left \in Nat /\ left > 0
    BY <1>1, <1>2, <1>5
  <2> QED
    BY <2>1, <2>2 DEF e
<1>6. CASE left = 0 /\ s = 0 /\ dataloader > 0
  <2>1. dataloader + left = q * e
    BY <1>1, <1>2, <1>4, <1>6
  <2>2. q # 0
    BY <1>1, <1>2, <1>6
  <2> QED
    BY <1>2, <1>6, <2>1, <2>2 DEF e
<1>7. CASE left = e /\ s = 0
  <2>1. dataloader + left = (q + 1) * e
    BY <1>1, <1>2, <1>4, <1>7
  <2> QED
    BY <1>1, <1>2, <1>7, <2>1 DEF e
<1> QED
  BY <1>3, <1>5, <1>6, <1>7

-----------------------------------------------------------------------------
(* Starting the look-ahead task.                                           *)

\* it takes a batch, or finds the data at its end
LEMMA AsyncGenEffect ==
  ASSUME config \in Configs, dataloader \in Nat,
         NEW current \in Nat, NEW left \in Nat, NEW step, NEW passes \in Nat,
         passes > current, dataloader + left = passes * config.epoch_len,
         _async_gen_next_batch(current, left, step)
  PROVE  /\ epoch' \in Nat /\ batches_left' \in Nat /\ dataloader' \in Nat
         /\ \E p \in Nat : p > epoch' /\ dataloader' + batches_left' = p * config.epoch_len
         /\ \/ /\ batch_data_future' = EndOfData
               /\ dataloader' = dataloader
               /\ dataloader % config.epoch_len = 0
               /\ dataloader >= config.total_epochs * config.epoch_len
            \/ \E b : /\ batch_data_future' = GeneratingAhead(b)
                      /\ IsBatch(b)
                      /\ b.id = dataloader' /\ b.step = step
                      /\ dataloader' = dataloader + 1
<1> DEFINE e == config.epoch_len
<1>1. e \in Nat \ {0} /\ config.total_epochs \in Int
  BY ConfigTypes
<1>2. CASE left = 0 /\ current + 1 >= config.total_epochs
  <2>1. /\ batch_data_future' = EndOfData /\ epoch' = current /\ batches_left' = 0
        /\ dataloader' = dataloader
    BY <1>2 DEF _async_gen_next_batch
  <2>2. dataloader = passes * e
    BY <1>1, <1>2
  <2>3. dataloader % e = 0
    BY <1>1, <2>2, MultipleOf
  <2>4. config.total_epochs * e <= passes * e
    <3>1. config.total_epochs <= passes
      BY <1>1, <1>2
    <3> QED
      BY <1>1, <3>1, MultiplesGrow
  <2>5. config.total_epochs * e \in Int
    BY <1>1
  <2>6. dataloader >= config.total_epochs * e
    BY <2>2, <2>4, <2>5
  <2>7. dataloader' + batches_left' = passes * config.epoch_len /\ passes > epoch'
    BY <1>2, <2>1
  <2> QED
    BY <2>1, <2>3, <2>6, <2>7
<1>3. CASE ~(left = 0 /\ current + 1 >= config.total_epochs)
  <2>1. /\ epoch' = IF left = 0 THEN current + 1 ELSE current
        /\ batches_left' = (IF left = 0 THEN e ELSE left) - 1
        /\ dataloader' = dataloader + 1
    BY <1>3 DEF _async_gen_next_batch
  <2>2. PICK rows, policies :
          batch_data_future' = GeneratingAhead(
            [id |-> dataloader', step |-> step, order |-> "generated", rows |-> rows,
             policies |-> policies, awake |-> TRUE,
             old_log_probs |-> << >>, values |-> << >>, advantages |-> << >>])
    BY <1>3 DEF _async_gen_next_batch
  <2>3. \E b : /\ batch_data_future' = GeneratingAhead(b)
               /\ IsBatch(b)
               /\ b.id = dataloader' /\ b.step = step
    BY <2>1, <2>2 DEF IsBatch
  <2>4. \E p \in Nat : p > epoch' /\ dataloader' + batches_left' = p * e
    <3>1. CASE left = 0
      <4>1. (passes + 1) * e = passes * e + e
        BY <1>1
      <4>2. passes * e \in Nat
        BY <1>1
      <4>3. dataloader' + batches_left' = (passes + 1) * e
        BY <1>1, <2>1, <3>1, <4>1, <4>2
      <4>4. passes + 1 \in Nat /\ passes + 1 > epoch'
        BY <2>1, <3>1
      <4> QED
        BY <4>3, <4>4
    <3>2. CASE left # 0
      <4>1. dataloader' + batches_left' = passes * e
        BY <2>1, <3>2
      <4> QED
        BY <2>1, <3>2, <4>1
    <3> QED
      BY <3>1, <3>2
  <2> QED
    BY <1>1, <2>1, <2>3, <2>4
<1> QED
  BY <1>2, <1>3

-----------------------------------------------------------------------------
(* What a step leaves alone.                                               *)

LEMMA EachStepFixed == UNCHANGED config => EachStep' = EachStep
  BY DEF EachStep, FirstBatch

\* a history stays in order, and what may follow it stays the same
LEMMA HistoryKept ==
  ASSUME WeightsInv, UNCHANGED << weights, config, incarnation >>,
         NEW role \in EachStep, NEW r \in Ranks
  PROVE  /\ HistoryInv(weights[role][r])
         /\ InOrder(weights[role][r])'
         /\ \A id : MayFollow(weights[role][r], id)' = MayFollow(weights[role][r], id)
         /\ Len(weights[role][r])' = Len(weights[role][r])
<1>1. HistoryInv(weights[role][r])
  BY DEF WeightsInv
<1>2. InOrder(weights[role][r])
  BY <1>1 DEF HistoryInv
<1>3. InOrder(weights[role][r])'
  BY <1>2 DEF InOrder, Follows
<1>4. \A id : MayFollow(weights[role][r], id)' = MayFollow(weights[role][r], id)
  BY DEF MayFollow, Follows
<1> QED
  BY <1>1, <1>3, <1>4

\* histories are judged alike as long as the life lasts
LEMMA JudgedAlike ==
  ASSUME UNCHANGED << config, incarnation >>
  PROVE  \A trained, place :
           /\ InOrder(trained) => InOrder(trained)'
           /\ MayResume(trained, place) => MayResume(trained, place)'
           /\ MayFollow(trained, place) => MayFollow(trained, place)'
<1> SUFFICES ASSUME NEW trained, NEW place
             PROVE  /\ InOrder(trained) => InOrder(trained)'
                    /\ MayResume(trained, place) => MayResume(trained, place)'
                    /\ MayFollow(trained, place) => MayFollow(trained, place)'
  OBVIOUS
<1>1. InOrder(trained) => InOrder(trained)'
  BY DEF InOrder, Follows
<1>2. MayResume(trained, place) => MayResume(trained, place)'
  BY DEF MayResume
<1>3. MayFollow(trained, place) => MayFollow(trained, place)'
  BY DEF MayFollow, Follows
<1> QED
  BY <1>1, <1>2, <1>3

LEMMA TrackedUnmoved ==
  ASSUME TrackedInv, UNCHANGED << diskVars, config, incarnation >>, pc' = "load" => pc = "load"
  PROVE  TrackedInv'
<1>1. UNCHANGED << shards, data, tracker >> /\ TrackedStep' = TrackedStep
  BY DEF diskVars, TrackedStep
<1>2. EachStep' = EachStep
  BY EachStepFixed
<1> SUFFICES ASSUME IsWritten(tracker), NEW role \in EachStep, NEW r \in Ranks
             PROVE  TrackedHistory(role, r)'
  BY <1>1, <1>2 DEF TrackedInv, IsWritten
<1>3. TrackedHistory(role, r)
  BY DEF TrackedInv
<1>4. PICK trained : trained = shards[TrackedStep][role][r].content
  OBVIOUS
<1>5. PICK place : place = data[TrackedStep].content
  OBVIOUS
<1>6. IsWritten(shards[TrackedStep][role][r]) =>
        /\ Len(trained) = TrackedStep /\ InOrder(trained)' /\ MayResume(trained, place)'
        /\ pc' = "load" => trained[Len(trained)][2] < incarnation
  BY <1>3, <1>4, <1>5, JudgedAlike DEF TrackedHistory
<1>7. /\ trained = shards'[TrackedStep'][role][r].content
      /\ place = data'[TrackedStep'].content
      /\ IsWritten(shards[TrackedStep][role][r])' <=> IsWritten(shards[TrackedStep][role][r])
  BY <1>1, <1>4, <1>5 DEF IsWritten
<1>8. IsWritten(shards[TrackedStep][role][r])' =>
        /\ Len(shards[TrackedStep][role][r].content)' = TrackedStep'
        /\ InOrder(shards[TrackedStep][role][r].content)'
        /\ MayResume(shards[TrackedStep][role][r].content, data[TrackedStep].content)'
        /\ pc' = "load" => trained[Len(trained)][2] < incarnation'
  BY <1>1, <1>6, <1>7 DEF InOrder, MayResume
<1> QED
  BY <1>7, <1>8 DEF TrackedHistory

\* the places that say nothing about a save
LEMMA NoSave ==
  ASSUME SavesStep, pc # "saving", pc' \notin {"saving", "validate", "save"}, UNCHANGED saveVars
  PROVE  SavesStep' /\ SavedSoFar'
  BY DEF SavesStep, SavedSoFar, saveVars

-----------------------------------------------------------------------------
(* The start of a life.                                                    *)

LEMMA StartStep ==
  ASSUME OneStepInv, Start, UNCHANGED batch_data_future
  PROVE  OneStepInv'
<1> USE DEF At, Goto, Places, TakesBatches, InTraining, AfterUpdate
<1>1. /\ pc = "load" /\ pc' \in {"sync", "failed"}
      /\ UNCHANGED << diskVars, saveVars, epoch, batches_left, first_sync, batch, config,
                      incarnation >>
  BY DEF Start, StartFromScratch, ResumeFromCheckpoint, ResumeFails, LoadTracked,
         checkpointVars, batchVars, jobVars
<1>2. /\ first_sync /\ dataloader = 0 /\ global_steps = 0 /\ batch = NoBatch
      /\ batch_data_future = NoTask
  BY <1>1 DEF OneStepInv, TaskInv
<1>3. TypeInv'
  <2>1. CASE ResumeFromCheckpoint
    BY <2>1, ResumeTypes DEF OneStepInv
  <2>2. CASE StartFromScratch \/ ResumeFails
    <3>1. Quiet
      BY <2>2 DEF Quiet
    <3>2. DriverTyped' /\ BatchTyped' /\ UNCHANGED << checkpointVars, jobVars >>
      BY <3>1, QuietTypes, QuietFrame DEF OneStepInv
    <3> QED
      BY <3>2 DEF OneStepInv, DriverTyped, TypeInv, checkpointVars, diskVars, memoryVars, saveVars,
                  jobVars
  <2> QED
    BY <2>1, <2>2 DEF Start
<1>4. PassInv'
  BY <1>1 DEF PassInv
<1>5. FirstLifeInv'
  <2>1. CASE ResumeFromCheckpoint
    <3>1. tracker # Missing
      BY <2>1 DEF ResumeFromCheckpoint, LoadTracked, CanLoad, IsWritten, Missing
    <3>2. ~(incarnation = 0 /\ DataForAllSteps)
      BY <1>1, <3>1 DEF OneStepInv, FirstLifeInv
    <3> QED
      BY <1>1, <3>2 DEF FirstLifeInv, DataForAllSteps
  <2>2. CASE StartFromScratch \/ ResumeFails
    <3>1. UNCHANGED << global_steps, dataloader >>
      BY <2>2 DEF StartFromScratch, ResumeFails, checkpointVars, memoryVars
    <3> QED
      BY <1>1, <1>2, <3>1 DEF FirstLifeInv
  <2> QED
    BY <2>1, <2>2 DEF Start
<1>6. TaskInv'
  <2>1. ~Ahead'
    BY <1>2 DEF Ahead, NoTask
  <2>2. batch_data_future' = NoTask /\ NoTask # EndOfData
    BY <1>2 DEF NoTask, EndOfData
  <2> QED
    BY <1>1, <1>2, <2>1, <2>2 DEF TaskInv
<1>7. WeightsInv'
  <2> SUFFICES ASSUME NEW role \in EachStep, NEW r \in Ranks
               PROVE  HistoryInv(weights[role][r])'
    BY <1>1, EachStepFixed DEF WeightsInv
  <2>1. CASE StartFromScratch \/ ResumeFails
    <3>1. UNCHANGED << weights, global_steps, dataloader >>
      BY <2>1 DEF StartFromScratch, ResumeFails, checkpointVars, memoryVars
    <3>2. InOrder(weights[role][r])' /\ weights[role][r] = << >>
      BY <1>1, <3>1, HistoryKept DEF OneStepInv, HistoryInv
    <3>3. Len(weights'[role][r]) = 0 /\ MayFollow(weights[role][r], 1)'
      BY <3>1, <3>2 DEF MayFollow
    <3> QED
      BY <1>1, <1>2, <3>1, <3>2, <3>3 DEF HistoryInv
  <2>2. CASE ResumeFromCheckpoint
    <3>1. /\ IsWritten(tracker) /\ IsWritten(shards[TrackedStep][role][r])
          /\ weights'[role][r] = shards[TrackedStep][role][r].content
          /\ dataloader' = LoadedDataloader /\ global_steps' = TrackedStep
          /\ pc' = "sync"
      BY <2>2 DEF ResumeFromCheckpoint, LoadTracked, CanLoad, EachStep
    <3>2. PICK trained : trained = shards[TrackedStep][role][r].content
      OBVIOUS
    <3>3. IsWritten(data[TrackedStep]) /\ dataloader' = data[TrackedStep].content
      BY <3>1 DEF OneStepInv, TrackedInv, LoadedDataloader, IsWritten, Missing
    <3>4. /\ Len(trained) = TrackedStep /\ InOrder(trained)
          /\ MayResume(trained, dataloader')
          /\ trained[Len(trained)][2] < incarnation
      BY <1>1, <3>1, <3>2, <3>3 DEF OneStepInv, TrackedInv, TrackedHistory
    <3>5. trained \in Contents
      BY <3>1, <3>2, <1>3 DEF TypeInv, EachStep
    <3>6. /\ trained # << >> /\ Len(trained) \in Nat
          /\ trained[Len(trained)] \in Nat \X Nat
      BY <3>4, <3>5 DEF MayResume, Contents
    <3>7. MayFollow(trained, dataloader' + 1)
      <4> DEFINE last == trained[Len(trained)]
      <4>1. dataloader' \in Nat
        BY <1>3 DEF TypeInv
      <4>2. last[1] \in Nat /\ last[2] \in Nat /\ last[2] < incarnation
        BY <3>4, <3>6
      <4>3. << dataloader' + 1, incarnation >>[1] - last[1] - 1 = dataloader' - last[1]
        BY <4>1, <4>2
      <4>4. IF Len(trained) < config.total_training_steps
            THEN dataloader' = last[1] + 1 \/ (dataloader' = last[1] /\ last[1] % config.epoch_len = 0)
            ELSE dataloader' = last[1]
        BY <3>4 DEF MayResume
      <4> QED
        BY <3>6, <4>1, <4>2, <4>3, <4>4 DEF MayFollow, Follows
    <3>8. weights'[role][r] = trained
      BY <3>1, <3>2
    <3>9. InOrder(weights[role][r])'
      BY <1>1, <3>4, <3>8 DEF InOrder, Follows
    <3>10. MayFollow(weights[role][r], dataloader + 1)'
      BY <1>1, <3>7, <3>8 DEF MayFollow, Follows
    <3> QED
      BY <3>1, <3>4, <3>8, <3>9, <3>10 DEF HistoryInv
  <2> QED
    BY <2>1, <2>2 DEF Start
<1>8. TrackerBehind'
  <2>1. CASE ResumeFromCheckpoint
    BY <1>1, <2>1 DEF ResumeFromCheckpoint, TrackerBehind, TrackedStep, diskVars
  <2>2. CASE StartFromScratch
    BY <1>1, <2>2 DEF StartFromScratch, NoTracker, Missing, IsWritten, TrackerBehind, diskVars
  <2>3. CASE ResumeFails
    BY <2>3 DEF ResumeFails, TrackerBehind
  <2> QED
    BY <2>1, <2>2, <2>3 DEF Start
<1>9. SavesStep' /\ SavedSoFar'
  BY <1>1, NoSave DEF OneStepInv
<1>10. TrackedInv'
  BY <1>1, TrackedUnmoved DEF OneStepInv
<1> QED
  BY <1>1, <1>3, <1>4, <1>5, <1>6, <1>7, <1>8, <1>9, <1>10 DEF OneStepInv

\* the first batch of a life
LEMMA StartPipelineStep ==
  ASSUME OneStepInv, StartPipeline
  PROVE  OneStepInv'
<1> USE DEF At, Goto, Places, TakesBatches, InTraining, AfterUpdate
<1>1. /\ pc = "sync" /\ pc' = "next_batch" /\ global_steps' = global_steps + 1
      /\ UNCHANGED << diskVars, saveVars, previous_saved_paths, max_ckpt_to_keep, weights, batch,
                      config, incarnation >>
  BY DEF StartPipeline, batchVars, jobVars
<1>2. PICK left \in PassLengths : _async_gen_next_batch(0, left, global_steps')
  BY DEF StartPipeline
<1>3. /\ config \in Configs /\ dataloader \in Nat /\ global_steps \in Nat /\ global_steps' \in Nat
  BY <1>1 DEF OneStepInv, TypeInv
<1>4. left \in Nat /\ (dataloader = 0 => left > 0)
  BY <1>2, <1>3, PassLengthsEffect
<1>5. PICK passes \in Nat : passes > 0 /\ dataloader + left = passes * config.epoch_len
  BY <1>2, <1>3, PassLengthsEffect
<1>6. /\ epoch' \in Nat /\ batches_left' \in Nat /\ dataloader' \in Nat
      /\ \E p \in Nat : p > epoch' /\ dataloader' + batches_left' = p * config.epoch_len
      /\ \/ /\ batch_data_future' = EndOfData
            /\ dataloader' = dataloader
            /\ dataloader % config.epoch_len = 0
            /\ dataloader >= config.total_epochs * config.epoch_len
         \/ \E b : /\ batch_data_future' = GeneratingAhead(b)
                   /\ IsBatch(b)
                   /\ b.id = dataloader' /\ b.step = global_steps'
                   /\ dataloader' = dataloader + 1
  BY <1>2, <1>3, <1>4, <1>5, AsyncGenEffect
<1>7. dataloader = 0 => dataloader' = 1 /\ batch_data_future' # EndOfData
  <2>1. dataloader = 0 => dataloader' = 1
    BY <1>2, <1>4 DEF _async_gen_next_batch
  <2> QED
    BY <1>3, <1>6, <2>1 DEF EndOfData, GeneratingAhead
<1>8. TypeInv'
  <2>1. BatchTyped'
    BY <1>1 DEF OneStepInv, TypeInv, BatchTyped
  <2> QED
    BY <1>1, <1>3, <1>6, <2>1 DEF OneStepInv, TypeInv, diskVars, saveVars, WithBatch
<1>9. PassInv'
  BY <1>1, <1>6 DEF PassInv
<1>10. FirstLifeInv'
  <2>1. incarnation = 0 /\ DataForAllSteps => dataloader = 0 /\ global_steps = 0
    BY <1>1 DEF OneStepInv, FirstLifeInv
  <2> QED
    BY <1>1, <1>7, <2>1 DEF FirstLifeInv, DataForAllSteps
<1>11. TaskInv'
  <2>1. batch' = NoBatch
    BY <1>1 DEF OneStepInv, TaskInv
  <2>2. CASE batch_data_future' = EndOfData
    <3>1. OutOfData'
      <4>1. incarnation = 0 /\ DataForAllSteps => dataloader = 0
        BY <1>1 DEF OneStepInv, FirstLifeInv
      <4>2. DataForAllSteps => incarnation > 0
        BY <1>7, <2>2, <4>1 DEF OneStepInv, TypeInv
      <4>3. dataloader' = dataloader /\ dataloader % config.epoch_len = 0
            /\ dataloader >= config.total_epochs * config.epoch_len
        BY <1>6, <2>2 DEF EndOfData, GeneratingAhead
      <4> QED
        BY <1>1, <4>2, <4>3 DEF OutOfData, DataForAllSteps
    <3> QED
      BY <1>1, <2>1, <2>2, <3>1 DEF TaskInv, Ahead, EndOfData, NoTask
  <2>3. CASE batch_data_future' # EndOfData
    <3>1. PICK b : /\ batch_data_future' = GeneratingAhead(b) /\ IsBatch(b)
                   /\ b.id = dataloader' /\ b.step = global_steps'
      BY <1>6, <2>3
    <3>2. /\ NextBatch' = b /\ Ahead'
          /\ GeneratingAhead(b) # NoTask /\ GeneratingAhead(b) # EndOfData
      BY <3>1 DEF NextBatch, GeneratingAhead, Ahead, NoTask, EndOfData
    <3>3. IsBatch(NextBatch)'
      BY <3>1, <3>2 DEF IsBatch
    <3>4. batch_data_future' = GeneratingAhead(NextBatch)'
      BY <3>1, <3>2 DEF GeneratingAhead
    <3> QED
      BY <1>1, <2>1, <3>1, <3>2, <3>3, <3>4 DEF TaskInv
  <2> QED
    BY <2>2, <2>3
<1>12. WeightsInv'
  <2> SUFFICES ASSUME NEW role \in EachStep, NEW r \in Ranks
               PROVE  HistoryInv(weights[role][r])'
    BY <1>1, EachStepFixed DEF WeightsInv
  <2>1. HistoryInv(weights[role][r]) /\ InOrder(weights[role][r])'
    <3>1. WeightsInv
      BY DEF OneStepInv
    <3> QED
      BY <1>1, <3>1, HistoryKept
  <2>2. Ahead' => dataloader' = dataloader + 1
    BY <1>6 DEF Ahead, EndOfData
  <2>3. Len(weights[role][r]) = global_steps /\ MayFollow(weights[role][r], dataloader + 1)
    BY <1>1, <2>1 DEF HistoryInv
  <2>4. Ahead' => MayFollow(weights[role][r], dataloader)'
    BY <1>1, <2>2, <2>3 DEF MayFollow, Follows
  <2> QED
    BY <1>1, <1>3, <2>1, <2>3, <2>4 DEF HistoryInv
<1>13. TrackerBehind'
  <2>1. IsWritten(tracker) => TrackedStep = global_steps
    BY <1>1 DEF OneStepInv, TrackerBehind
  <2> QED
    BY <1>1, <1>3, <2>1 DEF TrackerBehind, TrackedStep, diskVars
<1>14. SavesStep' /\ SavedSoFar'
  BY <1>1, NoSave DEF OneStepInv
<1>15. TrackedInv'
  BY <1>1, TrackedUnmoved DEF OneStepInv
<1> QED
  BY <1>1, <1>8, <1>9, <1>10, <1>11, <1>12, <1>13, <1>14, <1>15 DEF OneStepInv

-----------------------------------------------------------------------------
(* The steps of the training loop.                                         *)

\* the weights stay in order while nothing is trained
LEMMA OrderKept ==
  ASSUME WeightsInv, UNCHANGED << weights, config, incarnation >>,
         \A role \in EachStep, r \in Ranks :
           HistoryInv(weights[role][r]) /\ InOrder(weights[role][r])' => HistoryInv(weights[role][r])'
  PROVE  WeightsInv'
<1>1. EachStep' = EachStep
  BY EachStepFixed
<1> SUFFICES ASSUME NEW role \in EachStep, NEW r \in Ranks
             PROVE  HistoryInv(weights[role][r])'
  BY <1>1 DEF WeightsInv
<1> QED
  BY HistoryKept

\* the end of the generation changes the batch, not its place
LEMMA FinishGenerationStep ==
  ASSUME OneStepInv, FinishGeneration
  PROVE  OneStepInv'
<1>1. /\ UNCHANGED << diskVars, saveVars, previous_saved_paths, max_ckpt_to_keep, weights,
                      dataloader, pc, global_steps, epoch, batches_left, first_sync, batch,
                      config, incarnation >>
      /\ batch_data_future.at = "generating"
  BY DEF FinishGeneration, vars, checkpointVars, memoryVars, driverVars, batchVars, jobVars
<1>2. /\ Ahead /\ IsBatch(NextBatch)
      /\ batch_data_future # NoTask
  BY <1>1 DEF OneStepInv, TaskInv, Ahead, NoTask
<1>3. PICK b : /\ batch_data_future' = Ready(b)
               /\ IsBatch(b) /\ b.id = NextBatch.id /\ b.step = NextBatch.step
  <2>1. PICK order, rows :
          batch_data_future' = Ready([NextBatch EXCEPT !.order = order, !.rows = rows])
    BY DEF FinishGeneration, NextBatch
  <2> DEFINE b == [NextBatch EXCEPT !.order = order, !.rows = rows]
  <2>2. /\ b = [field \in DOMAIN NextBatch |-> b[field]]
        /\ b.id = NextBatch.id /\ b.step = NextBatch.step
    BY <1>2 DEF IsBatch
  <2> HIDE DEF b
  <2>3. DOMAIN b = DOMAIN NextBatch
    BY <2>2
  <2>4. IsBatch(b)
    BY <1>2, <2>2, <2>3 DEF IsBatch
  <2> QED
    BY <2>1, <2>2, <2>4 DEF b
<1>4. /\ Ahead' /\ NextBatch' = b
      /\ Ready(b) # NoTask /\ Ready(b) # EndOfData
  BY <1>3 DEF Ahead, NextBatch, Ready, NoTask, EndOfData
<1>5. \A id : TaskAfter(id)' <=> TaskAfter(id)
  BY <1>1, <1>2, <1>3, <1>4 DEF TaskAfter, IsLastStep
<1>6. TypeInv'
  BY <1>1 DEF OneStepInv, TypeInv, BatchTyped, diskVars, saveVars
<1>7. PassInv' /\ FirstLifeInv'
  BY <1>1 DEF OneStepInv, PassInv, FirstLifeInv, IsLastStep, DataForAllSteps, diskVars
<1>8. TaskInv'
  <2>1. IsBatch(NextBatch)' /\ batch_data_future' = Ready(NextBatch)'
    BY <1>3, <1>4 DEF IsBatch, Ready
  <2>2. pc \in InTraining => TaskAfter(batch.id)
    BY DEF OneStepInv, TaskInv
  <2>3. pc \in InTraining => TaskAfter(batch.id)'
    BY <1>1, <1>5, <2>2 DEF TaskAfter
  <2>4. OutOfData' <=> OutOfData
    BY <1>1 DEF OutOfData, DataForAllSteps
  <2>5. pc \in InTraining => IsBatch(batch)'
    BY <1>1 DEF OneStepInv, TaskInv, IsBatch
  <2>6. IsLastStep' <=> IsLastStep
    BY <1>1 DEF IsLastStep
  <2> QED
    BY <1>1, <1>2, <1>3, <1>4, <2>1, <2>3, <2>4, <2>5, <2>6 DEF OneStepInv, TaskInv
<1>9. WeightsInv'
  <2> SUFFICES ASSUME NEW role \in EachStep, NEW r \in Ranks,
                      HistoryInv(weights[role][r]), InOrder(weights[role][r])'
               PROVE  HistoryInv(weights[role][r])'
    BY <1>1, OrderKept DEF OneStepInv
  <2>1. \A id : MayFollow(weights[role][r], id)' <=> MayFollow(weights[role][r], id)
    BY <1>1 DEF MayFollow, Follows
  <2>2. weights'[role][r] = weights[role][r]
    BY <1>1
  <2>3. pc \in AfterUpdate => TaskAfter(weights[role][r][Len(weights[role][r])][1])'
    BY <1>1, <1>5 DEF HistoryInv, TaskAfter
  <2>4. /\ pc = "sync" => MayFollow(weights[role][r], dataloader + 1)'
        /\ pc = "next_batch" => MayFollow(weights[role][r], dataloader)'
        /\ pc \in InTraining => MayFollow(weights[role][r], batch.id)'
    BY <1>1, <1>2, <2>1 DEF HistoryInv, MayFollow, Follows
  <2> QED
    BY <1>1, <2>2, <2>3, <2>4 DEF HistoryInv
<1>10. TrackerBehind'
  BY <1>1 DEF OneStepInv, TrackerBehind, TrackedStep, diskVars
<1>11. SavesStep'
  BY <1>1 DEF OneStepInv, SavesStep, saveVars
<1>12. SavedSoFar'
  BY <1>1 DEF OneStepInv, SavedSoFar, saveVars, diskVars, OfThisSave, SavingRole
<1>13. TrackedInv'
  <2>1. pc # "load"
    BY <1>2 DEF OneStepInv, TaskInv, TakesBatches, InTraining, AfterUpdate
  <2> QED
    BY <1>1, <2>1, TrackedUnmoved DEF OneStepInv
<1> QED
  BY <1>1, <1>6, <1>7, <1>8, <1>9, <1>10, <1>11, <1>12, <1>13 DEF OneStepInv

\* a job that finds no batch fails
LEMMA UnpackNoneStep ==
  ASSUME OneStepInv, UnpackNone
  PROVE  OneStepInv'
<1> USE DEF At, Goto, Places, TakesBatches, InTraining, AfterUpdate
<1>1. /\ pc = "next_batch" /\ pc' = "failed" /\ batch_data_future = EndOfData
      /\ UNCHANGED << diskVars, saveVars, previous_saved_paths, max_ckpt_to_keep, weights,
                      dataloader, global_steps, epoch, batches_left, first_sync, batch,
                      config, incarnation, batch_data_future >>
  BY DEF UnpackNone, checkpointVars, memoryVars, batchVars, jobVars
<1>2. OutOfData /\ batch = NoBatch
  BY <1>1 DEF OneStepInv, TaskInv
<1>3. TypeInv'
  BY <1>1 DEF OneStepInv, TypeInv, BatchTyped, diskVars, saveVars, WithBatch
<1>4. PassInv' /\ FirstLifeInv'
  BY <1>1 DEF PassInv, FirstLifeInv
<1>5. TaskInv'
  <2>1. OutOfData' /\ batch' = NoBatch
    BY <1>1, <1>2 DEF OutOfData, DataForAllSteps
  <2>2. ~Ahead'
    BY <1>1 DEF Ahead, EndOfData
  <2> QED
    BY <1>1, <2>1, <2>2 DEF TaskInv
<1>6. WeightsInv'
  BY <1>1, OrderKept DEF OneStepInv, HistoryInv
<1>7. TrackerBehind'
  BY <1>1 DEF TrackerBehind
<1>8. SavesStep' /\ SavedSoFar'
  BY <1>1, NoSave DEF OneStepInv
<1>9. TrackedInv'
  BY <1>1, TrackedUnmoved DEF OneStepInv
<1> QED
  BY <1>1, <1>3, <1>4, <1>5, <1>6, <1>7, <1>8, <1>9 DEF OneStepInv

\* the batch is taken from the task, and the next task begins
LEMMA GenerateStep ==
  ASSUME OneStepInv, _fit_generate
  PROVE  OneStepInv'
<1> USE DEF At, Goto, Places, TakesBatches, InTraining, AfterUpdate
<1>1. /\ pc = "next_batch" /\ pc' = "old_log_prob" /\ batch_data_future.at = "ready"
      /\ global_steps \in Steps
      /\ batch' = NextBatch
      /\ UNCHANGED << diskVars, saveVars, previous_saved_paths, max_ckpt_to_keep, weights,
                      global_steps, first_sync, config, incarnation >>
  BY DEF _fit_generate, NextBatch, jobVars
<1>2. /\ IsBatch(batch') /\ batch'.id = dataloader /\ batch'.step = global_steps
  BY <1>1 DEF OneStepInv, TaskInv, Ahead
<1>3. /\ config \in Configs /\ dataloader \in Nat /\ global_steps \in Nat
      /\ epoch \in Nat /\ batches_left \in Nat
  BY DEF OneStepInv, TypeInv
<1>4. PICK passes \in Nat :
        passes > epoch /\ dataloader + batches_left = passes * config.epoch_len
  BY <1>1 DEF OneStepInv, PassInv
<1>5. IsLastStep' = IsLastStep
  BY <1>1 DEF IsLastStep
<1>6. incarnation = 0 /\ DataForAllSteps => dataloader = global_steps
  BY <1>1 DEF OneStepInv, FirstLifeInv
<1>7. /\ epoch' \in Nat /\ batches_left' \in Nat /\ dataloader' \in Nat
      /\ \E p \in Nat : p > epoch' /\ dataloader' + batches_left' = p * config.epoch_len
      /\ \/ IsLastStep /\ batch_data_future' = NoTask /\ dataloader' = dataloader
         \/ /\ ~IsLastStep
            /\ batch_data_future' = EndOfData
            /\ dataloader' = dataloader
            /\ dataloader % config.epoch_len = 0
            /\ dataloader >= config.total_epochs * config.epoch_len
         \/ /\ ~IsLastStep
            /\ \E b : /\ batch_data_future' = GeneratingAhead(b)
                      /\ IsBatch(b)
                      /\ b.id = dataloader' /\ b.step = global_steps + 1
                      /\ dataloader' = dataloader + 1
  <2>1. CASE IsLastStep
    <3>1. batch_data_future' = NoTask /\ UNCHANGED << epoch, batches_left, dataloader >>
      BY <2>1 DEF _fit_generate, LookAheadDue
    <3> QED
      BY <1>3, <1>4, <2>1, <3>1
  <2>2. CASE ~IsLastStep
    <3>1. _async_gen_next_batch(epoch, batches_left, global_steps + 1)
      BY <2>2 DEF _fit_generate, LookAheadDue
    <3> QED
      BY <1>3, <1>4, <2>2, <3>1, AsyncGenEffect
  <2> QED
    BY <2>1, <2>2
<1>8. incarnation = 0 /\ DataForAllSteps /\ ~IsLastStep => batch_data_future' # EndOfData
  <2> SUFFICES ASSUME incarnation = 0, DataForAllSteps, ~IsLastStep,
                      batch_data_future' = EndOfData
               PROVE  FALSE
    OBVIOUS
  <2>1. dataloader >= config.total_epochs * config.epoch_len
    BY <1>7 DEF EndOfData, GeneratingAhead
  <2>2. dataloader < config.total_training_steps
    BY <1>3, <1>6, ConfigTypes DEF IsLastStep
  <2> QED
    BY <1>3, <2>1, <2>2, ConfigTypes DEF DataForAllSteps
<1>9. NoTask # EndOfData /\ \A b : GeneratingAhead(b) # EndOfData /\ GeneratingAhead(b) # NoTask
  BY DEF NoTask, EndOfData, GeneratingAhead
<1>10. Ahead' => dataloader' = dataloader + 1
  BY <1>7 DEF Ahead, NoTask, EndOfData
<1>11. ~Ahead' => batch_data_future' \in {NoTask, EndOfData} /\ dataloader' = dataloader
  BY <1>7 DEF Ahead, GeneratingAhead
<1>12. TaskAfter(batch.id)'
  <2>1. dataloader' = IF Ahead' THEN batch'.id + 1 ELSE batch'.id
    BY <1>2, <1>10, <1>11
  <2>2. batch_data_future' = NoTask <=> IsLastStep
    BY <1>7, <1>9
  <2> QED
    BY <1>5, <2>1, <2>2 DEF TaskAfter, NoTask
<1>13. TypeInv'
  <2>1. BatchTyped'
    BY <1>2 DEF BatchTyped, IsBatch
  <2> QED
    BY <1>1, <1>3, <1>7, <2>1 DEF OneStepInv, TypeInv, diskVars, saveVars, WithBatch
<1>14. PassInv'
  BY <1>1, <1>7 DEF PassInv
<1>15. FirstLifeInv'
  <2>1. incarnation = 0 /\ DataForAllSteps =>
          dataloader' = IF IsLastStep THEN global_steps ELSE global_steps + 1
    BY <1>6, <1>7, <1>8
  <2> QED
    BY <1>1, <1>5, <2>1 DEF FirstLifeInv, DataForAllSteps, IsLastStep
<1>16. TaskInv'
  <2>1. Ahead' => /\ (batch_data_future \in {GeneratingAhead(NextBatch), Ready(NextBatch)})'
                  /\ IsBatch(NextBatch)'
                  /\ (NextBatch.id = dataloader)'
                  /\ NextBatch'.step = global_steps' + 1
    <3> SUFFICES ASSUME Ahead'
                 PROVE  /\ (batch_data_future \in {GeneratingAhead(NextBatch), Ready(NextBatch)})'
                        /\ IsBatch(NextBatch)'
                        /\ (NextBatch.id = dataloader)'
                        /\ NextBatch'.step = global_steps' + 1
      OBVIOUS
    <3>1. PICK b : /\ batch_data_future' = GeneratingAhead(b) /\ IsBatch(b)
                   /\ b.id = dataloader' /\ b.step = global_steps + 1
      BY <1>7 DEF Ahead, NoTask, EndOfData
    <3>2. NextBatch' = b
      BY <3>1 DEF NextBatch, GeneratingAhead
    <3>3. IsBatch(NextBatch)'
      BY <3>1, <3>2 DEF IsBatch
    <3>4. (batch_data_future \in {GeneratingAhead(NextBatch), Ready(NextBatch)})'
      BY <3>1, <3>2 DEF GeneratingAhead
    <3> QED
      BY <1>1, <3>1, <3>2, <3>3, <3>4
  <2>2. batch_data_future' = EndOfData => OutOfData'
    <3> SUFFICES ASSUME batch_data_future' = EndOfData
                 PROVE  OutOfData'
      OBVIOUS
    <3>1. /\ dataloader' = dataloader /\ dataloader % config.epoch_len = 0
          /\ dataloader >= config.total_epochs * config.epoch_len
          /\ ~IsLastStep
      BY <1>7, <1>9
    <3>2. DataForAllSteps => incarnation > 0
      BY <1>8, <3>1 DEF OneStepInv, TypeInv
    <3> QED
      BY <1>1, <3>1, <3>2 DEF OutOfData, DataForAllSteps
  <2>3. IsBatch(batch)'
    BY <1>2 DEF IsBatch
  <2> QED
    BY <1>1, <1>2, <1>11, <1>12, <2>1, <2>2, <2>3 DEF TaskInv
<1>17. WeightsInv'
  <2> SUFFICES ASSUME NEW role \in EachStep, NEW r \in Ranks,
                      HistoryInv(weights[role][r]), InOrder(weights[role][r])'
               PROVE  HistoryInv(weights[role][r])'
    BY <1>1, OrderKept DEF OneStepInv
  <2>1. Len(weights[role][r]) = global_steps - 1 /\ MayFollow(weights[role][r], dataloader)
    BY <1>1 DEF HistoryInv, Ahead
  <2>2. MayFollow(weights[role][r], batch.id)'
    BY <1>1, <1>2, <2>1 DEF MayFollow, Follows
  <2> QED
    BY <1>1, <2>1, <2>2 DEF HistoryInv
<1>18. TrackerBehind'
  BY <1>1 DEF OneStepInv, TrackerBehind, TrackedStep, diskVars
<1>19. SavesStep' /\ SavedSoFar'
  BY <1>1, NoSave DEF OneStepInv
<1>20. TrackedInv'
  BY <1>1, TrackedUnmoved DEF OneStepInv
<1> QED
  BY <1>1, <1>13, <1>14, <1>15, <1>16, <1>17, <1>18, <1>19, <1>20 DEF OneStepInv

\* computing on the batch
LEMMA TrainBatchStep ==
  ASSUME OneStepInv, TrainBatch, UNCHANGED batch_data_future
  PROVE  OneStepInv'
<1> USE DEF At, Goto, Places, TakesBatches, InTraining, AfterUpdate
<1>1. /\ pc \in InTraining /\ pc' \in InTraining
      /\ UNCHANGED << diskVars, saveVars, previous_saved_paths, max_ckpt_to_keep, weights,
                      dataloader, global_steps, epoch, batches_left, first_sync, config,
                      incarnation, batch_data_future >>
  <2>1. CASE \E w \in Workers : WorkerComputes(w)
    BY <2>1 DEF WorkerComputes, checkpointVars, memoryVars, driverVars, jobVars
  <2>2. CASE CollectAnswers
    BY <2>2 DEF CollectAnswers, checkpointVars, memoryVars, jobVars
  <2>3. CASE compute_advantage
    BY <2>3 DEF compute_advantage, checkpointVars, memoryVars, jobVars
  <2> QED
    BY <2>1, <2>2, <2>3 DEF TrainBatch
<1>2. IsBatch(batch) /\ batch.step = global_steps /\ TaskAfter(batch.id)
  BY <1>1 DEF OneStepInv, TaskInv
<1>3. IsBatch(batch') /\ batch'.id = batch.id /\ batch'.step = batch.step
  <2>1. \A results :
          LET b == [batch EXCEPT !.old_log_probs = results]
          IN  IsBatch(b) /\ b.id = batch.id /\ b.step = batch.step
    BY <1>2 DEF IsBatch
  <2>2. \A results :
          LET b == [batch EXCEPT !.values = results]
          IN  IsBatch(b) /\ b.id = batch.id /\ b.step = batch.step
    BY <1>2 DEF IsBatch
  <2>3. \A results :
          LET b == [batch EXCEPT !.advantages = results]
          IN  IsBatch(b) /\ b.id = batch.id /\ b.step = batch.step
    BY <1>2 DEF IsBatch
  <2>4. CASE \E w \in Workers : WorkerComputes(w)
    BY <1>2, <2>4 DEF WorkerComputes
  <2>5. CASE CollectAnswers
    BY <2>1, <2>2, <2>5 DEF CollectAnswers
  <2>6. CASE compute_advantage
    BY <2>3, <2>6 DEF compute_advantage
  <2> QED
    BY <2>4, <2>5, <2>6 DEF TrainBatch
<1>4. TypeInv'
  <2>1. Quiet
    BY DEF TrainBatch, Quiet
  <2>2. DriverTyped' /\ BatchTyped' /\ UNCHANGED << checkpointVars, jobVars >>
    BY <2>1, QuietTypes, QuietFrame DEF OneStepInv
  <2> QED
    BY <2>2 DEF OneStepInv, DriverTyped, TypeInv, checkpointVars, diskVars, memoryVars, saveVars,
                jobVars
<1>5. Ahead' = Ahead /\ NextBatch' = NextBatch /\ IsLastStep' = IsLastStep
  BY <1>1 DEF Ahead, NextBatch, IsLastStep
<1>6. PassInv' /\ FirstLifeInv'
  BY <1>1, <1>5 DEF OneStepInv, PassInv, FirstLifeInv, DataForAllSteps
<1>7. TaskInv'
  <2>1. OutOfData' <=> OutOfData
    BY <1>1 DEF OutOfData, DataForAllSteps
  <2>2. IsBatch(batch)' /\ (IsBatch(NextBatch) => IsBatch(NextBatch)')
    BY <1>1, <1>3, <1>5 DEF IsBatch
  <2>3. TaskAfter(batch.id)'
    BY <1>1, <1>2, <1>3, <1>5 DEF TaskAfter
  <2>4. Ahead => (batch_data_future \in {GeneratingAhead(NextBatch), Ready(NextBatch)})'
    BY <1>1, <1>5 DEF OneStepInv, TaskInv, GeneratingAhead, Ready
  <2> QED
    BY <1>1, <1>2, <1>3, <1>5, <2>1, <2>2, <2>3, <2>4 DEF OneStepInv, TaskInv
<1>8. WeightsInv'
  <2> SUFFICES ASSUME NEW role \in EachStep, NEW r \in Ranks,
                      HistoryInv(weights[role][r]), InOrder(weights[role][r])'
               PROVE  HistoryInv(weights[role][r])'
    BY <1>1, OrderKept DEF OneStepInv
  <2>1. MayFollow(weights[role][r], batch.id)'
    BY <1>1, <1>3 DEF HistoryInv, MayFollow, Follows
  <2> QED
    BY <1>1, <2>1 DEF HistoryInv
<1>9. TrackerBehind'
  BY <1>1 DEF OneStepInv, TrackerBehind, TrackedStep, diskVars
<1>10. SavesStep' /\ SavedSoFar'
  BY <1>1, NoSave DEF OneStepInv
<1>11. TrackedInv'
  BY <1>1, TrackedUnmoved DEF OneStepInv
<1> QED
  BY <1>1, <1>4, <1>6, <1>7, <1>8, <1>9, <1>10, <1>11 DEF OneStepInv

\* the update goes to the weights of every role that is due
LEMMA AppendInOrder ==
  ASSUME NEW trained \in Contents, NEW id \in Nat, incarnation \in Nat,
         InOrder(trained), MayFollow(trained, id)
  PROVE  LET longer == Append(trained, << id, incarnation >>)
         IN  /\ InOrder(longer)
             /\ Len(longer) = Len(trained) + 1 /\ longer # << >>
             /\ longer[Len(longer)] = << id, incarnation >>
<1> DEFINE update == << id, incarnation >>
           longer == Append(trained, update)
<1>1. update \in Nat \X Nat /\ update[1] = id /\ update[2] = incarnation
  OBVIOUS
<1>2. Len(trained) \in Nat /\ (trained = << >> <=> Len(trained) = 0)
  BY DEF Contents
<1> HIDE DEF update
<1>3. /\ Len(longer) = Len(trained) + 1 /\ longer[Len(longer)] = update
      /\ \A i \in 1..Len(trained) : longer[i] = trained[i]
  BY <1>1 DEF Contents
<1> HIDE DEF longer
<1>4. longer[1][1] = 1
  <2>1. CASE trained = << >>
    BY <1>1, <1>2, <1>3, <2>1 DEF MayFollow
  <2>2. CASE trained # << >>
    <3>1. 1 \in 1..Len(trained)
      BY <1>2, <2>2
    <3> QED
      BY <1>3, <2>2, <3>1 DEF InOrder
  <2> QED
    BY <2>1, <2>2
<1>5. \A i \in 1..(Len(longer) - 1) : Follows(longer[i], longer[i + 1], i)
  <2> SUFFICES ASSUME NEW i \in 1..Len(trained)
               PROVE  Follows(longer[i], longer[i + 1], i)
    BY <1>2, <1>3
  <2>1. CASE i = Len(trained)
    <3>1. longer[i] = trained[i] /\ longer[i + 1] = update /\ trained # << >>
      BY <1>2, <1>3, <2>1
    <3> QED
      BY <2>1, <3>1 DEF MayFollow, update
  <2>2. CASE i # Len(trained)
    <3>1. i \in 1..(Len(trained) - 1) /\ i + 1 \in 1..Len(trained)
      BY <1>2, <2>2
    <3>2. Follows(trained[i], trained[i + 1], i)
      BY <3>1 DEF InOrder
    <3> QED
      BY <1>3, <3>1, <3>2
  <2> QED
    BY <2>1, <2>2
<1>6. \A i \in 1..Len(longer) : longer[i][2] <= incarnation
  <2> SUFFICES ASSUME NEW i \in 1..Len(longer)
               PROVE  longer[i][2] <= incarnation
    OBVIOUS
  <2>1. CASE i = Len(longer)
    BY <1>1, <1>3, <2>1
  <2>2. CASE i # Len(longer)
    <3>1. i \in 1..Len(trained)
      BY <1>2, <1>3, <2>2
    <3> QED
      BY <1>3, <3>1 DEF InOrder
  <2> QED
    BY <2>1, <2>2
<1>7. InOrder(longer)
  BY <1>4, <1>5, <1>6 DEF InOrder
<1>8. longer # << >>
  BY <1>2, <1>3
<1> QED
  BY <1>3, <1>7, <1>8 DEF longer, update

LEMMA UpdateStep ==
  ASSUME OneStepInv, _fit_update_critic_and_actor, UNCHANGED batch_data_future
  PROVE  OneStepInv'
<1> USE DEF At, Goto, Places, TakesBatches, InTraining, AfterUpdate
<1>1. /\ pc = "update" /\ pc' = "validate" /\ batch' = NoBatch
      /\ weights' = Updated(IF WarmingUp THEN {"critic"} ELSE {"critic", "actor"})
      /\ UNCHANGED << diskVars, saveVars, previous_saved_paths, max_ckpt_to_keep, dataloader,
                      global_steps, epoch, batches_left, first_sync, config, incarnation,
                      batch_data_future >>
  BY DEF _fit_update_critic_and_actor, jobVars
<1>2. IsBatch(batch) /\ batch.step = global_steps /\ TaskAfter(batch.id)
  BY <1>1 DEF OneStepInv, TaskInv
<1>3. /\ global_steps \in Nat /\ global_steps \in Steps /\ incarnation \in Nat /\ batch.id \in Nat
  BY <1>1, <1>2, PPOTrainerAssumption DEF OneStepInv, TypeInv, WithBatch, IsBatch
<1>4. Ahead' = Ahead /\ NextBatch' = NextBatch /\ IsLastStep' = IsLastStep
  BY <1>1 DEF Ahead, NextBatch, IsLastStep
<1>5. TypeInv'
  <2>1. BatchTyped'
    BY <1>1 DEF BatchTyped, NoBatch
  <2>2. weights' \in [Roles -> [Ranks -> Contents]]
    <3> DEFINE update == << batch.id, incarnation >>
    <3>1. update \in Nat \X Nat
      BY <1>3
    <3> HIDE DEF update
    <3>2. \A role \in Roles, r \in Ranks :
            weights[role][r] \in Contents /\ Append(weights[role][r], update) \in Contents
      BY <3>1 DEF Contents, OneStepInv, TypeInv
    <3> QED
      BY <1>1, <3>2 DEF Updated, update
  <2> QED
    BY <1>1, <1>3, <2>1, <2>2 DEF OneStepInv, TypeInv, diskVars, saveVars, WithBatch
<1>6. PassInv' /\ FirstLifeInv'
  BY <1>1, <1>4 DEF OneStepInv, PassInv, FirstLifeInv, DataForAllSteps
<1>7. TaskInv'
  <2>1. OutOfData' <=> OutOfData
    BY <1>1 DEF OutOfData, DataForAllSteps
  <2>2. IsBatch(NextBatch) => IsBatch(NextBatch)'
    BY <1>4 DEF IsBatch
  <2>3. Ahead => (batch_data_future \in {GeneratingAhead(NextBatch), Ready(NextBatch)})'
    BY <1>1, <1>4 DEF OneStepInv, TaskInv, GeneratingAhead, Ready
  <2>4. (batch_data_future = NoTask)' <=> IsLastStep'
    BY <1>1, <1>2, <1>4 DEF TaskAfter
  <2> QED
    BY <1>1, <1>4, <2>1, <2>2, <2>3, <2>4 DEF OneStepInv, TaskInv
<1>8. WeightsInv'
  <2> SUFFICES ASSUME NEW role \in EachStep, NEW r \in Ranks
               PROVE  HistoryInv(weights[role][r])'
    BY <1>1, EachStepFixed DEF WeightsInv
  <2>1. PICK trained : trained = weights[role][r]
    OBVIOUS
  <2>2. trained \in Contents /\ role \in Roles
    BY <2>1 DEF OneStepInv, TypeInv, EachStep
  <2>3. InOrder(trained) /\ Len(trained) = global_steps - 1 /\ MayFollow(trained, batch.id)
    BY <1>1, <2>1 DEF OneStepInv, WeightsInv, HistoryInv
  <2>4. global_steps >= 1
    BY <1>3, <2>2, <2>3 DEF Contents
  <2> DEFINE longer == Append(trained, << batch.id, incarnation >>)
  <2>5. weights'[role][r] = longer
    <3>1. role \in (IF WarmingUp THEN {"critic"} ELSE {"critic", "actor"})
      <4>1. role \in {"actor", "critic"}
        BY <2>2, CheckpointAssumption DEF Roles
      <4>2. role = "actor" => ~WarmingUp
        <5>1. config.critic_warmup \in Int
          BY ConfigTypes DEF OneStepInv, TypeInv
        <5> QED
          BY <1>3, <2>4, <5>1 DEF EachStep, FirstBatch, WarmingUp
      <4> QED
        BY <4>1, <4>2
    <3> QED
      BY <1>1, <2>1, <2>2, <3>1 DEF Updated
  <2>6. InOrder(longer)
    BY <1>3, <2>2, <2>3, AppendInOrder
  <2>7. /\ Len(longer) = global_steps /\ longer # << >>
        /\ longer[Len(longer)] = << batch.id, incarnation >>
    <3>1. /\ Len(longer) = Len(trained) + 1 /\ longer # << >>
          /\ longer[Len(longer)] = << batch.id, incarnation >>
      BY <1>3, <2>2, <2>3, AppendInOrder
    <3>2. Len(trained) + 1 = global_steps
      BY <1>3, <2>3
    <3> QED
      BY <3>1, <3>2
  <2> HIDE DEF longer
  <2>8. PICK last : last = longer
    OBVIOUS
  <2>9. InOrder(last)'
    BY <1>1, <2>6, <2>8, JudgedAlike
  <2>10. InOrder(weights[role][r])'
    BY <2>5, <2>8, <2>9 DEF InOrder
  <2>11. TaskAfter(weights[role][r][Len(weights[role][r])][1])'
    BY <1>1, <1>2, <1>4, <2>5, <2>7 DEF TaskAfter
  <2> QED
    BY <1>1, <2>5, <2>7, <2>10, <2>11 DEF HistoryInv
<1>9. TrackerBehind'
  BY <1>1 DEF OneStepInv, TrackerBehind, TrackedStep, diskVars
<1>10. SavesStep' /\ SavedSoFar'
  BY <1>1, <1>3 DEF OneStepInv, SavesStep, SavedSoFar, saveVars
<1>11. TrackedInv'
  BY <1>1, TrackedUnmoved DEF OneStepInv
<1> QED
  BY <1>1, <1>5, <1>6, <1>7, <1>8, <1>9, <1>10, <1>11 DEF OneStepInv

LEMMA ValidateStep ==
  ASSUME OneStepInv, _fit_validate, UNCHANGED batch_data_future
  PROVE  OneStepInv'
<1> USE DEF At, Goto, Places, TakesBatches, InTraining, AfterUpdate
<1>1. /\ pc = "validate" /\ pc' = "save"
      /\ UNCHANGED << diskVars, saveVars, previous_saved_paths, max_ckpt_to_keep, weights,
                      dataloader, global_steps, epoch, batches_left, first_sync, batch, config,
                      incarnation, batch_data_future >>
  BY DEF _fit_validate, checkpointVars, memoryVars, batchVars, jobVars
<1>2. global_steps \in Steps /\ batch = NoBatch
  BY <1>1 DEF OneStepInv, SavesStep, TaskInv
<1>3. Ahead' = Ahead /\ NextBatch' = NextBatch /\ IsLastStep' = IsLastStep
  BY <1>1 DEF Ahead, NextBatch, IsLastStep
<1>4. TypeInv'
  BY <1>1, <1>2 DEF OneStepInv, TypeInv, BatchTyped, diskVars, saveVars, WithBatch
<1>5. PassInv' /\ FirstLifeInv'
  BY <1>1, <1>3 DEF OneStepInv, PassInv, FirstLifeInv, DataForAllSteps
<1>6. TaskInv'
  <2>1. OutOfData' <=> OutOfData
    BY <1>1 DEF OutOfData, DataForAllSteps
  <2>2. IsBatch(NextBatch) => IsBatch(NextBatch)'
    BY <1>3 DEF IsBatch
  <2>3. Ahead => (batch_data_future \in {GeneratingAhead(NextBatch), Ready(NextBatch)})'
    BY <1>1, <1>3 DEF OneStepInv, TaskInv, GeneratingAhead, Ready
  <2> QED
    BY <1>1, <1>2, <1>3, <2>1, <2>2, <2>3 DEF OneStepInv, TaskInv
<1>7. WeightsInv'
  <2> SUFFICES ASSUME NEW role \in EachStep, NEW r \in Ranks,
                      HistoryInv(weights[role][r]), InOrder(weights[role][r])'
               PROVE  HistoryInv(weights[role][r])'
    BY <1>1, OrderKept DEF OneStepInv
  <2>1. TaskAfter(weights[role][r][Len(weights[role][r])][1])'
    BY <1>1, <1>3 DEF HistoryInv, TaskAfter
  <2> QED
    BY <1>1, <2>1 DEF HistoryInv
<1>8. TrackerBehind'
  BY <1>1 DEF OneStepInv, TrackerBehind, TrackedStep, diskVars
<1>9. SavesStep' /\ SavedSoFar'
  BY <1>1, <1>2 DEF OneStepInv, SavesStep, SavedSoFar, saveVars
<1>10. TrackedInv'
  BY <1>1, TrackedUnmoved DEF OneStepInv
<1> QED
  BY <1>1, <1>4, <1>5, <1>6, <1>7, <1>8, <1>9, <1>10 DEF OneStepInv

-----------------------------------------------------------------------------
(* The end of a step.                                                      *)

\* what the end of a step needs to know of the save that may precede it
StepSaved ==
  /\ pc \in {"save", "saving"}
  /\ IsWritten(tracker') => tracker'.content \in Nat /\ tracker'.content <= global_steps
  /\ UNCHANGED << weights, dataloader, epoch, batches_left, first_sync, batch, config,
                  incarnation, batch_data_future >>

\* the loop goes on with the weights in order and the task under way
LEMMA PostprocessStep ==
  ASSUME OneStepInv, StepSaved, _fit_postprocess_step
  PROVE  /\ global_steps' \in Nat /\ PassInv' /\ FirstLifeInv' /\ TaskInv' /\ WeightsInv'
         /\ TrackerBehind'
<1> USE DEF At, Goto, Places, TakesBatches, InTraining, AfterUpdate, StepSaved
<1>1. /\ pc \in {"save", "saving"} /\ global_steps' = global_steps + 1
      /\ pc' = IF IsLastStep THEN "done" ELSE "next_batch"
      /\ UNCHANGED << weights, dataloader, epoch, batches_left, first_sync, batch, config,
                      incarnation, batch_data_future >>
  BY DEF _fit_postprocess_step
<1>2. global_steps \in Nat /\ dataloader \in Nat /\ batch = NoBatch
  BY <1>1 DEF OneStepInv, TypeInv, TaskInv
<1>3. Ahead' = Ahead /\ NextBatch' = NextBatch
  BY <1>1 DEF Ahead, NextBatch
<1>4. batch_data_future = NoTask <=> IsLastStep
  BY <1>1 DEF OneStepInv, TaskInv
<1>5. PassInv'
  BY <1>1 DEF OneStepInv, PassInv
<1>6. FirstLifeInv'
  BY <1>1 DEF OneStepInv, FirstLifeInv, DataForAllSteps
<1>7. TaskInv'
  <2>1. OutOfData' <=> OutOfData
    BY <1>1 DEF OutOfData, DataForAllSteps
  <2>2. IsBatch(NextBatch) => IsBatch(NextBatch)'
    BY <1>3 DEF IsBatch
  <2>3. Ahead => (batch_data_future \in {GeneratingAhead(NextBatch), Ready(NextBatch)})'
    BY <1>1, <1>3 DEF OneStepInv, TaskInv, GeneratingAhead, Ready
  <2>4. Ahead => ~IsLastStep
    BY <1>4 DEF Ahead, NoTask
  <2> QED
    BY <1>1, <1>2, <1>3, <1>4, <2>1, <2>2, <2>3, <2>4 DEF OneStepInv, TaskInv
<1>8. WeightsInv'
  <2> SUFFICES ASSUME NEW role \in EachStep, NEW r \in Ranks,
                      HistoryInv(weights[role][r]), InOrder(weights[role][r])'
               PROVE  HistoryInv(weights[role][r])'
    BY <1>1, OrderKept DEF OneStepInv
  <2>1. PICK trained : trained = weights[role][r]
    OBVIOUS
  <2> DEFINE last == trained[Len(trained)]
  <2>2. /\ trained \in Contents /\ Len(trained) = global_steps /\ trained # << >>
        /\ last[2] = incarnation /\ TaskAfter(last[1])
    BY <1>1, <2>1 DEF HistoryInv, OneStepInv, TypeInv, EachStep
  <2>3. last[1] \in Nat /\ last[2] \in Nat
    <3>1. Len(trained) \in 1..Len(trained)
      BY <2>2 DEF Contents
    <3> QED
      BY <2>2, <3>1 DEF Contents
  <2>4. Ahead => MayFollow(trained, dataloader)
    <3> SUFFICES ASSUME Ahead
                 PROVE  MayFollow(trained, dataloader)
      OBVIOUS
    <3>1. dataloader - last[1] - 1 = 0 /\ ~(last[2] < incarnation)
      BY <2>2, <2>3 DEF TaskAfter
    <3> HIDE DEF last
    <3>2. Follows(last, << dataloader, incarnation >>, Len(trained))
      BY <3>1 DEF Follows
    <3> QED
      BY <2>2, <3>2 DEF MayFollow, last
  <2>5. Ahead' => MayFollow(weights[role][r], dataloader)'
    BY <1>1, <1>3, <2>1, <2>4 DEF MayFollow, Follows
  <2>6. Len(weights'[role][r]) = global_steps' - 1
    BY <1>1, <1>2, <2>1, <2>2
  <2> QED
    BY <1>1, <2>5, <2>6 DEF HistoryInv
<1>9. TrackerBehind'
  <2>1. IsWritten(tracker)' => TrackedStep' \in Nat /\ TrackedStep' <= global_steps
    BY DEF IsWritten, TrackedStep
  <2>2. IsWritten(tracker)' => TrackedStep' < global_steps'
    BY <1>1, <1>2, <2>1
  <2> QED
    BY <1>1, <2>2 DEF TrackerBehind
<1> QED
  BY <1>1, <1>2, <1>5, <1>6, <1>7, <1>8, <1>9

\* nothing is saved in this step, or the save begins
LEMMA SaveCheckpointStep ==
  ASSUME OneStepInv, _fit_save_checkpoint, UNCHANGED batch_data_future
  PROVE  OneStepInv'
<1> USE DEF At, Goto, Places, TakesBatches, InTraining, AfterUpdate
<1>1. /\ pc = "save"
      /\ UNCHANGED << diskVars, previous_saved_paths, max_ckpt_to_keep, weights, dataloader,
                      epoch, batches_left, first_sync, batch, config, incarnation,
                      batch_data_future >>
  BY DEF _fit_save_checkpoint, checkpointVars, memoryVars, batchVars, jobVars
<1>2. global_steps \in Steps /\ global_steps \in Nat /\ batch = NoBatch /\ save_pc = "idle"
  BY <1>1 DEF OneStepInv, SavesStep, TaskInv, TypeInv
<1>3. BatchTyped'
  BY <1>1 DEF OneStepInv, TypeInv, BatchTyped
<1>4. CASE StartSave(global_steps) /\ pc' = "saving" /\ UNCHANGED global_steps
  <2>1. /\ save_pc' = "ensure" /\ save_role' = 1 /\ save_step' = global_steps
        /\ rank_pc' = [r \in Ranks |-> "open"]
    BY <1>4 DEF StartSave
  <2>2. 1 \in DOMAIN RoleOrder
    BY CheckpointAssumption
  <2>3. Ahead' = Ahead /\ NextBatch' = NextBatch /\ IsLastStep' = IsLastStep
    BY <1>1, <1>4 DEF Ahead, NextBatch, IsLastStep
  <2>4. TypeInv'
    BY <1>1, <1>2, <1>3, <1>4, <2>1, <2>2
    DEF OneStepInv, TypeInv, diskVars, SavePcs, WithBatch
  <2>5. PassInv' /\ FirstLifeInv'
    BY <1>1, <1>4, <2>3 DEF OneStepInv, PassInv, FirstLifeInv, DataForAllSteps
  <2>6. TaskInv'
    <3>1. OutOfData' <=> OutOfData
      BY <1>1 DEF OutOfData, DataForAllSteps
    <3>2. IsBatch(NextBatch) => IsBatch(NextBatch)'
      BY <2>3 DEF IsBatch
    <3>3. Ahead => (batch_data_future \in {GeneratingAhead(NextBatch), Ready(NextBatch)})'
      BY <1>1, <2>3 DEF OneStepInv, TaskInv, GeneratingAhead, Ready
    <3> QED
      BY <1>1, <1>2, <1>4, <2>3, <3>1, <3>2, <3>3 DEF OneStepInv, TaskInv
  <2>7. WeightsInv'
    <3> SUFFICES ASSUME NEW role \in EachStep, NEW r \in Ranks,
                        HistoryInv(weights[role][r]), InOrder(weights[role][r])'
                 PROVE  HistoryInv(weights[role][r])'
      BY <1>1, OrderKept DEF OneStepInv
    <3>1. TaskAfter(weights[role][r][Len(weights[role][r])][1])'
      BY <1>1, <2>3 DEF HistoryInv, TaskAfter
    <3> QED
      BY <1>1, <1>4, <3>1 DEF HistoryInv
  <2>8. TrackerBehind'
    BY <1>1, <1>4 DEF OneStepInv, TrackerBehind, TrackedStep, diskVars
  <2>9. SavesStep'
    BY <1>4, <2>1 DEF SavesStep
  <2>10. SavedSoFar'
    <3>1. save_role' = 1 /\ save_pc' \notin AfterRoles
      BY <2>1 DEF AfterRoles
    <3>2. \A r \in Ranks : rank_pc'[r] = "open"
      BY <2>1
    <3>3. \A k \in 1..Len(RoleOrder) : ~(k < save_role')
      BY <3>1
    <3> QED
      BY <2>1, <3>1, <3>2, <3>3 DEF SavedSoFar
  <2>11. TrackedInv'
    BY <1>1, <1>4, TrackedUnmoved DEF OneStepInv
  <2> QED
    BY <1>4, <2>4, <2>5, <2>6, <2>7, <2>8, <2>9, <2>10, <2>11 DEF OneStepInv
<1>5. CASE _fit_postprocess_step /\ UNCHANGED checkpointVars
  <2>1. UNCHANGED saveVars /\ UNCHANGED diskVars
    BY <1>5 DEF checkpointVars
  <2>2. StepSaved
    <3>1. IsWritten(tracker) => TrackedStep \in Nat /\ TrackedStep < global_steps
      BY <1>1, CheckpointAssumption
      DEF OneStepInv, TypeInv, Files, IsWritten, Missing, Torn, Written, TrackedStep, TrackerBehind
    <3>2. tracker' = tracker
      BY <2>1 DEF diskVars
    <3>3. TrackedStep = tracker.content
      BY DEF TrackedStep
    <3> QED
      BY <1>1, <1>2, <3>1, <3>2, <3>3 DEF StepSaved
  <2>3. /\ global_steps' \in Nat /\ PassInv' /\ FirstLifeInv' /\ TaskInv' /\ WeightsInv'
        /\ TrackerBehind'
    BY <1>5, <2>2, PostprocessStep
  <2>4. pc' \in {"next_batch", "done"}
    BY <1>5 DEF _fit_postprocess_step
  <2>5. TypeInv'
    BY <1>1, <1>2, <1>3, <1>5, <2>1, <2>3, <2>4
    DEF OneStepInv, TypeInv, diskVars, saveVars, WithBatch
  <2>6. SavesStep' /\ SavedSoFar'
    BY <1>1, <2>1, <2>4, NoSave DEF OneStepInv
  <2>7. TrackedInv'
    BY <1>1, <2>4, TrackedUnmoved DEF OneStepInv
  <2> QED
    BY <2>3, <2>4, <2>5, <2>6, <2>7 DEF OneStepInv
<1> QED
  BY <1>4, <1>5 DEF _fit_save_checkpoint

-----------------------------------------------------------------------------
(* A step of a save.                                                       *)

LEMMA SavingFrame ==
  ASSUME OneStepInv, SaveAndGoOn
  PROVE  /\ pc = "saving" /\ save_pc # "idle" /\ SaveStep
         /\ save_step \in Steps /\ save_step = global_steps /\ SavingRole \in Roles
         /\ IF save_pc' = "idle" THEN _fit_postprocess_step ELSE UNCHANGED << global_steps, pc >>
         /\ UNCHANGED << max_ckpt_to_keep, weights, dataloader, save_step, epoch, batches_left,
                         first_sync, batch, config, incarnation >>
<1>1. pc = "saving" /\ SaveStep
  BY DEF SaveAndGoOn, At
<1>2. save_pc # "idle" /\ save_step = global_steps /\ save_step \in Steps /\ SavingRole \in Roles
  BY <1>1, SavingRoleIsRole DEF OneStepInv, SavesStep, TypeInv, WithBatch
<1>3. UNCHANGED << max_ckpt_to_keep, weights, dataloader, save_step >>
  BY <1>1, <1>2, SaveStepTypes DEF OneStepInv
<1> QED
  BY <1>1, <1>2, <1>3 DEF SaveAndGoOn, batchVars, jobVars

\* a shard that was written before this save is kept or deleted
LEMMA ShardsKept ==
  ASSUME OneStepInv, SaveAndGoOn,
         NEW n \in Steps, NEW role \in Roles, NEW r \in Ranks, IsWritten(shards'[n][role][r])
  PROVE  \/ shards'[n][role][r] = shards[n][role][r]
         \/ /\ n = save_step /\ role = SavingRole
            /\ shards'[n][role][r] = Written(weights[role][r])
<1>1. /\ SaveStep /\ SavingRole \in Roles /\ save_step \in Steps
      /\ max_ckpt_to_keep \in Nat
      /\ shards \in [Steps -> [Roles -> [Ranks -> Files(Contents)]]]
      /\ previous_saved_paths \in [Roles -> Seq(Steps)]
  BY SavingFrame, PPOTrainerAssumption DEF OneStepInv, TypeInv
<1>2. ~IsWritten(Missing) /\ ~IsWritten(Torn)
  BY DEF IsWritten, Missing, Torn
<1>3. ASSUME NEW paths \in Seq(Steps), NEW keep \in Nat, DropOldest(SavingRole, paths, keep)
      PROVE  shards'[n][role][r] = shards[n][role][r]
  <2>1. CASE role # SavingRole
    BY <1>1, <1>3, <2>1, DropOldestEffect DEF OneStepInv
  <2>2. CASE role = SavingRole
    <3>1. shards'[n][role] = shards[n][role] \/ shards'[n][role] = [s \in Ranks |-> Missing]
      BY <1>1, <1>3, <2>2, DropOldestEffect DEF OneStepInv
    <3> QED
      BY <1>2, <3>1
  <2> QED
    BY <2>1, <2>2
<1>4. CASE ensure_checkpoint_capacity
  <2>1. CASE max_ckpt_to_keep > 1
    <3>1. /\ DropOldest(SavingRole, previous_saved_paths[SavingRole], max_ckpt_to_keep - 1)
          /\ max_ckpt_to_keep - 1 \in Nat
          /\ previous_saved_paths[SavingRole] \in Seq(Steps)
      BY <1>1, <1>4, <2>1 DEF ensure_checkpoint_capacity
    <3> QED
      BY <1>3, <3>1
  <2>2. CASE ~(max_ckpt_to_keep > 1)
    BY <1>4, <2>2 DEF ensure_checkpoint_capacity
  <2> QED
    BY <2>1, <2>2
<1>5. CASE \E s \in Ranks : OpenShard(s)
  <2>1. PICK s \in Ranks : shards' = [shards EXCEPT ![save_step][SavingRole][s] = Torn]
    BY <1>5 DEF OpenShard
  <2>2. CASE n = save_step /\ role = SavingRole /\ r = s
    <3>1. shards'[n][role][r] = Torn
      BY <1>1, <2>1, <2>2
    <3> QED
      BY <1>2, <3>1
  <2>3. CASE ~(n = save_step /\ role = SavingRole /\ r = s)
    BY <1>1, <2>1, <2>3
  <2> QED
    BY <2>2, <2>3
<1>6. CASE \E s \in Ranks : CloseShard(s)
  <2>1. PICK s \in Ranks : shards' = [shards EXCEPT
          ![save_step][SavingRole][s] = Written(weights[SavingRole][s])]
    BY <1>6 DEF CloseShard
  <2>2. CASE n = save_step /\ role = SavingRole /\ r = s
    BY <1>1, <2>1, <2>2
  <2>3. CASE ~(n = save_step /\ role = SavingRole /\ r = s)
    BY <1>1, <2>1, <2>3
  <2> QED
    BY <2>2, <2>3
<1>7. CASE register_checkpoint
  <2>1. CASE max_ckpt_to_keep > 0
    <3>1. /\ DropOldest(SavingRole, Append(previous_saved_paths[SavingRole], save_step),
                        max_ckpt_to_keep)
          /\ Append(previous_saved_paths[SavingRole], save_step) \in Seq(Steps)
      BY <1>1, <1>7, <2>1 DEF register_checkpoint
    <3> QED
      BY <1>1, <1>3, <3>1
  <2>2. CASE ~(max_ckpt_to_keep > 0)
    BY <1>7, <2>2 DEF register_checkpoint
  <2> QED
    BY <2>1, <2>2
<1>8. CASE OpenData \/ CloseData \/ OpenTracker \/ CloseTracker
  BY <1>8 DEF OpenData, CloseData, OpenTracker, CloseTracker
<1> QED
  BY <1>1, <1>4, <1>5, <1>6, <1>7, <1>8 DEF SaveStep

\* what this save has written stays the saver's
LEMMA OwnShardsKept ==
  ASSUME OneStepInv, SaveAndGoOn, NEW role \in Roles, NEW r \in Ranks, OfThisSave(role, r)
  PROVE  OfThisSave(role, r)'
<1>1. save_step \in Steps /\ UNCHANGED << weights, save_step >>
  BY SavingFrame
<1> SUFFICES ASSUME IsWritten(shards'[save_step][role][r])
             PROVE  shards'[save_step][role][r].content = weights[role][r]
  BY <1>1 DEF OfThisSave
<1>2. CASE shards'[save_step][role][r] = shards[save_step][role][r]
  BY <1>2 DEF OfThisSave
<1>3. CASE shards'[save_step][role][r] = Written(weights[role][r])
  BY <1>3 DEF Written
<1> QED
  BY <1>1, <1>2, <1>3, ShardsKept

LEMMA NotSaving == pc' # "saving" => SavedSoFar'
  BY DEF SavedSoFar

LEMMA SavingSteps ==
  ASSUME OneStepInv, SaveAndGoOn
  PROVE  SavesStep' /\ SavedSoFar'
<1> USE DEF AfterRoles
<1>1. /\ pc = "saving" /\ save_pc # "idle" /\ SaveStep
      /\ save_step \in Steps /\ save_step = global_steps /\ SavingRole \in Roles
      /\ IF save_pc' = "idle" THEN _fit_postprocess_step ELSE UNCHANGED << global_steps, pc >>
      /\ UNCHANGED << weights, dataloader, save_step >>
  BY SavingFrame
<1>2. pc' = "saving" <=> save_pc' # "idle"
  BY <1>1 DEF _fit_postprocess_step, Goto
<1>3. pc' \notin {"validate", "save"}
  BY <1>1 DEF _fit_postprocess_step, Goto
<1>4. SavesStep'
  <2>1. save_pc' # "write" => rank_pc' = [r \in Ranks |-> "open"]
    BY <1>1 DEF SaveStep, ensure_checkpoint_capacity, OpenShard, CloseShard, register_checkpoint,
                OpenData, CloseData, OpenTracker, CloseTracker, OneStepInv, SavesStep
  <2> QED
    BY <1>1, <1>2, <1>3, <2>1 DEF SavesStep
<1>5. /\ save_role \in 1..Len(RoleOrder) /\ Len(RoleOrder) \in Nat
      /\ \A k \in 1..Len(RoleOrder) : RoleOrder[k] \in Roles
  BY RoleNumbers DEF OneStepInv, TypeInv, Roles
<1>6. PICK current \in 1..Len(RoleOrder) : current = save_role
  BY <1>5
<1>7. ASSUME save_pc' # "idle"
      PROVE  SavedSoFar'
  <2> DEFINE Done(k) == k < save_role \/ (k = save_role /\ save_pc \in AfterRoles)
  <2>1. /\ save_pc \in AfterRoles => save_role = Len(RoleOrder)
        /\ \A k \in 1..Len(RoleOrder), r \in Ranks : Done(k) => OfThisSave(RoleOrder[k], r)'
        /\ \A r \in Ranks : rank_pc[r] = "barrier" => OfThisSave(SavingRole, r)
        /\ save_pc \in {"open_tracker", "close_tracker"} => data[save_step] = Written(dataloader)
    BY <1>1, <1>5, OwnShardsKept DEF OneStepInv, SavedSoFar
  <2>2. \A r \in Ranks : rank_pc[r] = "barrier" => OfThisSave(RoleOrder[current], r)'
    <3> SUFFICES ASSUME NEW r \in Ranks, rank_pc[r] = "barrier"
                 PROVE  OfThisSave(RoleOrder[current], r)'
      OBVIOUS
    <3>1. RoleOrder[current] \in Roles
      BY <1>5
    <3>2. OfThisSave(RoleOrder[current], r)
      BY <2>1, <1>6 DEF SavingRole
    <3> QED
      BY <3>1, <3>2, OwnShardsKept
  <2>3. CASE ensure_checkpoint_capacity
    <3>1. save_pc' = "write" /\ UNCHANGED << save_role, rank_pc >> /\ save_pc = "ensure"
      BY <2>3 DEF ensure_checkpoint_capacity
    <3>2. \A k \in 1..Len(RoleOrder), r \in Ranks : k < save_role' => OfThisSave(RoleOrder[k], r)'
      BY <2>1, <3>1
    <3>3. \A r \in Ranks : rank_pc'[r] # "barrier"
      BY <3>1 DEF OneStepInv, SavesStep
    <3> QED
      BY <3>1, <3>2, <3>3 DEF SavedSoFar
  <2>4. CASE \E r \in Ranks : OpenShard(r) \/ CloseShard(r)
    <3>1. save_pc = "write" /\ save_pc' = "write" /\ save_role' = save_role
      BY <2>4 DEF OpenShard, CloseShard
    <3>2. \A k \in 1..Len(RoleOrder), r \in Ranks : k < save_role' => OfThisSave(RoleOrder[k], r)'
      BY <2>1, <3>1
    <3>3. ASSUME NEW r \in Ranks, rank_pc'[r] = "barrier"
          PROVE  OfThisSave(SavingRole, r)'
      <4>1. SavingRole' = SavingRole
        BY <3>1 DEF SavingRole
      <4>2. CASE rank_pc[r] = "barrier"
        <5>1. OfThisSave(RoleOrder[current], r)'
          BY <2>2, <4>2
        <5>2. SavingRole' = RoleOrder[current]
          BY <1>6, <3>1 DEF SavingRole
        <5> QED
          BY <5>1, <5>2 DEF OfThisSave
      <4>3. CASE rank_pc[r] # "barrier"
        <5>1. CloseShard(r)
          BY <2>4, <3>3, <4>3 DEF OpenShard, CloseShard, OneStepInv, TypeInv
        <5>2. shards'[save_step][SavingRole][r] = Written(weights[SavingRole][r])
          BY <1>1, <5>1 DEF CloseShard, OneStepInv, TypeInv
        <5>3. shards'[save_step'][SavingRole'][r].content = weights'[SavingRole'][r]
          BY <1>1, <4>1, <5>2 DEF Written
        <5> QED
          BY <5>3 DEF OfThisSave
      <4> QED
        BY <4>2, <4>3
    <3> QED
      BY <3>1, <3>2, <3>3 DEF SavedSoFar
  <2>5. CASE register_checkpoint
    <3>1. /\ \A r \in Ranks : rank_pc[r] = "barrier"
          /\ rank_pc' = [r \in Ranks |-> "open"] /\ NextRole
      BY <2>5 DEF register_checkpoint, BarrierReached
    <3>2. \/ save_role < Len(RoleOrder) /\ save_role' = save_role + 1 /\ save_pc' = "ensure"
          \/ save_role = Len(RoleOrder) /\ save_role' = save_role /\ save_pc' = "open_data"
      BY <1>5, <3>1 DEF NextRole
    <3>3. \A r \in Ranks : OfThisSave(RoleOrder[current], r)'
      BY <2>2, <3>1
    <3>4. \A k \in 1..Len(RoleOrder), r \in Ranks : k <= save_role => OfThisSave(RoleOrder[k], r)'
      <4> SUFFICES ASSUME NEW k \in 1..Len(RoleOrder), NEW r \in Ranks, k <= save_role
                   PROVE  OfThisSave(RoleOrder[k], r)'
        OBVIOUS
      <4>1. CASE k < save_role
        BY <2>1, <4>1
      <4>2. CASE k = save_role
        <5>1. k = current
          BY <1>6, <4>2
        <5> QED
          BY <3>3, <5>1
      <4> QED
        BY <1>5, <4>1, <4>2
    <3>5. \A k \in 1..Len(RoleOrder) :
            k < save_role' \/ (k = save_role' /\ save_pc' \in AfterRoles) => k <= save_role
      BY <1>5, <3>2
    <3>6. \A r \in Ranks : rank_pc'[r] # "barrier"
      BY <3>1
    <3>7. /\ save_pc' \in AfterRoles => save_role' = Len(RoleOrder)
          /\ save_pc' \notin {"open_tracker", "close_tracker"}
      BY <3>2
    <3> QED
      BY <3>4, <3>5, <3>6, <3>7 DEF SavedSoFar
  <2>6. CASE OpenData \/ CloseData \/ OpenTracker
    <3>1. /\ save_pc \in AfterRoles /\ save_pc' \in AfterRoles /\ UNCHANGED << save_role, rank_pc >>
          /\ save_pc # "write"
      BY <2>6 DEF OpenData, CloseData, OpenTracker
    <3>2. \A r \in Ranks : rank_pc'[r] # "barrier"
      BY <3>1 DEF OneStepInv, SavesStep
    <3>3. save_pc' \in {"open_tracker", "close_tracker"} => data'[save_step] = Written(dataloader)
      BY <1>1, <2>1, <2>6 DEF OpenData, CloseData, OpenTracker, OneStepInv, TypeInv
    <3>4. \A k \in 1..Len(RoleOrder), r \in Ranks :
            k < save_role' \/ (k = save_role' /\ save_pc' \in AfterRoles)
              => OfThisSave(RoleOrder[k], r)'
      BY <2>1, <3>1
    <3> QED
      BY <1>1, <2>1, <3>1, <3>2, <3>3, <3>4 DEF SavedSoFar
  <2>7. ~CloseTracker
    BY <1>7 DEF CloseTracker
  <2> QED
    BY <1>1, <2>3, <2>4, <2>5, <2>6, <2>7 DEF SaveStep
<1>8. CASE save_pc' = "idle"
  <2>1. pc' # "saving"
    BY <1>2, <1>8
  <2> QED
    BY <1>4, <2>1, NotSaving
<1> QED
  BY <1>4, <1>7, <1>8

\* the tracked checkpoint is none of this save's business until the tracker moves
LEMMA TrackedSavingStep ==
  ASSUME OneStepInv, SaveAndGoOn, UNCHANGED batch_data_future
  PROVE  TrackedInv'
<1> USE DEF TakesBatches, InTraining, AfterUpdate
<1>1. /\ pc = "saving" /\ SaveStep
      /\ save_step \in Steps /\ save_step = global_steps /\ SavingRole \in Roles
      /\ UNCHANGED << weights, dataloader, save_step, config, incarnation >>
      /\ global_steps \in Nat
  BY SavingFrame DEF OneStepInv, TypeInv
<1>2. EachStep' = EachStep /\ EachStep \subseteq Roles
  BY <1>1, EachStepFixed DEF EachStep
<1>3. pc' # "load"
  BY SavingFrame DEF _fit_postprocess_step, Goto
<1>4. CASE OpenTracker
  BY <1>4 DEF OpenTracker, TrackedInv, IsWritten, Torn
<1>5. CASE CloseTracker
  <2>1. /\ save_pc = "close_tracker" /\ tracker' = Written(save_step)
        /\ UNCHANGED << shards, data >>
    BY <1>5 DEF CloseTracker
  <2>2. TrackedStep' = save_step
    BY <2>1 DEF TrackedStep, Written
  <2>3. data[save_step] = Written(dataloader)
    BY <1>1, <2>1 DEF OneStepInv, SavedSoFar
  <2>4. IsWritten(data[TrackedStep])' /\ data'[TrackedStep'].content = dataloader
    BY <2>1, <2>2, <2>3 DEF IsWritten, Written
  <2>5. ASSUME NEW role \in EachStep, NEW r \in Ranks
        PROVE  TrackedHistory(role, r)'
    <3> SUFFICES ASSUME IsWritten(shards[save_step][role][r])
                 PROVE  TrackedHistory(role, r)'
      BY <2>1, <2>2 DEF TrackedHistory, IsWritten
    <3>1. PICK k \in 1..Len(RoleOrder) : RoleOrder[k] = role
      BY <1>2, RoleNumbers DEF Roles
    <3>2. OfThisSave(role, r)
      <4>1. save_pc \in AfterRoles /\ save_role = Len(RoleOrder)
        BY <1>1, <2>1 DEF OneStepInv, SavedSoFar, AfterRoles
      <4>2. k < save_role \/ (k = save_role /\ save_pc \in AfterRoles)
        BY <3>1, <4>1, RoleNumbers
      <4> QED
        BY <1>1, <3>1, <4>2 DEF OneStepInv, SavedSoFar
    <3>3. PICK trained : trained = weights[role][r]
      OBVIOUS
    <3>4. PICK place : place = dataloader
      OBVIOUS
    <3>5. HistoryInv(trained) /\ trained \in Contents
      BY <1>2, <3>3 DEF OneStepInv, WeightsInv, TypeInv
    <3>6. /\ InOrder(trained) /\ Len(trained) = global_steps /\ trained # << >>
          /\ TaskAfter(trained[Len(trained)][1])
      BY <1>1, <3>5 DEF HistoryInv
    <3>7. MayResume(trained, place)
      <4> DEFINE id == trained[Len(trained)][1]
      <4>1. dataloader = (IF Ahead THEN id + 1 ELSE id) /\ (batch_data_future = NoTask <=> IsLastStep)
        BY <3>6 DEF TaskAfter
      <4>2. IsLastStep => dataloader = id
        BY <4>1 DEF Ahead, NoTask
      <4>3. ~IsLastStep => dataloader = id + 1 \/ (dataloader = id /\ id % config.epoch_len = 0)
        <5>1. ~IsLastStep /\ ~Ahead => batch_data_future = EndOfData
          BY <4>1 DEF OneStepInv, TaskInv
        <5>2. batch_data_future = EndOfData => dataloader % config.epoch_len = 0
          BY DEF OneStepInv, TaskInv, OutOfData
        <5> QED
          BY <4>1, <5>1, <5>2
      <4>4. Len(trained) < config.total_training_steps <=> ~IsLastStep
        BY <1>1, <3>6, ConfigTypes DEF IsLastStep, OneStepInv, TypeInv
      <4> QED
        BY <3>4, <3>6, <4>2, <4>3, <4>4 DEF MayResume
    <3>8. InOrder(trained)' /\ MayResume(trained, place)'
      BY <1>1, <3>6, <3>7, JudgedAlike
    <3>9. /\ shards'[TrackedStep'][role][r].content = trained
          /\ data'[TrackedStep'].content = place
      BY <2>1, <2>2, <2>4, <3>2, <3>3, <3>4 DEF OfThisSave
    <3>10. /\ Len(shards[TrackedStep][role][r].content)' = TrackedStep'
           /\ InOrder(shards[TrackedStep][role][r].content)'
           /\ MayResume(shards[TrackedStep][role][r].content, data[TrackedStep].content)'
      BY <1>1, <2>2, <3>6, <3>8, <3>9 DEF InOrder, MayResume
    <3> QED
      BY <1>3, <3>10 DEF TrackedHistory
  <2> QED
    BY <1>2, <2>4, <2>5 DEF TrackedInv
<1>6. CASE ~OpenTracker /\ ~CloseTracker
  <2>1. UNCHANGED tracker
    BY <1>1, <1>6 DEF SaveStep, ensure_checkpoint_capacity, OpenShard, CloseShard,
                      register_checkpoint, OpenData, CloseData
  <2> SUFFICES ASSUME IsWritten(tracker)
               PROVE  TrackedInv'
    BY <2>1 DEF TrackedInv, IsWritten
  <2>2. TrackedStep' = TrackedStep /\ TrackedStep # save_step /\ TrackedStep \in Steps
    BY <1>1, <2>1 DEF TrackedStep, OneStepInv, TrackerBehind, TypeInv, Files, IsWritten, Missing,
                      Torn, Written
  <2>3. data'[TrackedStep] = data[TrackedStep]
    BY <1>1, <1>6, <2>2 DEF SaveStep, ensure_checkpoint_capacity, OpenShard, CloseShard,
                            register_checkpoint, OpenData, CloseData, OneStepInv, TypeInv
  <2>4. IsWritten(data[TrackedStep])'
    BY <2>2, <2>3 DEF OneStepInv, TrackedInv, IsWritten
  <2>5. ASSUME NEW role \in EachStep, NEW r \in Ranks
        PROVE  TrackedHistory(role, r)'
    <3> SUFFICES ASSUME IsWritten(shards'[TrackedStep][role][r])
                 PROVE  TrackedHistory(role, r)'
      BY <2>2 DEF TrackedHistory, IsWritten
    <3>1. shards'[TrackedStep][role][r] = shards[TrackedStep][role][r]
      BY <1>2, <2>2, ShardsKept
    <3>2. PICK trained : trained = shards[TrackedStep][role][r].content
      OBVIOUS
    <3>3. PICK place : place = data[TrackedStep].content
      OBVIOUS
    <3>4. TrackedHistory(role, r) /\ IsWritten(shards[TrackedStep][role][r])
      BY <3>1 DEF OneStepInv, TrackedInv
    <3>5. Len(trained) = TrackedStep /\ InOrder(trained)' /\ MayResume(trained, place)'
      BY <1>1, <3>2, <3>3, <3>4, JudgedAlike DEF TrackedHistory
    <3>6. /\ shards'[TrackedStep'][role][r].content = trained
          /\ data'[TrackedStep'].content = place
      BY <2>2, <2>3, <3>1, <3>2, <3>3
    <3>7. /\ Len(shards[TrackedStep][role][r].content)' = TrackedStep'
          /\ InOrder(shards[TrackedStep][role][r].content)'
          /\ MayResume(shards[TrackedStep][role][r].content, data[TrackedStep].content)'
      BY <2>2, <3>5, <3>6 DEF InOrder, MayResume
    <3> QED
      BY <1>3, <3>7 DEF TrackedHistory
  <2> QED
    BY <1>2, <2>4, <2>5 DEF TrackedInv
<1> QED
  BY <1>4, <1>5, <1>6

LEMMA SaveAndGoOnStep ==
  ASSUME OneStepInv, SaveAndGoOn, UNCHANGED batch_data_future
  PROVE  OneStepInv'
<1> USE DEF At, Goto, Places, TakesBatches, InTraining, AfterUpdate
<1>1. /\ pc = "saving" /\ save_pc # "idle" /\ SaveStep
      /\ save_step \in Steps /\ save_step = global_steps
      /\ IF save_pc' = "idle" THEN _fit_postprocess_step ELSE UNCHANGED << global_steps, pc >>
      /\ UNCHANGED << max_ckpt_to_keep, weights, dataloader, save_step, epoch, batches_left,
                      first_sync, batch, config, incarnation >>
  BY SavingFrame
<1>2. /\ global_steps \in Nat
      /\ IsWritten(tracker) => TrackedStep \in Nat /\ TrackedStep < global_steps
  BY <1>1, CheckpointAssumption
  DEF OneStepInv, TypeInv, Files, IsWritten, Missing, Torn, Written, TrackedStep, TrackerBehind
<1>3. IsWritten(tracker') =>
        \/ tracker' = tracker
        \/ tracker' = Written(save_step) /\ save_pc' = "idle"
  BY <1>1 DEF SaveStep, ensure_checkpoint_capacity, OpenShard, CloseShard, register_checkpoint,
              OpenData, CloseData, OpenTracker, CloseTracker, IsWritten, Torn
<1>4. ASSUME save_pc' = "idle"
      PROVE  /\ global_steps' \in Nat /\ PassInv' /\ FirstLifeInv' /\ TaskInv' /\ WeightsInv'
             /\ TrackerBehind'
  <2>1. StepSaved
    <3>1. IsWritten(tracker') => tracker'.content \in Nat /\ tracker'.content <= global_steps
      BY <1>1, <1>2, <1>3 DEF TrackedStep, Written
    <3> QED
      BY <1>1, <3>1 DEF StepSaved
  <2>2. _fit_postprocess_step /\ pc' \in {"next_batch", "done"}
    BY <1>1, <1>4 DEF _fit_postprocess_step
  <2> QED
    BY <2>1, <2>2, PostprocessStep
<1>5. ASSUME save_pc' # "idle"
      PROVE  /\ global_steps' \in Nat /\ PassInv' /\ FirstLifeInv' /\ TaskInv' /\ WeightsInv'
             /\ TrackerBehind'
  <2>1. UNCHANGED << global_steps, pc >>
    BY <1>1, <1>5
  <2>2. Ahead' = Ahead /\ NextBatch' = NextBatch /\ IsLastStep' = IsLastStep /\ batch = NoBatch
    BY <1>1, <2>1 DEF Ahead, NextBatch, IsLastStep, OneStepInv, TaskInv
  <2>3. PassInv' /\ FirstLifeInv'
    BY <1>1, <2>1, <2>2 DEF OneStepInv, PassInv, FirstLifeInv, DataForAllSteps
  <2>4. TaskInv'
    <3>1. OutOfData' <=> OutOfData
      BY <1>1 DEF OutOfData, DataForAllSteps
    <3>2. IsBatch(NextBatch) => IsBatch(NextBatch)'
      BY <2>2 DEF IsBatch
    <3>3. Ahead => (batch_data_future \in {GeneratingAhead(NextBatch), Ready(NextBatch)})'
      BY <1>1, <2>2 DEF OneStepInv, TaskInv, GeneratingAhead, Ready
    <3> QED
      BY <1>1, <2>1, <2>2, <3>1, <3>2, <3>3 DEF OneStepInv, TaskInv
  <2>5. WeightsInv'
    <3> SUFFICES ASSUME NEW role \in EachStep, NEW r \in Ranks,
                        HistoryInv(weights[role][r]), InOrder(weights[role][r])'
                 PROVE  HistoryInv(weights[role][r])'
      BY <1>1, OrderKept DEF OneStepInv
    <3>1. TaskAfter(weights[role][r][Len(weights[role][r])][1])'
      BY <1>1, <2>2 DEF HistoryInv, TaskAfter
    <3> QED
      BY <1>1, <2>1, <3>1 DEF HistoryInv
  <2>6. IsWritten(tracker') => tracker' = tracker
    BY <1>3, <1>5
  <2>7. TrackerBehind'
    BY <1>1, <1>2, <2>1, <2>6 DEF TrackerBehind, TrackedStep, IsWritten
  <2> QED
    BY <1>1, <1>2, <2>1, <2>3, <2>4, <2>5, <2>7
<1>6. TypeInv'
  <2>1. BatchTyped'
    BY <1>1 DEF OneStepInv, TypeInv, BatchTyped
  <2>2. pc' \in {"saving", "next_batch", "done"} /\ (pc' = "saving" => global_steps' \in Steps)
    BY <1>1 DEF _fit_postprocess_step
  <2>3. global_steps' \in Nat
    BY <1>4, <1>5
  <2> QED
    BY <1>1, <2>1, <2>2, <2>3, SaveStepTypes DEF OneStepInv, TypeInv, WithBatch
<1>7. SavesStep' /\ SavedSoFar' /\ TrackedInv'
  BY SavingSteps, TrackedSavingStep
<1>8. pc' \in Places
  BY <1>1 DEF _fit_postprocess_step
<1> QED
  BY <1>4, <1>5, <1>6, <1>7, <1>8 DEF OneStepInv

-----------------------------------------------------------------------------
(* A new life, and the theorem.                                            *)

LEMMA RestartStep ==
  ASSUME OneStepInv, Restart, batch_data_future' = NoTask
  PROVE  OneStepInv'
<1>1. /\ pc' = "load" /\ incarnation' = incarnation + 1 /\ first_sync' = TRUE
      /\ global_steps' = 0 /\ dataloader' = 0 /\ batch' = NoBatch /\ save_pc' = "idle"
      /\ rank_pc' = [r \in Ranks |-> "open"]
      /\ weights' = [role \in Roles |-> [r \in Ranks |-> << >>]]
      /\ UNCHANGED << diskVars, config >>
  BY DEF Restart, LoseMemory
<1>2. UNCHANGED << shards, data, tracker >> /\ TrackedStep' = TrackedStep
  BY <1>1 DEF diskVars, TrackedStep
<1>3. incarnation \in Nat
  BY PPOTrainerAssumption DEF OneStepInv, TypeInv
<1>4. EachStep' = EachStep /\ EachStep \subseteq Roles
  BY <1>1, EachStepFixed DEF EachStep
<1>5. TypeInv'
  BY RestartTypes DEF OneStepInv
<1>6. PassInv' /\ FirstLifeInv' /\ TrackerBehind' /\ SavesStep' /\ SavedSoFar'
  <2>1. pc' \notin TakesBatches
    BY <1>1 DEF TakesBatches, InTraining, AfterUpdate
  <2>2. PassInv' /\ TrackerBehind'
    BY <1>1, <2>1 DEF PassInv, TrackerBehind
  <2>3. FirstLifeInv'
    BY <1>1, <1>3 DEF FirstLifeInv
  <2>4. SavesStep' /\ SavedSoFar'
    BY <1>1 DEF SavesStep, SavedSoFar
  <2> QED
    BY <2>2, <2>3, <2>4
<1>7. TaskInv'
  <2>1. ~Ahead' /\ NoTask # EndOfData
    BY DEF Ahead, NoTask, EndOfData
  <2> QED
    BY <1>1, <2>1 DEF TaskInv, InTraining, AfterUpdate
<1>8. WeightsInv'
  <2> SUFFICES ASSUME NEW role \in EachStep, NEW r \in Ranks
               PROVE  HistoryInv(weights[role][r])'
    BY <1>4 DEF WeightsInv
  <2>1. weights'[role][r] = << >>
    BY <1>1, <1>4
  <2>2. InOrder(weights[role][r])'
    BY <2>1 DEF InOrder
  <2> QED
    BY <1>1, <2>1, <2>2 DEF HistoryInv, InTraining, AfterUpdate
<1>9. TrackedInv'
  <2> SUFFICES ASSUME IsWritten(tracker), NEW role \in EachStep, NEW r \in Ranks,
                      IsWritten(shards[TrackedStep][role][r])
               PROVE  /\ Len(shards[TrackedStep][role][r].content)' = TrackedStep'
                      /\ InOrder(shards[TrackedStep][role][r].content)'
                      /\ MayResume(shards[TrackedStep][role][r].content, data[TrackedStep].content)'
                      /\ (LET trained == shards[TrackedStep][role][r].content
                          IN  trained[Len(trained)][2] < incarnation)'
    <3>1. IsWritten(tracker)' => IsWritten(data[TrackedStep])'
      BY <1>2 DEF OneStepInv, TrackedInv, IsWritten
    <3> QED
      BY <1>2, <1>4, <3>1 DEF TrackedInv, TrackedHistory, IsWritten
  <2>1. PICK trained : trained = shards[TrackedStep][role][r].content
    OBVIOUS
  <2>2. PICK place : place = data[TrackedStep].content
    OBVIOUS
  <2>3. Len(trained) = TrackedStep /\ InOrder(trained) /\ MayResume(trained, place)
    BY <2>1, <2>2 DEF OneStepInv, TrackedInv, TrackedHistory
  <2>4. trained \in Contents
    <3>1. TrackedStep \in Steps
      BY DEF OneStepInv, TypeInv, Files, IsWritten, Missing, Torn, Written, TrackedStep
    <3>2. shards[TrackedStep][role][r] \in Files(Contents)
      BY <1>4, <3>1 DEF OneStepInv, TypeInv
    <3> QED
      BY <2>1, <3>2 DEF Files, IsWritten, Missing, Torn, Written
  <2>5. /\ Len(trained) \in 1..Len(trained)
        /\ \A i \in 1..Len(trained) : trained[i][2] \in Nat
    <3>1. trained # << >>
      BY <2>3 DEF MayResume
    <3> QED
      BY <2>4, <3>1 DEF Contents
  <2>6. \A i \in 1..Len(trained) : trained[i][2] < incarnation'
    BY <1>1, <1>3, <2>3, <2>5 DEF InOrder
  <2>7. InOrder(trained)'
    <3>1. \A i \in 1..Len(trained) : trained[i][2] <= incarnation'
      BY <1>1, <1>3, <2>5, <2>6
    <3> QED
      BY <1>1, <2>3, <3>1 DEF InOrder, Follows
  <2>8. MayResume(trained, place)'
    BY <1>1, <2>3 DEF MayResume
  <2>9. /\ shards'[TrackedStep'][role][r].content = trained
        /\ data'[TrackedStep'].content = place
    BY <1>2, <2>1, <2>2
  <2> QED
    BY <1>2, <2>3, <2>5, <2>6, <2>7, <2>8, <2>9 DEF InOrder, MayResume
<1> QED
  BY <1>1, <1>5, <1>6, <1>7, <1>8, <1>9 DEF OneStepInv, Places

LEMMA OneStepInvInit == OneStepInit => OneStepInv
<1> SUFFICES ASSUME OneStepInit
             PROVE  OneStepInv
  OBVIOUS
<1> USE DEF OneStepInit, Init, CheckpointInit, InTraining, AfterUpdate, TakesBatches
<1>1. TypeInv
  BY TypeInit
<1>2. PassInv /\ FirstLifeInv /\ TrackerBehind /\ SavesStep /\ SavedSoFar
  BY DEF PassInv, FirstLifeInv, TrackerBehind, SavesStep, SavedSoFar
<1>3. TaskInv
  BY DEF TaskInv, Ahead, NoTask, EndOfData
<1>4. WeightsInv
  <2> SUFFICES ASSUME NEW role \in EachStep, NEW r \in Ranks
               PROVE  HistoryInv(weights[role][r])
    BY DEF WeightsInv
  <2>1. weights[role][r] = << >>
    BY DEF EachStep
  <2> QED
    BY <2>1 DEF HistoryInv, InOrder
<1>5. TrackedInv
  BY DEF TrackedInv, IsWritten, Missing
<1> QED
  BY <1>1, <1>2, <1>3, <1>4, <1>5 DEF OneStepInv, Places

\* nothing happens
LEMMA StutterStep ==
  ASSUME OneStepInv, UNCHANGED oneStepVars
  PROVE  OneStepInv'
<1>1. UNCHANGED << shards, data, tracker, previous_saved_paths, max_ckpt_to_keep, weights,
                   dataloader, save_pc, save_role, save_step, rank_pc, pc, global_steps, epoch,
                   batches_left, first_sync, batch, config, incarnation, batch_data_future >>
  BY DEF oneStepVars, vars, checkpointVars, diskVars, memoryVars, saveVars, driverVars, batchVars,
         jobVars
<1>2. TypeInv'
  BY <1>1 DEF OneStepInv, TypeInv, BatchTyped
<1>3. PassInv' /\ FirstLifeInv' /\ TrackerBehind' /\ SavesStep'
  BY <1>1 DEF OneStepInv, PassInv, FirstLifeInv, TrackerBehind, SavesStep, DataForAllSteps,
              IsLastStep, TrackedStep
<1>4. SavedSoFar'
  BY <1>1 DEF OneStepInv, SavedSoFar, OfThisSave, SavingRole
<1>5. TaskInv'
  BY <1>1 DEF OneStepInv, TaskInv, Ahead, NextBatch, IsBatch, OutOfData, TaskAfter, IsLastStep,
              DataForAllSteps, GeneratingAhead, Ready
<1>6. WeightsInv'
  <2> SUFFICES ASSUME NEW role \in EachStep, NEW r \in Ranks,
                      HistoryInv(weights[role][r]), InOrder(weights[role][r])'
               PROVE  HistoryInv(weights[role][r])'
    BY <1>1, OrderKept DEF OneStepInv
  <2> QED
    BY <1>1 DEF HistoryInv, MayFollow, Follows, TaskAfter, IsLastStep, Ahead
<1>7. TrackedInv'
  BY <1>1, TrackedUnmoved DEF OneStepInv, diskVars
<1> QED
  BY <1>1, <1>2, <1>3, <1>4, <1>5, <1>6, <1>7 DEF OneStepInv

LEMMA OneStepInvStep == OneStepInv /\ [OneStepNext]_oneStepVars => OneStepInv'
  BY StartStep, StartPipelineStep, FinishGenerationStep, GenerateStep, UnpackNoneStep,
     TrainBatchStep, UpdateStep, ValidateStep, SaveCheckpointStep, SaveAndGoOnStep, RestartStep,
     StutterStep
  DEF OneStepNext

LEMMA OneStepInvAlways == OneStepSpec => []OneStepInv
  BY OneStepInvInit, OneStepInvStep, PTL DEF OneStepSpec

LEMMA LookAheadFromInv == OneStepInv => LookAheadInOrder
<1> SUFFICES ASSUME OneStepInv
             PROVE  LookAheadInOrder
  OBVIOUS
<1>1. batch # NoBatch => /\ pc \in InTraining /\ batch.step = global_steps
                         /\ TaskAfter(batch.id)
  BY DEF OneStepInv, TaskInv
<1>2. ASSUME NEW role \in Roles, NEW r \in Ranks, FirstBatch(role) = 1
      PROVE  LET trained == weights[role][r]
             IN  /\ trained # << >> => trained[1][1] = 1
                 /\ \A i \in 1..(Len(trained) - 1) : Follows(trained[i], trained[i + 1], i)
                 /\ batch # NoBatch => Len(trained) = batch.step - 1 /\ batch.step = global_steps
  <2>1. HistoryInv(weights[role][r])
    BY <1>2 DEF OneStepInv, WeightsInv, EachStep
  <2> QED
    BY <1>1, <2>1 DEF HistoryInv, InOrder
<1>3. batch # NoBatch /\ batch_data_future.at \in {"generating", "ready"} =>
        batch_data_future.batch.id = batch.id + 1
  <2> SUFFICES ASSUME batch # NoBatch, Ahead
               PROVE  NextBatch.id = batch.id + 1
    BY DEF Ahead, NextBatch
  <2>1. NextBatch.id = dataloader
    BY DEF OneStepInv, TaskInv
  <2> QED
    BY <1>1, <2>1 DEF TaskAfter
<1>4. At("failed") /\ ~first_sync =>
        /\ dataloader >= config.total_epochs * config.epoch_len
        /\ DataForAllSteps => incarnation > 0
  BY DEF At, OneStepInv, TaskInv, OutOfData
<1> QED
  BY <1>2, <1>3, <1>4 DEF LookAheadInOrder

(* The pipeline is one batch deep: the weights are trained on consecutive  *)
(* batches but for the one that was in generation when the checkpoint was  *)
(* saved that a life resumed from, the batch in generation follows the one *)
(* in training, and a job with data for its steps can run out of them only *)
(* after a restart (OneStepOffRayTrainer.fit and _save_checkpoint).        *)
THEOREM LookAheadCorrect == OneStepSpec => []LookAheadInOrder
  BY OneStepInvAlways, LookAheadFromInv, PTL
=============================================================================
