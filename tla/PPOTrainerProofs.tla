--------------------------- MODULE PPOTrainerProofs ---------------------------
(***************************************************************************)
(* Proofs about the checkpoints of the synchronous trainer, for any number *)
(* of ranks and restarts, any retention limit and any configuration: the   *)
(* types, that the tracker only ever moves to a complete checkpoint, that  *)
(* what it names can be resumed from, and that retention keeps its limit.  *)
(*                                                                         *)
(* The argument: within one life of the job the steps in the list of saved *)
(* paths increase and the tracked step is its last one, so what retention  *)
(* takes from the front of the list is neither the step being saved nor,   *)
(* unless only one is kept, the tracked one.  A later life saves only      *)
(* steps beyond the tracked one, and its list starts empty.                *)
(***************************************************************************)
EXTENDS PPOTrainerProperties, FiniteSetTheorems, TLAPS

Contents == Seq(Nat \X Nat)
Files(contents) == {Missing, Torn} \cup { Written(c) : c \in contents }

SavePcs == {"idle", "ensure", "write", "open_data", "close_data", "open_tracker",
            "close_tracker"}
AfterRoles == {"open_data", "close_data", "open_tracker", "close_tracker"}

\* where the driver is before it has saved the current step
BeforeSave == {"epoch", "next_batch", "balance", "old_log_prob", "values", "adv", "update", "save"}
WithBatch == {"balance", "old_log_prob", "values", "adv", "update", "save", "saving"}

\* the other fields of a batch are not needed
BatchTyped ==
  /\ batch = [field \in DOMAIN batch |-> batch[field]]
  /\ "id" \in DOMAIN batch
  /\ batch.id \in Nat

TypeInv ==
  /\ shards \in [Steps -> [Roles -> [Ranks -> Files(Contents)]]]
  /\ data \in [Steps -> Files(Nat)]
  /\ tracker \in Files(Steps)
  /\ previous_saved_paths \in [Roles -> Seq(Steps)]
  /\ max_ckpt_to_keep = config.max_ckpt_to_keep
  /\ weights \in [Roles -> [Ranks -> Contents]]
  /\ dataloader \in Nat
  /\ save_pc \in SavePcs /\ save_role \in DOMAIN RoleOrder /\ save_step \in Nat
  /\ rank_pc \in [Ranks -> {"open", "close", "barrier"}]
  /\ config \in Configs
  /\ pc \in {"load", "sync", "syncing", "validate_first", "epoch", "next_batch", "balance",
             "old_log_prob", "values", "adv", "update", "save", "saving", "validate",
             "done", "failed"}
  /\ global_steps \in Nat /\ epoch \in Nat /\ batches_left \in Nat
  /\ BatchTyped
  /\ pc \in WithBatch => global_steps \in Steps
  /\ incarnation \in 0..MaxRestarts

\* the driver is in a save exactly when it says so
SavesThisStep ==
  /\ pc = "saving" <=> save_pc # "idle"
  /\ pc = "saving" => save_step = global_steps
  /\ save_pc # "write" => rank_pc = [r \in Ranks |-> "open"]
  /\ pc \in {"load", "validate_first"} => first_sync
  /\ first_sync => /\ pc \in {"load", "sync", "syncing", "validate_first", "failed"}
                   /\ \A role \in Roles : previous_saved_paths[role] = << >>

\* all ranks of a role have made the same updates
RanksAgree == \A role \in Roles : \A r, s \in Ranks : weights[role][r] = weights[role][s]

\* the save in progress is through with this role
Registered(role) ==
  \/ save_pc \in AfterRoles
  \/ save_pc # "idle" /\ \E i \in DOMAIN RoleOrder : RoleOrder[i] = role /\ i < save_role

SaveProgress ==
  /\ save_pc = "write" =>
       \A r \in Ranks : rank_pc[r] = "barrier" =>
         shards[save_step][SavingRole][r] = Written(weights[SavingRole][r])
  /\ \A role \in Roles : Registered(role) =>
       \A r \in Ranks : shards[save_step][role][r] = Written(weights[role][r])
  /\ save_pc \in {"open_tracker", "close_tracker"} => IsWritten(data[save_step])

Increasing(paths) == \A i, j \in 1..Len(paths) : i < j => paths[i] < paths[j]
AllBelow(paths, bound) == \A i \in 1..Len(paths) : paths[i] < bound
EndsWith(paths, step) == paths # << >> => paths[Len(paths)] = step

PathsIncrease ==
  \A role \in Roles :
    /\ Increasing(previous_saved_paths[role])
    /\ AllBelow(previous_saved_paths[role], global_steps + 1)
    /\ pc \in BeforeSave => AllBelow(previous_saved_paths[role], global_steps)
    /\ pc = "saving" /\ ~Registered(role) => AllBelow(previous_saved_paths[role], global_steps)
    /\ Registered(role) => EndsWith(previous_saved_paths[role], save_step)

\* the folder of a role: deleted, or whole with all ranks in agreement
Gone(n, role) == \A r \in Ranks : shards[n][role][r] = Missing
Whole(n, role) ==
  /\ \A r \in Ranks : IsWritten(shards[n][role][r])
  /\ \A r, s \in Ranks : shards[n][role][r] = shards[n][role][s]

TrackedSafe ==
  IsWritten(tracker) =>
    /\ pc \notin {"load", "failed"} => TrackedStep <= global_steps
    /\ pc \in BeforeSave \cup {"saving"} => TrackedStep < global_steps
    /\ IsWritten(data[TrackedStep])
    /\ \A role \in Roles :
         /\ Gone(TrackedStep, role) \/ Whole(TrackedStep, role)
         /\ max_ckpt_to_keep # 1 => Whole(TrackedStep, role)
         /\ ~Registered(role) => EndsWith(previous_saved_paths[role], TrackedStep)

FailedJob == pc = "failed" => tracker = Torn \/ max_ckpt_to_keep = 1

IInv ==
  /\ TypeInv /\ SavesThisStep /\ RanksAgree /\ SaveProgress
  /\ PathsIncrease /\ TrackedSafe /\ FailedJob

-----------------------------------------------------------------------------
(* What retention does to the list and to the disk.                        *)

LEMMA PathsOfNumbers ==
  ASSUME NEW paths \in Seq(Steps)
  PROVE  \A i \in 1..Len(paths) : paths[i] \in Steps /\ paths[i] \in Nat
<1>1. \A i \in 1..Len(paths) : paths[i] \in Steps
  OBVIOUS
<1> QED
  BY <1>1, CheckpointAssumption

Excess(paths, keep) == IF Len(paths) > keep THEN Len(paths) - keep ELSE 0

LEMMA DropOldestEffect ==
  ASSUME TypeInv, NEW role \in Roles, NEW paths \in Seq(Steps), NEW keep \in Nat,
         DropOldest(role, paths, keep)
  PROVE  /\ previous_saved_paths' \in [Roles -> Seq(Steps)]
         /\ shards' \in [Steps -> [Roles -> [Ranks -> Files(Contents)]]]
         /\ \A other \in Roles : other # role =>
              /\ previous_saved_paths'[other] = previous_saved_paths[other]
              /\ \A n \in Steps : shards'[n][other] = shards[n][other]
         /\ Len(previous_saved_paths'[role]) = Len(paths) - Excess(paths, keep)
         /\ \A i \in 1..Len(previous_saved_paths'[role]) :
              previous_saved_paths'[role][i] = paths[i + Excess(paths, keep)]
         /\ \A n \in Steps :
              \/ shards'[n][role] = shards[n][role]
              \/ /\ \E i \in 1..Excess(paths, keep) : paths[i] = n
                 /\ shards'[n][role] = [r \in Ranks |-> Missing]
         /\ \A n \in Steps : (\E i \in 1..Excess(paths, keep) : paths[i] = n) =>
              shards'[n][role] = [r \in Ranks |-> Missing]
<1>1. Missing \in Files(Contents)
  BY DEF Files
<1>2. CASE Len(paths) - keep > 0
  <2> DEFINE excess == Len(paths) - keep
             suffix == SubSeq(paths, excess + 1, Len(paths))
  <2>1. /\ shards' = remove_previous_save_local_path(shards, role, Oldest(paths, excess))
        /\ previous_saved_paths' = [previous_saved_paths EXCEPT ![role] = suffix]
    BY <1>2 DEF DropOldest
  <2>2. excess \in Nat /\ Len(paths) \in Nat /\ excess = Excess(paths, keep) /\ excess <= Len(paths)
    BY <1>2 DEF Excess
  <2>3. /\ suffix \in Seq(Steps) /\ Len(suffix) = Len(paths) - excess
        /\ \A i \in 1..Len(suffix) : suffix[i] = paths[i + excess]
    BY <2>2
  <2>4. \A n \in Steps : shards'[n] =
          IF n \in Oldest(paths, excess)
          THEN [shards[n] EXCEPT ![role] = [r \in Ranks |-> Missing]] ELSE shards[n]
    BY <2>1 DEF remove_previous_save_local_path
  <2>5. shards' \in [Steps -> [Roles -> [Ranks -> Files(Contents)]]]
    BY <1>1, <2>1 DEF remove_previous_save_local_path, TypeInv
  <2>6. \A n \in Steps : n \in Oldest(paths, excess) <=> \E i \in 1..excess : paths[i] = n
    BY DEF Oldest
  <2> HIDE DEF excess, suffix
  <2>7. previous_saved_paths' \in [Roles -> Seq(Steps)] /\ previous_saved_paths'[role] = suffix
    BY <2>1, <2>3 DEF TypeInv
  <2>8. \A other \in Roles : other # role =>
          previous_saved_paths'[other] = previous_saved_paths[other]
    BY <2>1 DEF TypeInv
  <2>9. \A n \in Steps : \A other \in Roles : other # role => shards'[n][other] = shards[n][other]
    BY <2>4 DEF TypeInv
  <2>10. \A n \in Steps :
           \/ shards'[n][role] = shards[n][role]
           \/ n \in Oldest(paths, excess) /\ shards'[n][role] = [r \in Ranks |-> Missing]
    BY <2>4 DEF TypeInv
  <2>11. \A n \in Steps :
           n \in Oldest(paths, excess) => shards'[n][role] = [r \in Ranks |-> Missing]
    BY <2>4 DEF TypeInv
  <2> QED
    BY <2>2, <2>3, <2>5, <2>6, <2>7, <2>8, <2>9, <2>10, <2>11
<1>3. CASE ~(Len(paths) - keep > 0)
  <2>1. /\ previous_saved_paths' = [previous_saved_paths EXCEPT ![role] = paths]
        /\ shards' = shards
    BY <1>3 DEF DropOldest
  <2>2. Excess(paths, keep) = 0 /\ Len(paths) \in Nat
    BY <1>3 DEF Excess
  <2> QED
    BY <2>1, <2>2 DEF TypeInv
<1> QED
  BY <1>2, <1>3

-----------------------------------------------------------------------------
(* Types.                                                                  *)

\* the actions that leave the checkpoints alone
Quiet ==
  \/ StartFromScratch \/ ResumeFails
  \/ UpdateWeightsInPlace \/ UpdateWeights \/ Transfer \/ FinishUpdateWeights
  \/ StartLoop \/ StartEpoch \/ EndEpoch
  \/ _balance_batch \/ (\E w \in Workers : WorkerComputes(w)) \/ CollectAnswers
  \/ compute_advantage \/ EndStep

LEMMA QuietFrame ==
  ASSUME TypeInv, Quiet
  PROVE  UNCHANGED << checkpointVars, jobVars >> /\ BatchTyped'
<1> USE DEF TypeInv, BatchTyped, batchVars, driverVars
<1>1. CASE _balance_batch
  BY <1>1 DEF _balance_batch
<1>2. CASE CollectAnswers
  BY <1>2 DEF CollectAnswers
<1>3. CASE compute_advantage
  BY <1>3 DEF compute_advantage
<1>4. CASE \E w \in Workers : WorkerComputes(w)
  BY <1>4 DEF WorkerComputes
<1>5. CASE UpdateWeightsInPlace \/ UpdateWeights \/ Transfer \/ FinishUpdateWeights
  BY <1>5 DEF UpdateWeightsInPlace, UpdateWeights, Transfer, FinishUpdateWeights
<1>6. CASE StartFromScratch \/ ResumeFails \/ StartLoop \/ StartEpoch \/ EndEpoch \/ EndStep
  BY <1>6 DEF StartFromScratch, ResumeFails, StartLoop, StartEpoch, EndEpoch, EndStep
<1> QED
  BY <1>1, <1>2, <1>3, <1>4, <1>5, <1>6 DEF Quiet

LEMMA SavingRoleIsRole == TypeInv => SavingRole \in Roles
  BY DEF TypeInv, SavingRole, Roles

\* the driver's part of the types
DriverTyped ==
  /\ pc \in {"load", "sync", "syncing", "validate_first", "epoch", "next_batch", "balance",
             "old_log_prob", "values", "adv", "update", "save", "saving", "validate",
             "done", "failed"}
  /\ global_steps \in Nat /\ epoch \in Nat /\ batches_left \in Nat
  /\ pc \in WithBatch => global_steps \in Steps

LEMMA DivisionTypes == \A a \in Nat, b \in Nat \ {0} : a \div b \in Nat /\ a % b \in 0..(b - 1)
  OBVIOUS

LEMMA QuietTypes ==
  ASSUME TypeInv, Quiet
  PROVE  DriverTyped'
<1>1. /\ config.epoch_len \in Nat \ {0}
      /\ global_steps \in Nat /\ dataloader \in Nat
  BY PPOTrainerAssumption DEF TypeInv
<1>2. global_steps \div config.epoch_len \in Nat
  BY <1>1, DivisionTypes
<1>3. dataloader % config.epoch_len \in 0..(config.epoch_len - 1)
  BY <1>1, DivisionTypes
<1>4. PassLengths \subseteq Nat
  BY <1>1, <1>3 DEF PassLengths
<1> USE DEF TypeInv, DriverTyped, batchVars, driverVars, At, Goto, WithBatch
<1>5. CASE _balance_batch \/ CollectAnswers \/ compute_advantage
  BY <1>5 DEF _balance_batch, CollectAnswers, compute_advantage
<1>6. CASE \E w \in Workers : WorkerComputes(w)
  BY <1>6 DEF WorkerComputes
<1>7. CASE UpdateWeightsInPlace \/ UpdateWeights \/ Transfer \/ FinishUpdateWeights
  BY <1>7 DEF UpdateWeightsInPlace, UpdateWeights, Transfer, FinishUpdateWeights, AfterSync
<1>8. CASE StartFromScratch \/ ResumeFails \/ EndEpoch \/ EndStep
  BY <1>8 DEF StartFromScratch, ResumeFails, EndEpoch, EndStep
<1>9. CASE StartLoop
  BY <1>9, <1>2 DEF StartLoop
<1>10. CASE StartEpoch
  BY <1>10, <1>4 DEF StartEpoch
<1> QED
  BY <1>5, <1>6, <1>7, <1>8, <1>9, <1>10 DEF Quiet

LEMMA SaveStepTypes ==
  ASSUME TypeInv, save_step \in Steps, SaveStep
  PROVE  /\ shards' \in [Steps -> [Roles -> [Ranks -> Files(Contents)]]]
         /\ data' \in [Steps -> Files(Nat)]
         /\ tracker' \in Files(Steps)
         /\ previous_saved_paths' \in [Roles -> Seq(Steps)]
         /\ save_pc' \in SavePcs /\ save_role' \in DOMAIN RoleOrder
         /\ rank_pc' \in [Ranks -> {"open", "close", "barrier"}]
         /\ UNCHANGED << max_ckpt_to_keep, weights, dataloader, save_step >>
<1>1. SavingRole \in Roles
  BY SavingRoleIsRole
<1>2. Torn \in Files(Contents) /\ Torn \in Files(Nat) /\ Torn \in Files(Steps)
  BY DEF Files
<1> USE DEF TypeInv, SavePcs, memoryVars
<1>5. CASE ensure_checkpoint_capacity
  <2>1. CASE max_ckpt_to_keep > 1
    <3>1. DropOldest(SavingRole, previous_saved_paths[SavingRole], max_ckpt_to_keep - 1)
      BY <1>5, <2>1 DEF ensure_checkpoint_capacity
    <3>2. /\ previous_saved_paths[SavingRole] \in Seq(Steps)
          /\ max_ckpt_to_keep - 1 \in Nat
      BY <1>1, <2>1, PPOTrainerAssumption
    <3>3. /\ previous_saved_paths' \in [Roles -> Seq(Steps)]
          /\ shards' \in [Steps -> [Roles -> [Ranks -> Files(Contents)]]]
      BY <1>1, <3>1, <3>2, DropOldestEffect
    <3> QED
      BY <1>5, <3>3 DEF ensure_checkpoint_capacity
  <2>2. CASE ~(max_ckpt_to_keep > 1)
    BY <1>5, <2>2 DEF ensure_checkpoint_capacity
  <2> QED
    BY <2>1, <2>2
<1>6. CASE \E r \in Ranks : OpenShard(r)
  BY <1>1, <1>2, <1>6 DEF OpenShard
<1>7. CASE \E r \in Ranks : CloseShard(r)
  <2>1. PICK r \in Ranks : CloseShard(r)
    BY <1>7
  <2>2. Written(weights[SavingRole][r]) \in Files(Contents)
    BY <1>1 DEF Files
  <2> QED
    BY <1>1, <2>1, <2>2 DEF CloseShard
<1>8. CASE register_checkpoint
  <2> DEFINE paths == Append(previous_saved_paths[SavingRole], save_step)
  <2>1. paths \in Seq(Steps) /\ max_ckpt_to_keep \in Nat
    BY <1>1, PPOTrainerAssumption
  <2>2. /\ previous_saved_paths' \in [Roles -> Seq(Steps)]
        /\ shards' \in [Steps -> [Roles -> [Ranks -> Files(Contents)]]]
    <3>1. CASE max_ckpt_to_keep > 0
      <4>1. DropOldest(SavingRole, paths, max_ckpt_to_keep)
        BY <1>8, <3>1 DEF register_checkpoint
      <4> QED
        BY <1>1, <2>1, <4>1, DropOldestEffect
    <3>2. CASE ~(max_ckpt_to_keep > 0)
      BY <1>1, <1>8, <2>1, <3>2 DEF register_checkpoint
    <3> QED
      BY <3>1, <3>2
  <2>3. save_role' \in DOMAIN RoleOrder /\ save_pc' \in SavePcs
    BY <1>8, CheckpointAssumption DEF register_checkpoint, NextRole
  <2> QED
    BY <1>8, <2>2, <2>3 DEF register_checkpoint
<1>9. CASE OpenData \/ OpenTracker
  BY <1>2, <1>9 DEF OpenData, OpenTracker
<1>10. CASE CloseData
  <2>1. Written(dataloader) \in Files(Nat)
    BY DEF Files
  <2> QED
    BY <1>10, <2>1 DEF CloseData
<1>11. CASE CloseTracker
  <2>1. Written(save_step) \in Files(Steps)
    BY <1>1 DEF Files
  <2> QED
    BY <1>11, <2>1 DEF CloseTracker
<1> QED
  BY <1>5, <1>6, <1>7, <1>8, <1>9, <1>10, <1>11 DEF SaveStep

LEMMA SaveTypes ==
  ASSUME TypeInv, SavesThisStep, Saving
  PROVE  TypeInv'
<1>1. /\ save_step \in Steps /\ SaveStep
      /\ UNCHANGED << global_steps, epoch, batches_left, batch, config, incarnation >>
      /\ pc = "saving" /\ pc' \in {"saving", "sync"}
  BY DEF Saving, TypeInv, SavesThisStep, WithBatch, At, Goto, batchVars, jobVars
<1>2. BatchTyped'
  BY <1>1 DEF TypeInv, BatchTyped
<1> QED
  BY <1>1, <1>2, SaveStepTypes DEF TypeInv, WithBatch

LEMMA ResumeTypes ==
  ASSUME TypeInv, ResumeFromCheckpoint
  PROVE  TypeInv'
<1>1. /\ IsWritten(tracker) /\ tracker = Written(TrackedStep) /\ TrackedStep \in Steps
      /\ \A role \in Roles, r \in Ranks : IsWritten(shards[TrackedStep][role][r])
      /\ global_steps' = TrackedStep /\ pc = "load" /\ pc' = "sync"
  BY DEF ResumeFromCheckpoint, LoadTracked, CanLoad, TypeInv, Files, IsWritten, Missing, Torn,
         Written, TrackedStep, At, Goto
<1>2. \A role \in Roles, r \in Ranks : shards[TrackedStep][role][r].content \in Contents
  <2> SUFFICES ASSUME NEW role \in Roles, NEW r \in Ranks
               PROVE  shards[TrackedStep][role][r].content \in Contents
    OBVIOUS
  <2>1. shards[TrackedStep][role][r] \in Files(Contents)
    BY <1>1 DEF TypeInv
  <2> QED
    BY <1>1, <2>1 DEF Files, IsWritten, Missing, Torn, Written
<1>3. LoadedDataloader \in Nat
  <2>1. data[TrackedStep] \in Files(Nat) /\ data[TrackedStep] # Torn
    BY <1>1 DEF ResumeFromCheckpoint, LoadTracked, CanLoad, TypeInv
  <2> QED
    BY <2>1 DEF LoadedDataloader, Files, TypeInv, Written
<1>4. weights' \in [Roles -> [Ranks -> Contents]]
  BY <1>2 DEF ResumeFromCheckpoint, LoadTracked
<1>5. TrackedStep \in Nat
  BY <1>1, CheckpointAssumption
<1>6. BatchTyped'
  BY DEF ResumeFromCheckpoint, BatchTyped, TypeInv, batchVars
<1> QED
  BY <1>1, <1>3, <1>4, <1>5, <1>6
  DEF ResumeFromCheckpoint, LoadTracked, TypeInv, diskVars, saveVars, jobVars, WithBatch

LEMMA TrainingTypes ==
  ASSUME TypeInv, Generate \/ UpdateModels
  PROVE  TypeInv'
<1> USE DEF TypeInv, diskVars, saveVars, jobVars, WithBatch, At, Goto
<1>1. CASE Generate
  <2>1. dataloader' \in Nat /\ batches_left' \in Nat /\ pc = "next_batch" /\ pc' = "balance"
    BY <1>1 DEF Generate
  <2>2. BatchTyped'
    <3>1. PICK rows, policies, awake :
            batch' = [id |-> dataloader', step |-> global_steps, order |-> "generated",
                      rows |-> rows, policies |-> policies, awake |-> awake,
                      old_log_probs |-> << >>, values |-> << >>, advantages |-> << >>]
      BY <1>1 DEF Generate
    <3> QED
      BY <2>1, <3>1 DEF BatchTyped
  <2> QED
    BY <1>1, <2>1, <2>2 DEF Generate
<1>2. CASE UpdateModels
  <2>1. BatchTyped'
    BY <1>2 DEF UpdateModels, BatchTyped, NoBatch
  <2>2. weights' \in [Roles -> [Ranks -> Contents]]
    <3> DEFINE update == << batch.id, incarnation >>
    <3>1. update \in Nat \X Nat
      BY PPOTrainerAssumption DEF BatchTyped
    <3> HIDE DEF update
    <3>2. \A role \in Roles, r \in Ranks : Append(weights[role][r], update) \in Contents
      BY <3>1 DEF Contents
    <3> QED
      BY <1>2, <3>2 DEF UpdateModels, Updated, update
  <2>3. pc = "update" /\ pc' \in {"validate", "save"}
    BY <1>2 DEF UpdateModels
  <2> QED
    BY <1>2, <2>1, <2>2, <2>3 DEF UpdateModels
<1> QED
  BY <1>1, <1>2

\* the step of the driver that starts a save, or does not
LEMMA StartSaveTypes ==
  ASSUME TypeInv, _save_checkpoint
  PROVE  TypeInv'
<1>1. /\ \/ StartSave(global_steps) /\ pc' = "saving"
            /\ UNCHANGED << diskVars, previous_saved_paths, max_ckpt_to_keep, memoryVars >>
         \/ pc' = "sync" /\ UNCHANGED checkpointVars
      /\ pc = "save"
      /\ UNCHANGED << global_steps, epoch, batches_left, batch, config, incarnation >>
  BY DEF _save_checkpoint, At, Goto, batchVars, jobVars
<1>2. BatchTyped'
  BY <1>1 DEF TypeInv, BatchTyped
<1>3. 1 \in DOMAIN RoleOrder
  BY CheckpointAssumption
<1> QED
  BY <1>1, <1>2, <1>3
  DEF TypeInv, StartSave, diskVars, memoryVars, saveVars, checkpointVars, SavePcs, WithBatch

LEMMA RestartTypes ==
  ASSUME TypeInv, Restart
  PROVE  TypeInv'
<1>1. << >> \in Contents /\ << >> \in Seq(Steps)
  BY DEF Contents
<1>2. 1 \in DOMAIN RoleOrder
  BY CheckpointAssumption
<1>3. BatchTyped'
  BY DEF Restart, BatchTyped, NoBatch
<1>4. incarnation' \in 0..MaxRestarts
  BY PPOTrainerAssumption DEF Restart, TypeInv
<1> QED
  BY <1>1, <1>2, <1>3, <1>4 DEF Restart, LoseMemory, TypeInv, diskVars, SavePcs, WithBatch

LEMMA TypeInit == Init => TypeInv
<1> SUFFICES ASSUME Init PROVE TypeInv
  OBVIOUS
<1>1. << >> \in Contents /\ << >> \in Seq(Steps)
  BY DEF Contents
<1>2. 1 \in DOMAIN RoleOrder /\ incarnation \in 0..MaxRestarts
  BY CheckpointAssumption, PPOTrainerAssumption DEF Init
<1>3. BatchTyped
  BY DEF Init, BatchTyped, NoBatch
<1> QED
  BY <1>1, <1>2, <1>3 DEF Init, CheckpointInit, TypeInv, SavePcs, WithBatch, Files

LEMMA TypeStep ==
  ASSUME TypeInv, SavesThisStep, [Next]_vars
  PROVE  TypeInv'
<1>1. CASE Quiet
  <2>1. DriverTyped' /\ BatchTyped' /\ UNCHANGED << checkpointVars, jobVars >>
    BY <1>1, QuietTypes, QuietFrame
  <2> QED
    BY <2>1 DEF DriverTyped, TypeInv, checkpointVars, diskVars, memoryVars, saveVars, jobVars
<1>2. CASE UNCHANGED vars
  BY <1>2 DEF vars, TypeInv, BatchTyped, checkpointVars, diskVars, memoryVars, saveVars, jobVars,
              driverVars, batchVars
<1> QED
  BY <1>1, <1>2, SaveTypes, ResumeTypes, TrainingTypes, StartSaveTypes, RestartTypes
  DEF Next, DriverStep, Quiet

-----------------------------------------------------------------------------
(* The steps of a save.                                                    *)

\* the variables a step of a save leaves alone, and the driver meanwhile
LEMMA SaveFrame ==
  ASSUME TypeInv, SavesThisStep, Saving
  PROVE  /\ pc = "saving" /\ save_pc # "idle"
         /\ save_step \in Steps /\ save_step = global_steps /\ SavingRole \in Roles
         /\ pc' = IF save_pc' = "idle" THEN "sync" ELSE "saving"
         /\ UNCHANGED << max_ckpt_to_keep, weights, dataloader, global_steps, save_step,
                         first_sync >>
  BY SavingRoleIsRole
  DEF Saving, SaveStep, ensure_checkpoint_capacity, OpenShard, CloseShard, register_checkpoint,
      OpenData, CloseData, OpenTracker, CloseTracker, TypeInv, SavesThisStep, WithBatch, At,
      Goto, memoryVars

LEMMA SavesThisStepStep ==
  ASSUME TypeInv, SavesThisStep, [Next]_vars
  PROVE  SavesThisStep'
<1> USE DEF SavesThisStep, At, Goto
<1>1. CASE Quiet
  <2>1. UNCHANGED checkpointVars
    BY <1>1, QuietFrame
  <2>2. UNCHANGED << save_pc, save_step, rank_pc, previous_saved_paths >>
    BY <2>1 DEF checkpointVars, saveVars
  <2>3. CASE UpdateWeightsInPlace \/ UpdateWeights \/ Transfer \/ FinishUpdateWeights
    BY <2>2, <2>3 DEF UpdateWeightsInPlace, UpdateWeights, Transfer, FinishUpdateWeights,
                      AfterSync, driverVars
  <2>4. CASE StartFromScratch \/ ResumeFails \/ StartLoop \/ StartEpoch \/ EndEpoch \/ EndStep
    BY <2>2, <2>4 DEF StartFromScratch, ResumeFails, StartLoop, StartEpoch, EndEpoch, EndStep
  <2>5. CASE \/ _balance_batch \/ CollectAnswers \/ compute_advantage
             \/ \E w \in Workers : WorkerComputes(w)
    BY <2>2, <2>5 DEF _balance_batch, CollectAnswers, compute_advantage, WorkerComputes,
                      driverVars
  <2> QED
    BY <1>1, <2>3, <2>4, <2>5 DEF Quiet
<1>2. CASE Saving
  <2>1. /\ pc = "saving" /\ save_pc # "idle" /\ ~first_sync
        /\ pc' = IF save_pc' = "idle" THEN "sync" ELSE "saving"
        /\ UNCHANGED << global_steps, save_step, first_sync >>
    BY <1>2, SaveFrame
  <2>2. save_pc' # "write" => rank_pc' = [r \in Ranks |-> "open"]
    BY <1>2 DEF Saving, SaveStep, ensure_checkpoint_capacity, OpenShard, CloseShard,
      register_checkpoint, OpenData, CloseData, OpenTracker, CloseTracker
  <2> QED
    BY <2>1, <2>2
<1>3. CASE ResumeFromCheckpoint \/ Generate \/ UpdateModels
  BY <1>3 DEF ResumeFromCheckpoint, LoadTracked, Generate, UpdateModels, saveVars
<1>4. CASE _save_checkpoint
  BY <1>4 DEF _save_checkpoint, StartSave, checkpointVars, saveVars
<1>5. CASE Restart
  BY <1>5 DEF Restart, LoseMemory
<1>6. CASE UNCHANGED vars
  BY <1>6 DEF vars, checkpointVars, saveVars, driverVars
<1> QED
  BY <1>1, <1>2, <1>3, <1>4, <1>5, <1>6 DEF Next, DriverStep, Quiet

LEMMA RanksAgreeStep ==
  ASSUME TypeInv, SavesThisStep, RanksAgree, TrackedSafe, [Next]_vars
  PROVE  RanksAgree'
<1>1. CASE ResumeFromCheckpoint
  <2>1. \A role \in Roles : Whole(TrackedStep, role)
    BY <1>1 DEF ResumeFromCheckpoint, LoadTracked, CanLoad, TrackedSafe, Gone, Whole, IsWritten,
                Missing
  <2> QED
    BY <1>1, <2>1 DEF ResumeFromCheckpoint, LoadTracked, RanksAgree, Whole
<1>2. CASE UpdateModels
  BY <1>2 DEF UpdateModels, Updated, RanksAgree
<1>3. CASE Restart
  BY <1>3 DEF Restart, LoseMemory, RanksAgree
<1>4. CASE Quiet \/ Saving \/ Generate \/ _save_checkpoint \/ UNCHANGED vars
  <2>1. UNCHANGED weights
    BY <1>4, QuietFrame, SaveFrame
    DEF Generate, _save_checkpoint, vars, checkpointVars, memoryVars
  <2> QED
    BY <2>1 DEF RanksAgree
<1> QED
  BY <1>1, <1>2, <1>3, <1>4 DEF Next, DriverStep, Quiet

LEMMA NotYetRegistered ==
  ASSUME TypeInv, save_pc \in {"ensure", "write"}
  PROVE  ~Registered(SavingRole)
  BY CheckpointAssumption DEF TypeInv, Registered, SavingRole, AfterRoles

\* rank 0 makes room: only earlier steps go, and the last saved one stays
LEMMA EnsureEffect ==
  ASSUME TypeInv, SavesThisStep, PathsIncrease, Saving, ensure_checkpoint_capacity
  PROVE  LET paths == previous_saved_paths[SavingRole]
             kept == previous_saved_paths'[SavingRole]
         IN  /\ \A role \in Roles : role # SavingRole =>
                  /\ previous_saved_paths'[role] = previous_saved_paths[role]
                  /\ \A n \in Steps : shards'[n][role] = shards[n][role]
             /\ \A n \in Steps :
                  \/ shards'[n][SavingRole] = shards[n][SavingRole]
                  \/ /\ shards'[n][SavingRole] = [r \in Ranks |-> Missing]
                     /\ n < save_step
                     /\ ~EndsWith(paths, n)
             /\ Increasing(kept) /\ AllBelow(kept, global_steps)
             /\ \A step \in Steps : EndsWith(paths, step) => EndsWith(kept, step)
<1> DEFINE paths == previous_saved_paths[SavingRole]
           kept == previous_saved_paths'[SavingRole]
<1>1. /\ save_pc = "ensure" /\ SavingRole \in Roles /\ save_step = global_steps
      /\ save_step \in Nat /\ paths \in Seq(Steps) /\ pc = "saving"
      /\ max_ckpt_to_keep \in Nat
  BY SaveFrame, PPOTrainerAssumption DEF ensure_checkpoint_capacity, TypeInv
<1>2. Increasing(paths) /\ AllBelow(paths, global_steps)
  BY <1>1, NotYetRegistered DEF PathsIncrease
<1>3. CASE max_ckpt_to_keep > 1
  <2> DEFINE keep == max_ckpt_to_keep - 1
             excess == Excess(paths, keep)
  <2>1. DropOldest(SavingRole, paths, keep) /\ keep \in Nat /\ keep >= 1
    BY <1>1, <1>3 DEF ensure_checkpoint_capacity
  <2>2. /\ excess \in Nat /\ Len(paths) \in Nat /\ excess <= Len(paths)
        /\ excess > 0 => excess < Len(paths)
        /\ paths # << >> => Len(paths) > 0 /\ excess < Len(paths)
    BY <1>1, <2>1 DEF Excess
  <2> HIDE DEF keep, excess, paths
  <2>3. /\ \A role \in Roles : role # SavingRole =>
             /\ previous_saved_paths'[role] = previous_saved_paths[role]
             /\ \A n \in Steps : shards'[n][role] = shards[n][role]
        /\ kept \in Seq(Steps)
        /\ Len(kept) = Len(paths) - excess
        /\ \A i \in 1..Len(kept) : kept[i] = paths[i + excess]
        /\ \A n \in Steps :
             \/ shards'[n][SavingRole] = shards[n][SavingRole]
             \/ /\ \E i \in 1..excess : paths[i] = n
                /\ shards'[n][SavingRole] = [r \in Ranks |-> Missing]
    BY <1>1, <2>1, DropOldestEffect DEF excess
  <2>4. \A i \in 1..Len(paths) : paths[i] \in Nat
    <3>1. paths \in Seq(Steps)
      BY <1>1
    <3> QED
      BY <3>1, PathsOfNumbers
  <2>5. ASSUME NEW n \in Steps, NEW i \in 1..excess, paths[i] = n
        PROVE  n < save_step /\ ~EndsWith(paths, n)
    <3>1. i \in 1..Len(paths) /\ Len(paths) \in 1..Len(paths) /\ i < Len(paths) /\ paths # << >>
      BY <1>1, <2>2
    <3>2. paths[i] < paths[Len(paths)] /\ paths[i] < global_steps
      BY <1>2, <3>1 DEF Increasing, AllBelow
    <3> QED
      BY <1>1, <2>4, <2>5, <3>1, <3>2 DEF EndsWith
  <2>6. Increasing(kept) /\ AllBelow(kept, global_steps)
    <3>1. \A i \in 1..Len(kept) : i + excess \in 1..Len(paths) /\ kept[i] = paths[i + excess]
      BY <2>2, <2>3
    <3>2. \A i, j \in 1..Len(kept) : i < j => i + excess < j + excess
      BY <2>2, <2>3
    <3> HIDE DEF kept
    <3> QED
      BY <1>2, <3>1, <3>2 DEF Increasing, AllBelow
  <2>7. ASSUME NEW step \in Steps, EndsWith(paths, step)
        PROVE  EndsWith(kept, step)
    BY <1>1, <2>2, <2>3, <2>7 DEF EndsWith
  <2> QED
    BY <2>3, <2>5, <2>6, <2>7 DEF paths
<1>4. CASE ~(max_ckpt_to_keep > 1)
  BY <1>2, <1>4 DEF ensure_checkpoint_capacity
<1> QED
  BY <1>1, <1>3, <1>4

\* the step just saved joins the list, and again only earlier ones go
LEMMA RegisterEffect ==
  ASSUME TypeInv, SavesThisStep, PathsIncrease, Saving, register_checkpoint
  PROVE  LET paths == previous_saved_paths[SavingRole]
             kept == previous_saved_paths'[SavingRole]
         IN  /\ \A role \in Roles : role # SavingRole =>
                  /\ previous_saved_paths'[role] = previous_saved_paths[role]
                  /\ \A n \in Steps : shards'[n][role] = shards[n][role]
             /\ \A n \in Steps :
                  \/ shards'[n][SavingRole] = shards[n][SavingRole]
                  \/ /\ shards'[n][SavingRole] = [r \in Ranks |-> Missing]
                     /\ n < save_step
                     /\ max_ckpt_to_keep # 1 => ~EndsWith(paths, n)
             /\ Increasing(kept) /\ AllBelow(kept, global_steps + 1)
             /\ EndsWith(kept, save_step)
<1> DEFINE paths == previous_saved_paths[SavingRole]
           kept == previous_saved_paths'[SavingRole]
           longer == Append(paths, save_step)
<1>1. /\ save_pc = "write" /\ SavingRole \in Roles /\ save_step = global_steps
      /\ save_step \in Nat /\ save_step \in Steps /\ paths \in Seq(Steps) /\ pc = "saving"
      /\ max_ckpt_to_keep \in Nat
  BY SaveFrame, PPOTrainerAssumption DEF register_checkpoint, TypeInv
<1>2. Increasing(paths) /\ AllBelow(paths, global_steps)
  BY <1>1, NotYetRegistered DEF PathsIncrease
<1>3. /\ longer \in Seq(Steps) /\ Len(longer) = Len(paths) + 1 /\ Len(paths) \in Nat
      /\ longer[Len(longer)] = save_step
      /\ \A i \in 1..Len(paths) : longer[i] = paths[i]
  BY <1>1
<1>4. \A i \in 1..Len(paths) : paths[i] \in Nat
  BY <1>1, PathsOfNumbers
<1>5. \A i \in 1..Len(longer) : i \in 1..Len(paths) \/ i = Len(longer)
  BY <1>3
<1>6. Increasing(longer) /\ AllBelow(longer, global_steps + 1) /\ EndsWith(longer, save_step)
  <2> HIDE DEF longer, paths
  <2>1. \A i \in 1..Len(longer) : longer[i] \in Nat
    BY <1>3, PathsOfNumbers
  <2>2. \A i \in 1..Len(paths) : longer[i] < global_steps
    BY <1>2, <1>3 DEF AllBelow
  <2>3. AllBelow(longer, global_steps + 1)
    BY <1>1, <1>3, <1>5, <2>1, <2>2 DEF AllBelow
  <2>4. ASSUME NEW i \in 1..Len(longer), NEW j \in 1..Len(longer), i < j
        PROVE  longer[i] < longer[j]
    <3>1. i \in 1..Len(paths)
      BY <1>3, <2>4
    <3>2. CASE j \in 1..Len(paths)
      BY <1>2, <1>3, <2>4, <3>1, <3>2 DEF Increasing
    <3>3. CASE j = Len(longer)
      BY <1>1, <1>3, <2>2, <3>1, <3>3
    <3> QED
      BY <1>5, <3>2, <3>3
  <2> QED
    BY <1>3, <2>3, <2>4 DEF Increasing, EndsWith
<1>7. CASE max_ckpt_to_keep > 0
  <2> DEFINE excess == Excess(longer, max_ckpt_to_keep)
  <2>1. DropOldest(SavingRole, longer, max_ckpt_to_keep)
    BY <1>7 DEF register_checkpoint
  <2> HIDE DEF longer, paths
  <2>2. /\ excess \in Nat /\ Len(longer) \in Nat /\ excess <= Len(paths)
        /\ max_ckpt_to_keep # 1 /\ excess > 0 => excess < Len(paths)
    BY <1>1, <1>3, <1>7 DEF Excess
  <2> HIDE DEF excess
  <2>3. /\ \A role \in Roles : role # SavingRole =>
             /\ previous_saved_paths'[role] = previous_saved_paths[role]
             /\ \A n \in Steps : shards'[n][role] = shards[n][role]
        /\ kept \in Seq(Steps)
        /\ Len(kept) = Len(longer) - excess
        /\ \A i \in 1..Len(kept) : kept[i] = longer[i + excess]
        /\ \A n \in Steps :
             \/ shards'[n][SavingRole] = shards[n][SavingRole]
             \/ /\ \E i \in 1..excess : longer[i] = n
                /\ shards'[n][SavingRole] = [r \in Ranks |-> Missing]
    BY <1>1, <1>3, <2>1, DropOldestEffect DEF excess
  <2>4. ASSUME NEW n \in Steps, NEW i \in 1..excess, longer[i] = n
        PROVE  n < save_step /\ (max_ckpt_to_keep # 1 => ~EndsWith(paths, n))
    <3>1. i \in 1..Len(paths) /\ paths[i] = n
      BY <1>3, <2>2, <2>4
    <3>2. n < save_step
      BY <1>1, <1>2, <3>1 DEF AllBelow
    <3>3. ASSUME max_ckpt_to_keep # 1
          PROVE  ~EndsWith(paths, n)
      <4>1. i < Len(paths) /\ Len(paths) \in 1..Len(paths) /\ paths # << >>
        BY <1>1, <1>3, <2>2, <3>1, <3>3
      <4>2. paths[i] < paths[Len(paths)]
        BY <1>2, <3>1, <4>1 DEF Increasing
      <4> QED
        BY <1>4, <3>1, <4>1, <4>2 DEF EndsWith
    <3> QED
      BY <3>2, <3>3
  <2>5. \A i \in 1..Len(kept) : i + excess \in 1..Len(longer) /\ kept[i] = longer[i + excess]
    BY <2>2, <2>3
  <2>6. Increasing(kept) /\ AllBelow(kept, global_steps + 1)
    <3>1. \A i, j \in 1..Len(kept) : i < j => i + excess < j + excess
      BY <2>2, <2>3
    <3> HIDE DEF kept
    <3> QED
      BY <1>6, <2>5, <3>1 DEF Increasing, AllBelow
  <2>7. EndsWith(kept, save_step)
    <3>1. Len(kept) \in 1..Len(kept) /\ Len(kept) + excess = Len(longer)
      BY <1>3, <2>2, <2>3
    <3> QED
      BY <1>3, <2>5, <3>1 DEF EndsWith
  <2> QED
    BY <2>3, <2>4, <2>6, <2>7 DEF paths
<1>8. CASE ~(max_ckpt_to_keep > 0)
  <2>1. /\ previous_saved_paths' = [previous_saved_paths EXCEPT ![SavingRole] = longer]
        /\ UNCHANGED shards
    BY <1>8 DEF register_checkpoint
  <2>2. kept = longer
    BY <1>1, <2>1 DEF TypeInv
  <2> QED
    BY <1>1, <1>6, <2>1, <2>2 DEF TypeInv
<1> QED
  BY <1>1, <1>7, <1>8

-----------------------------------------------------------------------------
(* The lists of saved paths.                                               *)

LEMMA RoleNumbers == DOMAIN RoleOrder = 1..Len(RoleOrder) /\ Len(RoleOrder) \in Nat
<1>1. RoleOrder \in Seq({"actor", "critic"})
  BY CheckpointAssumption
<1> QED
  BY <1>1

LEMMA RegisteredByRegister ==
  ASSUME TypeInv, register_checkpoint
  PROVE  \A role \in Roles : Registered(role)' <=> Registered(role) \/ role = SavingRole
<1>1. CASE save_role < Len(RoleOrder)
  <2>1. save_role' = save_role + 1 /\ save_pc' = "ensure" /\ save_pc = "write"
    BY <1>1 DEF register_checkpoint, NextRole
  <2>2. \A i \in DOMAIN RoleOrder : i < save_role + 1 <=> i < save_role \/ i = save_role
    BY RoleNumbers DEF TypeInv
  <2> QED
    BY <2>1, <2>2 DEF Registered, AfterRoles, SavingRole, TypeInv
<1>2. CASE ~(save_role < Len(RoleOrder))
  <2>1. save_pc' = "open_data" /\ save_pc = "write"
    BY <1>2 DEF register_checkpoint, NextRole
  <2>2. \A i \in DOMAIN RoleOrder : i < save_role \/ i = save_role
    BY <1>2, RoleNumbers DEF TypeInv
  <2> QED
    BY <2>1, <2>2 DEF Registered, AfterRoles, SavingRole, Roles
<1> QED
  BY <1>1, <1>2

\* the steps that change no list and no registration
LEMMA OtherSaveStep ==
  ASSUME TypeInv, SavesThisStep, Saving, ~ensure_checkpoint_capacity, ~register_checkpoint
  PROVE  /\ UNCHANGED previous_saved_paths
         /\ save_pc' # "idle" => \A role \in Roles : Registered(role)' <=> Registered(role)
         /\ save_pc' = "idle" => CloseTracker
  BY DEF Saving, SaveStep, OpenShard, CloseShard, OpenData, CloseData, OpenTracker,
         CloseTracker, Registered, AfterRoles

LEMMA EnsureRegistration ==
  ASSUME ensure_checkpoint_capacity
  PROVE  \A role \in Roles : Registered(role)' <=> Registered(role)
  BY DEF ensure_checkpoint_capacity, Registered, AfterRoles

LEMMA IdleRegistersNothing ==
  /\ save_pc = "idle" => \A role \in Roles : ~Registered(role)
  /\ save_pc' = "idle" => \A role \in Roles : ~Registered(role)'
  BY DEF Registered, AfterRoles

\* how the driver moves in the steps that are not part of a save
LEMMA QuietMoves ==
  ASSUME TypeInv, Quiet
  PROVE  /\ pc \notin {"saving", "failed"} /\ pc' \notin {"saving", "load"}
         /\ \/ /\ global_steps' = global_steps
               /\ pc' \in BeforeSave => pc \in BeforeSave
               /\ pc = "load" => StartFromScratch \/ ResumeFails
               /\ pc' = "failed" => ResumeFails
            \/ /\ global_steps' = global_steps + 1
               /\ pc \in {"validate_first", "validate"} /\ pc' # "failed"
<1> USE DEF At, Goto, BeforeSave, driverVars
<1>1. CASE UpdateWeightsInPlace \/ UpdateWeights \/ Transfer \/ FinishUpdateWeights
  BY <1>1 DEF UpdateWeightsInPlace, UpdateWeights, Transfer, FinishUpdateWeights, AfterSync
<1>2. CASE StartFromScratch \/ ResumeFails \/ StartLoop \/ StartEpoch \/ EndEpoch \/ EndStep
  BY <1>2 DEF StartFromScratch, ResumeFails, StartLoop, StartEpoch, EndEpoch, EndStep
<1>3. CASE \/ _balance_batch \/ CollectAnswers \/ compute_advantage
           \/ \E w \in Workers : WorkerComputes(w)
  BY <1>3 DEF _balance_batch, CollectAnswers, compute_advantage, WorkerComputes
<1> QED
  BY <1>1, <1>2, <1>3 DEF Quiet

LEMMA StartSaveMoves ==
  ASSUME TypeInv, SavesThisStep, _save_checkpoint
  PROVE  /\ pc = "save" /\ pc' \in {"saving", "sync"}
         /\ UNCHANGED << diskVars, previous_saved_paths, max_ckpt_to_keep, weights, dataloader,
                         global_steps >>
         /\ \A role \in Roles : ~Registered(role)'
         /\ save_pc' \in {"idle", "ensure"}
<1>1. \A i \in DOMAIN RoleOrder : ~(i < 1)
  BY RoleNumbers
<1>2. save_pc = "idle"
  BY DEF _save_checkpoint, SavesThisStep, At
<1> QED
  BY <1>1, <1>2
  DEF _save_checkpoint, StartSave, Registered, AfterRoles, At, Goto, checkpointVars, memoryVars,
      saveVars, TypeInv

LEMMA TrainingMoves ==
  ASSUME TypeInv, SavesThisStep, ResumeFromCheckpoint \/ Generate \/ UpdateModels
  PROVE  /\ pc # "saving" /\ pc' \notin {"saving", "load", "failed"}
         /\ pc' \in BeforeSave => pc \in BeforeSave
         /\ ~ResumeFromCheckpoint => global_steps' = global_steps
         /\ ResumeFromCheckpoint => pc = "load" /\ global_steps' = TrackedStep
         /\ UNCHANGED << diskVars, previous_saved_paths, max_ckpt_to_keep, saveVars >>
  BY DEF ResumeFromCheckpoint, LoadTracked, Generate, UpdateModels, At, Goto, BeforeSave

LEMMA PathsStep ==
  ASSUME TypeInv, SavesThisStep, PathsIncrease, [Next]_vars
  PROVE  PathsIncrease'
<1>1. \A role \in Roles : previous_saved_paths[role] \in Seq(Steps)
  BY DEF TypeInv
<1>2. CASE Saving
  <2>1. /\ pc = "saving" /\ save_step = global_steps /\ SavingRole \in Roles
        /\ pc' = IF save_pc' = "idle" THEN "sync" ELSE "saving"
        /\ UNCHANGED << global_steps, save_step >>
    BY <1>2, SaveFrame
  <2> USE DEF BeforeSave
  <2>2. CASE ensure_checkpoint_capacity
    <3>1. ~Registered(SavingRole) /\ \A role \in Roles : Registered(role)' <=> Registered(role)
      BY <2>2, NotYetRegistered, EnsureRegistration DEF ensure_checkpoint_capacity
    <3>2. ASSUME NEW role \in Roles, role # SavingRole
          PROVE  previous_saved_paths'[role] = previous_saved_paths[role]
      BY <1>2, <2>2, <3>2, EnsureEffect
    <3>3. /\ Increasing(previous_saved_paths'[SavingRole])
          /\ AllBelow(previous_saved_paths'[SavingRole], global_steps)
      BY <1>2, <2>2, EnsureEffect
    <3>4. AllBelow(previous_saved_paths'[SavingRole], global_steps + 1)
      <4>1. previous_saved_paths'[SavingRole] \in Seq(Steps) /\ global_steps \in Nat
        BY <1>2, <2>1, SaveTypes DEF TypeInv
      <4>2. \A i \in 1..Len(previous_saved_paths'[SavingRole]) : previous_saved_paths'[SavingRole][i] \in Nat
        BY <4>1, PathsOfNumbers
      <4> QED
        BY <3>3, <4>1, <4>2 DEF AllBelow
    <3> QED
      BY <2>1, <3>1, <3>2, <3>3, <3>4 DEF PathsIncrease
  <2>3. CASE register_checkpoint
    <3>1. \A role \in Roles : Registered(role)' <=> Registered(role) \/ role = SavingRole
      BY <2>3, RegisteredByRegister
    <3>2. ASSUME NEW role \in Roles, role # SavingRole
          PROVE  previous_saved_paths'[role] = previous_saved_paths[role]
      BY <1>2, <2>3, <3>2, RegisterEffect
    <3>3. /\ Increasing(previous_saved_paths'[SavingRole])
          /\ AllBelow(previous_saved_paths'[SavingRole], global_steps + 1)
          /\ EndsWith(previous_saved_paths'[SavingRole], save_step)
      BY <1>2, <2>3, RegisterEffect
    <3> QED
      BY <2>1, <3>1, <3>2, <3>3 DEF PathsIncrease
  <2>4. CASE ~ensure_checkpoint_capacity /\ ~register_checkpoint
    BY <1>2, <2>1, <2>4, OtherSaveStep, IdleRegistersNothing DEF PathsIncrease
  <2> QED
    BY <2>2, <2>3, <2>4
<1>3. CASE Restart
  BY <1>3, IdleRegistersNothing
  DEF Restart, LoseMemory, PathsIncrease, Increasing, AllBelow, EndsWith, BeforeSave
<1>4. CASE Quiet
  <2>1. UNCHANGED << previous_saved_paths, save_pc, save_role >>
    BY <1>4, QuietFrame DEF checkpointVars, saveVars
  <2>2. pc # "saving" /\ pc' # "saving" /\ global_steps \in Nat
    BY <1>4, QuietMoves DEF TypeInv
  <2>3. \A role \in Roles : ~Registered(role)'
    BY <2>1, <2>2, IdleRegistersNothing DEF SavesThisStep
  <2>4. CASE global_steps' = global_steps /\ (pc' \in BeforeSave => pc \in BeforeSave)
    BY <2>1, <2>2, <2>3, <2>4 DEF PathsIncrease
  <2>5. CASE global_steps' = global_steps + 1
    <3>1. \A role \in Roles : \A i \in 1..Len(previous_saved_paths[role]) :
            previous_saved_paths[role][i] \in Nat
      BY <1>1, PathsOfNumbers
    <3>2. \A role \in Roles : AllBelow(previous_saved_paths[role], global_steps' + 1)
      BY <2>2, <2>5, <3>1 DEF PathsIncrease, AllBelow
    <3> QED
      BY <2>1, <2>2, <2>3, <2>5, <3>2 DEF PathsIncrease
  <2> QED
    BY <1>4, <2>4, <2>5, QuietMoves
<1>6. CASE ResumeFromCheckpoint \/ Generate \/ UpdateModels
  <2>1. UNCHANGED << previous_saved_paths, save_pc, save_role >> /\ pc # "saving" /\ pc' # "saving"
    BY <1>6, TrainingMoves DEF saveVars
  <2>2. \A role \in Roles : ~Registered(role)'
    BY <2>1, IdleRegistersNothing DEF SavesThisStep
  <2>3. CASE ResumeFromCheckpoint
    <3>1. \A role \in Roles : previous_saved_paths[role] = << >>
      BY <2>3, TrainingMoves DEF SavesThisStep
    <3> QED
      BY <2>1, <2>2, <3>1 DEF PathsIncrease, Increasing, AllBelow
  <2>4. CASE Generate \/ UpdateModels
    <3>1. global_steps' = global_steps /\ (pc' \in BeforeSave => pc \in BeforeSave)
      BY <2>4 DEF Generate, UpdateModels, At, Goto, BeforeSave
    <3> QED
      BY <2>1, <2>2, <3>1 DEF PathsIncrease
  <2> QED
    BY <1>6, <2>3, <2>4
<1>7. CASE _save_checkpoint
  BY <1>7, StartSaveMoves DEF PathsIncrease, BeforeSave
<1>5. CASE UNCHANGED vars
  BY <1>5 DEF vars, checkpointVars, saveVars, driverVars, PathsIncrease, Registered, AfterRoles
<1> QED
  BY <1>2, <1>3, <1>4, <1>5, <1>6, <1>7 DEF Next, DriverStep, Quiet

-----------------------------------------------------------------------------
(* What a save has written is there when the tracker is.                   *)

LEMMA SaveProgressStep ==
  ASSUME TypeInv, SavesThisStep, PathsIncrease, SaveProgress, [Next]_vars
  PROVE  SaveProgress'
<1>1. CASE Saving
  <2>1. /\ SavingRole \in Roles /\ save_step \in Steps
        /\ UNCHANGED << weights, dataloader, save_step >>
    BY <1>1, SaveFrame
  <2>2. /\ shards \in [Steps -> [Roles -> [Ranks -> Files(Contents)]]]
        /\ rank_pc \in [Ranks -> {"open", "close", "barrier"}]
    BY DEF TypeInv
  <2>3. CASE ensure_checkpoint_capacity
    <3>1. /\ save_pc' = "write" /\ ~Registered(SavingRole)
          /\ \A role \in Roles : Registered(role)' <=> Registered(role)
      BY <2>3, NotYetRegistered, EnsureRegistration DEF ensure_checkpoint_capacity
    <3>2. \A r \in Ranks : rank_pc'[r] # "barrier"
      BY <2>3 DEF ensure_checkpoint_capacity, SavesThisStep
    <3>3. ASSUME NEW role \in Roles, role # SavingRole
          PROVE  shards'[save_step][role] = shards[save_step][role]
      BY <1>1, <2>1, <2>3, <3>3, EnsureEffect
    <3> QED
      BY <2>1, <3>1, <3>2, <3>3 DEF SaveProgress
  <2>4. ASSUME NEW r \in Ranks, OpenShard(r)
        PROVE  SaveProgress'
    <3>1. /\ save_pc = "write" /\ UNCHANGED << save_pc, save_role >> /\ rank_pc'[r] # "barrier"
          /\ \A s \in Ranks : s # r => rank_pc'[s] = rank_pc[s]
          /\ \A s \in Ranks : s # r =>
               shards'[save_step][SavingRole][s] = shards[save_step][SavingRole][s]
          /\ \A role \in Roles : role # SavingRole =>
               shards'[save_step][role] = shards[save_step][role]
      BY <2>1, <2>2, <2>4 DEF OpenShard
    <3>2. ~Registered(SavingRole) /\ \A role \in Roles : Registered(role)' <=> Registered(role)
      BY <3>1, NotYetRegistered DEF Registered
    <3> QED
      BY <2>1, <3>1, <3>2 DEF SaveProgress, SavingRole
  <2>5. ASSUME NEW r \in Ranks, CloseShard(r)
        PROVE  SaveProgress'
    <3>1. /\ save_pc = "write" /\ UNCHANGED << save_pc, save_role >>
          /\ \A s \in Ranks : s # r => rank_pc'[s] = rank_pc[s]
          /\ \A s \in Ranks : s # r =>
               shards'[save_step][SavingRole][s] = shards[save_step][SavingRole][s]
          /\ shards'[save_step][SavingRole][r] = Written(weights[SavingRole][r])
          /\ \A role \in Roles : role # SavingRole =>
               shards'[save_step][role] = shards[save_step][role]
      BY <2>1, <2>2, <2>5 DEF CloseShard
    <3>2. ~Registered(SavingRole) /\ \A role \in Roles : Registered(role)' <=> Registered(role)
      BY <3>1, NotYetRegistered DEF Registered
    <3> QED
      BY <2>1, <3>1, <3>2 DEF SaveProgress, SavingRole
  <2>6. CASE register_checkpoint
    <3>1. save_pc' \in {"ensure", "open_data"} /\ save_pc = "write"
      BY <2>6 DEF register_checkpoint, NextRole
    <3>2. \A role \in Roles : Registered(role)' <=> Registered(role) \/ role = SavingRole
      BY <2>6, RegisteredByRegister
    <3>3. \A r \in Ranks : shards[save_step][SavingRole][r] = Written(weights[SavingRole][r])
      BY <2>6, <3>1 DEF register_checkpoint, BarrierReached, SaveProgress
    <3>4. shards'[save_step][SavingRole] = shards[save_step][SavingRole]
      <4>1. ~(save_step < save_step)
        BY <2>1, CheckpointAssumption
      <4> QED
        BY <1>1, <2>1, <2>6, <4>1, RegisterEffect
    <3>5. ASSUME NEW role \in Roles, role # SavingRole
          PROVE  shards'[save_step][role] = shards[save_step][role]
      BY <1>1, <2>1, <2>6, <3>5, RegisterEffect
    <3> QED
      BY <2>1, <3>1, <3>2, <3>3, <3>4, <3>5 DEF SaveProgress
  <2>7. CASE OpenData \/ CloseData \/ OpenTracker \/ CloseTracker
    <3>1. UNCHANGED shards /\ save_pc' # "write"
      BY <2>7 DEF OpenData, CloseData, OpenTracker, CloseTracker
    <3>2. ~ensure_checkpoint_capacity /\ ~register_checkpoint
      BY <2>7 DEF OpenData, CloseData, OpenTracker, CloseTracker, ensure_checkpoint_capacity,
                  register_checkpoint
    <3>3. \A role \in Roles : Registered(role)' => Registered(role)
      BY <1>1, <3>2, OtherSaveStep, IdleRegistersNothing
    <3>4. save_pc' \in {"open_tracker", "close_tracker"} => IsWritten(data'[save_step])
      <4>1. CASE CloseData
        BY <2>1, <4>1 DEF CloseData, TypeInv, IsWritten, Written
      <4>2. CASE OpenData \/ OpenTracker \/ CloseTracker
        BY <4>2 DEF OpenData, OpenTracker, CloseTracker, SaveProgress
      <4> QED
        BY <2>7, <4>1, <4>2
    <3> QED
      BY <2>1, <3>1, <3>3, <3>4 DEF SaveProgress
  <2> QED
    BY <1>1, <2>3, <2>4, <2>5, <2>6, <2>7 DEF Saving, SaveStep
<1>2. CASE Quiet \/ ResumeFromCheckpoint \/ Generate \/ UpdateModels \/ Restart
  <2>1. save_pc' = "idle"
    BY <1>2, QuietFrame, QuietMoves, TrainingMoves
    DEF checkpointVars, saveVars, SavesThisStep, Restart, LoseMemory
  <2> QED
    BY <2>1, IdleRegistersNothing DEF SaveProgress
<1>3. CASE _save_checkpoint
  BY <1>3, StartSaveMoves DEF SaveProgress
<1>4. CASE UNCHANGED vars
  BY <1>4 DEF vars, checkpointVars, saveVars, diskVars, memoryVars, SaveProgress, Registered,
              AfterRoles, SavingRole
<1> QED
  BY <1>1, <1>2, <1>3, <1>4 DEF Next, DriverStep, Quiet

\* at that moment every rank of every role has its shard, and all agree
LEMMA SavedIsComplete ==
  ASSUME TypeInv, RanksAgree, SaveProgress, save_pc = "close_tracker"
  PROVE  Complete(save_step)
<1>1. \A role \in Roles : Registered(role)
  BY DEF Registered, AfterRoles
<1>2. \A role \in Roles, r \in Ranks : shards[save_step][role][r] = Written(weights[role][r])
  BY <1>1 DEF SaveProgress
<1>3. \A role \in Roles, r, s \in Ranks : shards[save_step][role][r] = shards[save_step][role][s]
  BY <1>2 DEF RanksAgree
<1>4. \A role \in Roles, r \in Ranks : IsWritten(shards[save_step][role][r])
  <2>1. \A content : IsWritten(Written(content))
    BY DEF IsWritten, Written
  <2> QED
    BY <1>2, <2>1
<1>5. IsWritten(data[save_step])
  BY DEF SaveProgress
<1> QED
  BY <1>3, <1>4, <1>5 DEF Complete

-----------------------------------------------------------------------------
(* What the tracker names stays whole.                                     *)

LEMMA TrackedIsStep ==
  ASSUME TypeInv, IsWritten(tracker)
  PROVE  /\ TrackedStep \in Steps /\ TrackedStep \in Nat
         /\ tracker = Written(TrackedStep)
  BY CheckpointAssumption DEF TypeInv, Files, IsWritten, Missing, Torn, Written, TrackedStep

\* a step that touches neither the tracked folder nor the lists
LEMMA TrackedFrame ==
  ASSUME TrackedSafe, IsWritten(tracker), UNCHANGED << tracker, max_ckpt_to_keep >>,
         shards'[TrackedStep] = shards[TrackedStep], data'[TrackedStep] = data[TrackedStep],
         UNCHANGED previous_saved_paths,
         \A role \in Roles : Registered(role) => Registered(role)',
         pc' \notin {"load", "failed"} => TrackedStep <= global_steps',
         pc' \in BeforeSave \cup {"saving"} => TrackedStep < global_steps'
  PROVE  TrackedSafe'
  BY DEF TrackedSafe, TrackedStep, Gone, Whole, BeforeSave

LEMMA TrackedSaving ==
  ASSUME TypeInv, SavesThisStep, RanksAgree, SaveProgress, PathsIncrease, TrackedSafe, Saving
  PROVE  TrackedSafe'
<1>1. /\ pc = "saving" /\ save_pc # "idle" /\ save_step \in Steps /\ save_step = global_steps
      /\ SavingRole \in Roles /\ pc' = IF save_pc' = "idle" THEN "sync" ELSE "saving"
      /\ UNCHANGED << max_ckpt_to_keep, global_steps, save_step >>
      /\ save_step \in Nat
  BY SaveFrame, CheckpointAssumption
<1>2. /\ shards \in [Steps -> [Roles -> [Ranks -> Files(Contents)]]]
      /\ data \in [Steps -> Files(Nat)]
  BY DEF TypeInv
<1>3. CASE CloseTracker
  <2>1. /\ save_pc = "close_tracker" /\ save_pc' = "idle" /\ pc' = "sync"
        /\ tracker' = Written(save_step)
        /\ UNCHANGED << shards, data, previous_saved_paths >>
    BY <1>1, <1>3 DEF CloseTracker
  <2>2. Complete(save_step) /\ \A role \in Roles : EndsWith(previous_saved_paths[role], save_step)
    BY <2>1, SavedIsComplete DEF PathsIncrease, Registered, AfterRoles
  <2>3. TrackedStep' = save_step
    BY <2>1 DEF TrackedStep, Written
  <2>4. /\ IsWritten(data'[save_step])
        /\ \A role \in Roles : Whole(save_step, role)'
    BY <2>1, <2>2, <1>1 DEF Complete, Whole
  <2> QED
    BY <1>1, <2>1, <2>2, <2>3, <2>4 DEF TrackedSafe, BeforeSave
<1>4. CASE OpenTracker
  BY <1>4 DEF OpenTracker, TrackedSafe, IsWritten, Torn
<1>5. CASE ~CloseTracker /\ ~OpenTracker /\ ~IsWritten(tracker)
  <2>1. UNCHANGED tracker
    BY <1>5 DEF Saving, SaveStep, ensure_checkpoint_capacity, OpenShard, CloseShard,
                register_checkpoint, OpenData, CloseData
  <2> QED
    BY <1>5, <2>1 DEF TrackedSafe
<1>6. CASE ~CloseTracker /\ ~OpenTracker /\ IsWritten(tracker)
  <2> DEFINE t == TrackedStep
  <2>1. UNCHANGED tracker /\ save_pc' # "idle" /\ pc' = "saving"
    BY <1>1, <1>6 DEF Saving, SaveStep, ensure_checkpoint_capacity, OpenShard, CloseShard,
                      register_checkpoint, OpenData, CloseData, NextRole
  <2>2. /\ t \in Steps /\ t \in Nat /\ t < save_step /\ t # save_step /\ TrackedStep' = t
    BY <1>1, <1>6, <2>1, TrackedIsStep DEF TrackedSafe, TrackedStep
  <2>3. /\ IsWritten(data[t])
        /\ \A role \in Roles :
             /\ Gone(t, role) \/ Whole(t, role)
             /\ max_ckpt_to_keep # 1 => Whole(t, role)
             /\ ~Registered(role) => EndsWith(previous_saved_paths[role], t)
    BY <1>6 DEF TrackedSafe
  <2> HIDE DEF t
  <2>4. SUFFICES /\ data'[t] = data[t]
                 /\ \A role \in Roles :
                      /\ \/ shards'[t][role] = shards[t][role]
                         \/ max_ckpt_to_keep = 1 /\ shards'[t][role] = [r \in Ranks |-> Missing]
                      /\ ~Registered(role)' => EndsWith(previous_saved_paths'[role], t)
    <3>1. ASSUME NEW role \in Roles, shards'[t][role] = shards[t][role]
          PROVE  (Gone(t, role)' <=> Gone(t, role)) /\ (Whole(t, role)' <=> Whole(t, role))
      BY <2>2, <3>1 DEF Gone, Whole, t
    <3>2. ASSUME NEW role \in Roles, shards'[t][role] = [r \in Ranks |-> Missing]
          PROVE  Gone(t, role)'
      BY <2>2, <3>2 DEF Gone, t
    <3> QED
      BY <1>1, <2>1, <2>2, <2>3, <2>4, <3>1, <3>2 DEF TrackedSafe, BeforeSave, t
  <2>5. CASE ensure_checkpoint_capacity
    <3>1. /\ ~Registered(SavingRole) /\ UNCHANGED data
          /\ \A role \in Roles : Registered(role)' <=> Registered(role)
      BY <2>5, NotYetRegistered, EnsureRegistration DEF ensure_checkpoint_capacity
    <3>2. /\ shards'[t][SavingRole] = shards[t][SavingRole]
          /\ EndsWith(previous_saved_paths'[SavingRole], t)
      <4>1. EndsWith(previous_saved_paths[SavingRole], t)
        BY <1>1, <2>3, <3>1
      <4> QED
        BY <2>2, <2>5, <4>1, EnsureEffect
    <3>3. ASSUME NEW role \in Roles, role # SavingRole
          PROVE  /\ shards'[t][role] = shards[t][role]
                 /\ previous_saved_paths'[role] = previous_saved_paths[role]
      BY <2>2, <2>5, <3>3, EnsureEffect
    <3> QED
      BY <2>3, <3>1, <3>2, <3>3
  <2>6. CASE register_checkpoint
    <3>1. /\ ~Registered(SavingRole) /\ UNCHANGED data
          /\ \A role \in Roles : Registered(role)' <=> Registered(role) \/ role = SavingRole
      BY <2>6, NotYetRegistered, RegisteredByRegister DEF register_checkpoint
    <3>2. \/ shards'[t][SavingRole] = shards[t][SavingRole]
          \/ max_ckpt_to_keep = 1 /\ shards'[t][SavingRole] = [r \in Ranks |-> Missing]
      <4>1. EndsWith(previous_saved_paths[SavingRole], t)
        BY <1>1, <2>3, <3>1
      <4> QED
        BY <2>2, <2>6, <4>1, RegisterEffect
    <3>3. ASSUME NEW role \in Roles, role # SavingRole
          PROVE  /\ shards'[t][role] = shards[t][role]
                 /\ previous_saved_paths'[role] = previous_saved_paths[role]
      BY <2>2, <2>6, <3>3, RegisterEffect
    <3> QED
      BY <2>3, <3>1, <3>2, <3>3
  <2>7. CASE \/ \E r \in Ranks : OpenShard(r) \/ CloseShard(r)
             \/ OpenData \/ CloseData
    <3>1. shards'[t] = shards[t] /\ data'[t] = data[t] /\ UNCHANGED previous_saved_paths
      BY <1>1, <1>2, <2>2, <2>7 DEF OpenShard, CloseShard, OpenData, CloseData
    <3>2. ~ensure_checkpoint_capacity /\ ~register_checkpoint
      <4>1. CASE OpenData \/ CloseData
        BY <4>1 DEF OpenData, CloseData, ensure_checkpoint_capacity, register_checkpoint
      <4>2. CASE \E r \in Ranks : OpenShard(r) \/ CloseShard(r)
        <5>1. PICK r \in Ranks : OpenShard(r) \/ CloseShard(r)
          BY <4>2
        <5>2. save_pc = "write" /\ save_pc' = "write"
          BY <5>1 DEF OpenShard, CloseShard
        <5> QED
          BY <5>2 DEF ensure_checkpoint_capacity, register_checkpoint, NextRole
      <4> QED
        BY <2>7, <4>1, <4>2
    <3>3. \A role \in Roles : Registered(role)' <=> Registered(role)
      BY <2>1, <3>2, OtherSaveStep
    <3> QED
      BY <2>3, <3>1, <3>3
  <2> QED
    BY <1>6, <2>5, <2>6, <2>7 DEF Saving, SaveStep
<1> QED
  BY <1>3, <1>4, <1>5, <1>6

LEMMA TrackedSafeStep ==
  ASSUME TypeInv, SavesThisStep, RanksAgree, SaveProgress, PathsIncrease, TrackedSafe, [Next]_vars
  PROVE  TrackedSafe'
<1>1. CASE Saving
  BY <1>1, TrackedSaving
<1>2. CASE ~IsWritten(tracker) /\ ~Saving
  <2>1. UNCHANGED tracker
    BY <1>2, QuietFrame
    DEF Next, DriverStep, Quiet, checkpointVars, diskVars, ResumeFromCheckpoint, LoadTracked, Generate,
        UpdateModels, _save_checkpoint, StartSave, Restart, LoseMemory, vars
  <2> QED
    BY <1>2, <2>1 DEF TrackedSafe
<1>3. CASE IsWritten(tracker) /\ Quiet
  <2>1. UNCHANGED << diskVars, previous_saved_paths, max_ckpt_to_keep, save_pc, save_role >>
    BY <1>3, QuietFrame DEF checkpointVars, saveVars
  <2>2. TrackedStep \in Nat /\ global_steps \in Nat
    BY <1>3, TrackedIsStep DEF TypeInv
  <2>3. ~StartFromScratch
    BY <1>3 DEF StartFromScratch, NoTracker, IsWritten, Missing
  <2>4. /\ pc' \notin {"load", "failed"} => TrackedStep <= global_steps'
        /\ pc' \in BeforeSave \cup {"saving"} => TrackedStep < global_steps'
    <3>1. CASE ResumeFails
      BY <3>1 DEF ResumeFails, Goto, BeforeSave
    <3>2. CASE ~ResumeFails
      BY <1>3, <2>2, <2>3, <3>2, QuietMoves DEF TrackedSafe, BeforeSave
    <3> QED
      BY <3>1, <3>2
  <2> QED
    BY <1>3, <2>1, <2>4, TrackedFrame DEF diskVars, Registered
<1>4. CASE IsWritten(tracker) /\ (ResumeFromCheckpoint \/ Generate \/ UpdateModels)
  <2>1. UNCHANGED << diskVars, previous_saved_paths, max_ckpt_to_keep, save_pc, save_role >>
    BY <1>4, TrainingMoves DEF saveVars
  <2>2. TrackedStep \in Nat /\ global_steps \in Nat
    BY <1>4, TrackedIsStep DEF TypeInv
  <2>3. /\ pc' \notin {"load", "failed"} => TrackedStep <= global_steps'
        /\ pc' \in BeforeSave \cup {"saving"} => TrackedStep < global_steps'
    <3>1. CASE ResumeFromCheckpoint
      BY <2>2, <3>1 DEF ResumeFromCheckpoint, Goto, BeforeSave
    <3>2. CASE Generate \/ UpdateModels
      BY <1>4, <3>2 DEF Generate, UpdateModels, At, Goto, TrackedSafe, BeforeSave
    <3> QED
      BY <1>4, <3>1, <3>2
  <2> QED
    BY <1>4, <2>1, <2>3, TrackedFrame DEF diskVars, Registered
<1>5. CASE IsWritten(tracker) /\ _save_checkpoint
  <2>1. \A role \in Roles : ~Registered(role)
    BY <1>5, IdleRegistersNothing DEF _save_checkpoint, At, SavesThisStep
  <2>2. /\ pc = "save" /\ pc' \in {"saving", "sync"}
        /\ UNCHANGED << diskVars, previous_saved_paths, max_ckpt_to_keep, global_steps >>
    BY <1>5, StartSaveMoves
  <2>3. TrackedStep < global_steps /\ TrackedStep <= global_steps
    BY <1>5, <2>2 DEF TrackedSafe, BeforeSave
  <2> QED
    BY <1>5, <2>1, <2>2, <2>3, TrackedFrame DEF diskVars
<1>6. CASE IsWritten(tracker) /\ Restart
  <2>1. /\ pc' = "load" /\ UNCHANGED << diskVars, max_ckpt_to_keep >>
        /\ \A role \in Roles : previous_saved_paths'[role] = << >>
    BY <1>6 DEF Restart, LoseMemory
  <2> QED
    BY <1>6, <2>1 DEF TrackedSafe, TrackedStep, diskVars, Gone, Whole, EndsWith, BeforeSave
<1>7. CASE IsWritten(tracker) /\ UNCHANGED vars
  BY <1>7 DEF vars, checkpointVars, diskVars, saveVars, driverVars, TrackedSafe, TrackedStep, Gone,
              Whole, Registered, AfterRoles
<1> QED
  BY <1>1, <1>2, <1>3, <1>4, <1>5, <1>6, <1>7 DEF Next, DriverStep, Quiet

\* a job fails to resume only if the tracker is torn or only one checkpoint is kept
LEMMA FailedJobStep ==
  ASSUME TypeInv, SavesThisStep, TrackedSafe, FailedJob, [Next]_vars
  PROVE  FailedJob'
<1>1. CASE ResumeFails
  <2>1. UNCHANGED << tracker, max_ckpt_to_keep >> /\ tracker # Missing /\ ~CanLoad
    BY <1>1 DEF ResumeFails, NoTracker, checkpointVars, diskVars
  <2>2. ASSUME tracker # Torn, max_ckpt_to_keep # 1
        PROVE  FALSE
    <3>1. IsWritten(tracker)
      BY <2>1, <2>2 DEF TypeInv, Files, IsWritten, Written
    <3>2. IsWritten(data[TrackedStep]) /\ \A role \in Roles : Whole(TrackedStep, role)
      BY <2>2, <3>1 DEF TrackedSafe
    <3> QED
      BY <2>1, <3>1, <3>2 DEF CanLoad, Whole, IsWritten, Torn
  <2> QED
    BY <2>1, <2>2 DEF FailedJob
<1>2. CASE Quiet /\ ~ResumeFails
  BY <1>2, QuietMoves DEF FailedJob
<1>3. CASE Saving \/ ResumeFromCheckpoint \/ Generate \/ UpdateModels \/ _save_checkpoint \/ Restart
  <2>1. pc' # "failed"
    BY <1>3, SaveFrame, TrainingMoves, StartSaveMoves DEF Restart
  <2> QED
    BY <2>1 DEF FailedJob
<1>4. CASE UNCHANGED vars
  BY <1>4 DEF vars, checkpointVars, diskVars, driverVars, FailedJob
<1> QED
  BY <1>1, <1>2, <1>3, <1>4 DEF Next, DriverStep, Quiet

-----------------------------------------------------------------------------
(* The inductive invariant and the theorems.                               *)

LEMMA IInvInit == Init => IInv
<1> SUFFICES ASSUME Init PROVE IInv
  OBVIOUS
<1>1. TypeInv
  BY TypeInit
<1>2. SavesThisStep /\ RanksAgree /\ FailedJob
  BY DEF Init, CheckpointInit, SavesThisStep, RanksAgree, FailedJob
<1>3. SaveProgress /\ PathsIncrease /\ TrackedSafe
  BY IdleRegistersNothing
  DEF Init, CheckpointInit, SaveProgress, PathsIncrease, TrackedSafe, Increasing, AllBelow, IsWritten,
      Missing, BeforeSave
<1> QED
  BY <1>1, <1>2, <1>3 DEF IInv

LEMMA IInvStep == IInv /\ [Next]_vars => IInv'
  BY TypeStep, SavesThisStepStep, RanksAgreeStep, SaveProgressStep, PathsStep, TrackedSafeStep,
     FailedJobStep
  DEF IInv

LEMMA IInvAlways == Spec => []IInv
  BY IInvInit, IInvStep, PTL DEF Spec

(* Every variable of the checkpoints and of the driver keeps its type, for *)
(* every configuration.                                                    *)
THEOREM TypeCorrect == Spec => []TypeOK
<1>1. IInv => TypeOK
  <2> SUFFICES ASSUME TypeInv PROVE TypeOK
    BY DEF IInv
  <2>1. tracker \in {Missing, Torn} \cup { Written(n) : n \in Steps }
    BY DEF TypeInv, Files
  <2>2. ASSUME NEW n \in Steps
        PROVE  data[n] \in {Missing, Torn} \/ data[n] = Written(data[n].content)
    BY DEF TypeInv, Files, Written
  <2> QED
    BY <2>1, <2>2 DEF TypeInv, TypeOK, SavePcs
<1> QED
  BY <1>1, IInvAlways, PTL

(* For every limit, any number of ranks and crashes at any point: between  *)
(* saves and during them, the tracker names a checkpoint that can be       *)
(* resumed from if more than one is kept, and a job that cannot be resumed *)
(* was stopped inside the write of the tracker or keeps only one.          *)
THEOREM TrackedResumable == Spec => []TrackedCheckpointResumable
<1>1. IInv => TrackedCheckpointResumable
  <2> SUFFICES ASSUME IInv PROVE TrackedCheckpointResumable
    OBVIOUS
  <2>1. ASSUME IsWritten(tracker), max_ckpt_to_keep # 1
        PROVE  Complete(TrackedStep)
    BY <2>1 DEF IInv, TrackedSafe, Complete, Whole
  <2> QED
    BY <2>1 DEF TrackedCheckpointResumable, IInv, FailedJob, At
<1> QED
  BY <1>1, IInvAlways, PTL

(* The tracker moves only to a checkpoint whose shards, of all roles and   *)
(* ranks, and whose dataloader state are whole and of one step.            *)
THEOREM TrackerSound == Spec => TrackerMovesToComplete
<1> DEFINE Moves == tracker' # tracker /\ IsWritten(tracker') => Complete(tracker'.content)
<1>1. ASSUME IInv, Next, tracker' # tracker, IsWritten(tracker')
      PROVE  Complete(tracker'.content)
  <2>1. Saving
    BY <1>1, QuietFrame
    DEF IInv, Next, DriverStep, Quiet, checkpointVars, diskVars, ResumeFromCheckpoint, LoadTracked,
        Generate, UpdateModels, _save_checkpoint, StartSave, Restart, LoseMemory
  <2>2. CloseTracker
    BY <1>1, <2>1
    DEF Saving, SaveStep, ensure_checkpoint_capacity, OpenShard, CloseShard, register_checkpoint,
        OpenData, CloseData, OpenTracker, IsWritten, Torn
  <2>3. Complete(save_step) /\ tracker' = Written(save_step)
    BY <1>1, <2>2, SavedIsComplete DEF IInv, CloseTracker
  <2> QED
    BY <2>3 DEF Written
<1>2. IInv /\ [Next]_vars => [Moves]_vars
  BY <1>1
<1> QED
  BY <1>2, IInvAlways, PTL DEF Spec, TrackerMovesToComplete

-----------------------------------------------------------------------------
(* Retention: what this life of the job has on the disk is in its list, or *)
(* is being written.                                                       *)

Listed(paths) == { paths[i] : i \in 1..Len(paths) }
BeingWritten(role) == IF save_pc = "write" /\ SavingRole = role THEN {save_step} ELSE {}

\* room is made before the shards are written, if more than one is kept
RoleRetained(role) ==
  LET paths == previous_saved_paths[role]
  IN  /\ OnDisk(role) \ inherited \subseteq Listed(paths) \cup BeingWritten(role)
      /\ Len(paths) <= max_ckpt_to_keep
      /\ max_ckpt_to_keep > 1 /\ BeingWritten(role) # {} => Len(paths) < max_ckpt_to_keep

Retained == max_ckpt_to_keep > 0 => \A role \in Roles : RoleRetained(role)

\* what is still on the disk after the oldest are gone is still in the list
LEMMA DropKeepsListed ==
  ASSUME TypeInv, NEW role \in Roles, NEW paths \in Seq(Steps), NEW keep \in Nat,
         DropOldest(role, paths, keep), UNCHANGED inherited,
         OnDisk(role) \ inherited \subseteq Listed(paths)
  PROVE  /\ OnDisk(role)' \ inherited' \subseteq Listed(previous_saved_paths'[role])
         /\ Len(previous_saved_paths'[role]) <= keep
<1> DEFINE kept == previous_saved_paths'[role]
           excess == Excess(paths, keep)
<1>1. /\ Len(kept) = Len(paths) - excess
      /\ \A i \in 1..Len(kept) : kept[i] = paths[i + excess]
      /\ \A n \in Steps :
           shards'[n][role] = shards[n][role] \/ shards'[n][role] = [r \in Ranks |-> Missing]
      /\ \A n \in Steps : (\E i \in 1..excess : paths[i] = n) =>
           shards'[n][role] = [r \in Ranks |-> Missing]
  <2>1. \A n \in Steps :
          \/ shards'[n][role] = shards[n][role]
          \/ /\ \E i \in 1..excess : paths[i] = n
             /\ shards'[n][role] = [r \in Ranks |-> Missing]
    BY DropOldestEffect
  <2>2. /\ Len(kept) = Len(paths) - excess
        /\ \A i \in 1..Len(kept) : kept[i] = paths[i + excess]
        /\ \A n \in Steps : (\E i \in 1..excess : paths[i] = n) =>
             shards'[n][role] = [r \in Ranks |-> Missing]
    BY DropOldestEffect
  <2> QED
    BY <2>1, <2>2
<1>2. /\ Len(paths) \in Nat /\ excess \in Nat /\ excess <= Len(paths)
      /\ Len(paths) - excess <= keep
  BY DEF Excess
<1> HIDE DEF kept, excess
<1>3. ASSUME NEW n \in OnDisk(role)' \ inherited'
      PROVE  n \in Listed(kept)
  <2>1. PICK r \in Ranks : n \in Steps /\ shards'[n][role][r] # Missing
    BY DEF OnDisk
  <2>2. /\ shards'[n][role] = shards[n][role]
        /\ ~ \E i \in 1..excess : paths[i] = n
    BY <1>1, <2>1
  <2>3. n \in OnDisk(role) \ inherited
    BY <2>1, <2>2 DEF OnDisk
  <2>4. PICK i \in 1..Len(paths) : paths[i] = n
    BY <2>3 DEF Listed
  <2>5. i - excess \in 1..Len(kept) /\ (i - excess) + excess = i
    BY <1>1, <1>2, <2>2, <2>4
  <2> QED
    BY <1>1, <2>4, <2>5 DEF Listed
<1> QED
  BY <1>1, <1>2, <1>3 DEF kept

\* a role whose folders and list a step leaves alone
LEMMA RetainedFrame ==
  ASSUME NEW role \in Roles, RoleRetained(role), UNCHANGED << inherited, max_ckpt_to_keep >>,
         previous_saved_paths'[role] = previous_saved_paths[role],
         \A n \in Steps : shards'[n][role] = shards[n][role],
         BeingWritten(role)' = BeingWritten(role)
  PROVE  RoleRetained(role)'
<1>1. OnDisk(role)' = OnDisk(role)
  BY DEF OnDisk
<1> QED
  BY <1>1 DEF RoleRetained

\* the name of the role being saved decides which of the two is meant
LEMMA WrittenBySaving ==
  /\ \A role : save_pc # "write" => BeingWritten(role) = {}
  /\ \A role : save_pc' # "write" => BeingWritten(role)' = {}
  /\ \A role : role # SavingRole => BeingWritten(role) = {}
  /\ save_pc = "write" => BeingWritten(SavingRole) = {save_step}
  BY DEF BeingWritten

LEMMA RetainedSaving ==
  ASSUME TypeInv, SavesThisStep, Retained, max_ckpt_to_keep > 0, Saving
  PROVE  \A role \in Roles : RoleRetained(role)'
<1>0. PICK role_saved \in Roles : role_saved = SavingRole
  BY SavingRoleIsRole
<1> DEFINE paths == previous_saved_paths[role_saved]
<1>1. /\ SavingRole \in Roles /\ save_step \in Steps /\ paths \in Seq(Steps)
      /\ max_ckpt_to_keep \in Nat /\ UNCHANGED << max_ckpt_to_keep, save_step, inherited >>
      /\ \A role \in Roles : RoleRetained(role)
      /\ Len(paths) \in Nat
  BY SaveFrame, PPOTrainerAssumption DEF TypeInv, Saving, jobVars, Retained
<1>2. /\ shards \in [Steps -> [Roles -> [Ranks -> Files(Contents)]]]
      /\ previous_saved_paths \in [Roles -> Seq(Steps)]
  BY DEF TypeInv
<1>3. CASE ensure_checkpoint_capacity
  <2>1. /\ save_pc = "ensure" /\ save_pc' = "write" /\ UNCHANGED save_role
    BY <1>3 DEF ensure_checkpoint_capacity
  <2>2. SavingRole' = SavingRole /\ \A role : role # role_saved => BeingWritten(role)' = {}
    BY <1>0, <2>1 DEF SavingRole, BeingWritten
  <2>3. CASE max_ckpt_to_keep > 1
    <3>1. DropOldest(role_saved, paths, max_ckpt_to_keep - 1) /\ max_ckpt_to_keep - 1 \in Nat
      BY <1>0, <1>1, <1>3, <2>3 DEF ensure_checkpoint_capacity
    <3>2. OnDisk(role_saved) \ inherited \subseteq Listed(paths)
      BY <1>0, <1>1, <2>1, WrittenBySaving DEF RoleRetained
    <3>3. /\ OnDisk(role_saved)' \ inherited' \subseteq Listed(previous_saved_paths'[role_saved])
          /\ Len(previous_saved_paths'[role_saved]) <= max_ckpt_to_keep - 1
      BY <1>0, <1>1, <3>1, <3>2, DropKeepsListed
    <3>4. Len(previous_saved_paths'[role_saved]) \in Nat
      BY <1>0, <1>1, <3>1, DropOldestEffect
    <3>5. RoleRetained(role_saved)'
      <4>1. /\ Len(previous_saved_paths'[role_saved]) <= max_ckpt_to_keep
            /\ Len(previous_saved_paths'[role_saved]) < max_ckpt_to_keep
        BY <1>0, <1>1, <3>3, <3>4
      <4> QED
        BY <1>0, <1>1, <2>2, <3>3, <4>1 DEF RoleRetained
    <3>6. ASSUME NEW role \in Roles, role # role_saved
          PROVE  RoleRetained(role)'
      <4>1. /\ previous_saved_paths'[role] = previous_saved_paths[role]
            /\ \A n \in Steps : shards'[n][role] = shards[n][role]
        BY <1>0, <1>1, <3>1, <3>6, DropOldestEffect
      <4>2. BeingWritten(role)' = BeingWritten(role)
        BY <1>0, <2>2, <3>6, WrittenBySaving
      <4>3. RoleRetained(role) /\ UNCHANGED << inherited, max_ckpt_to_keep >>
        BY <1>1
      <4> QED
        BY <4>1, <4>2, <4>3, RetainedFrame
    <3> QED
      BY <3>5, <3>6
  <2>4. CASE ~(max_ckpt_to_keep > 1)
    <3>1. UNCHANGED << shards, previous_saved_paths >>
      BY <1>3, <2>4 DEF ensure_checkpoint_capacity
    <3>2. ASSUME NEW role \in Roles
          PROVE  OnDisk(role)' = OnDisk(role) /\ BeingWritten(role) = {}
      BY <2>1, <3>1, WrittenBySaving DEF OnDisk
    <3> QED
      BY <1>0, <1>1, <2>4, <3>1, <3>2 DEF RoleRetained
  <2> QED
    BY <2>3, <2>4
<1>4. CASE \E r \in Ranks : OpenShard(r) \/ CloseShard(r)
  <2>1. /\ save_pc = "write" /\ UNCHANGED << save_pc, save_role, previous_saved_paths >>
        /\ \A n \in Steps : n # save_step => shards'[n] = shards[n]
        /\ \A role \in Roles : role # role_saved =>
             \A n \in Steps : shards'[n][role] = shards[n][role]
    <3>1. PICK r \in Ranks : \E file :
            /\ save_pc = "write" /\ UNCHANGED << save_pc, save_role, previous_saved_paths >>
            /\ shards' = [shards EXCEPT ![save_step][role_saved][r] = file]
      BY <1>0, <1>4 DEF OpenShard, CloseShard
    <3> QED
      BY <1>1, <1>2, <3>1
  <2>2. \A role : BeingWritten(role)' = BeingWritten(role)
    BY <1>0, <1>1, <2>1 DEF BeingWritten, SavingRole
  <2>3. OnDisk(role_saved)' \subseteq OnDisk(role_saved) \cup {save_step}
    <3>1. ASSUME NEW n \in OnDisk(role_saved)', n # save_step
          PROVE  n \in OnDisk(role_saved)
      BY <2>1, <3>1 DEF OnDisk, SavingRole
    <3> QED
      BY <3>1
  <2>4. RoleRetained(role_saved)'
    <3>1. SavingRole' = SavingRole
      BY <2>1 DEF SavingRole
    <3>2. BeingWritten(role_saved) = {save_step}
      BY <1>0, <2>1, WrittenBySaving
    <3> QED
      BY <1>0, <1>1, <2>1, <2>2, <2>3, <3>1, <3>2 DEF RoleRetained
  <2>5. ASSUME NEW role \in Roles, role # role_saved
        PROVE  RoleRetained(role)'
    BY <1>0, <1>1, <2>1, <2>2, <2>5, RetainedFrame
  <2> QED
    BY <2>4, <2>5
<1>5. CASE register_checkpoint
  <2> DEFINE longer == Append(paths, save_step)
  <2>1. /\ save_pc = "write" /\ save_pc' # "write"
        /\ DropOldest(role_saved, longer, max_ckpt_to_keep)
    BY <1>0, <1>5 DEF register_checkpoint, NextRole
  <2>2. /\ longer \in Seq(Steps) /\ Len(longer) = Len(paths) + 1
        /\ longer[Len(paths) + 1] = save_step
        /\ \A i \in 1..Len(paths) : longer[i] = paths[i]
    BY <1>0, <1>1
  <2>3. Listed(paths) \cup {save_step} \subseteq Listed(longer)
    <3> HIDE DEF longer, paths
    <3> QED
      BY <1>0, <1>1, <2>2 DEF Listed
  <2> HIDE DEF longer
  <2>4. OnDisk(role_saved) \ inherited \subseteq Listed(longer)
    BY <1>0, <1>1, <2>1, <2>3, WrittenBySaving DEF RoleRetained
  <2>5. /\ OnDisk(role_saved)' \ inherited' \subseteq Listed(previous_saved_paths'[role_saved])
        /\ Len(previous_saved_paths'[role_saved]) <= max_ckpt_to_keep
    BY <1>0, <1>1, <2>1, <2>2, <2>4, DropKeepsListed
  <2>6. \A role : BeingWritten(role)' = {}
    BY <1>0, <2>1, WrittenBySaving
  <2>7. ASSUME NEW role \in Roles, role # role_saved
        PROVE  RoleRetained(role)'
    <3>1. /\ previous_saved_paths'[role] = previous_saved_paths[role]
          /\ \A n \in Steps : shards'[n][role] = shards[n][role]
      BY <1>0, <1>1, <2>1, <2>2, <2>7, DropOldestEffect
    <3> QED
      BY <1>0, <1>1, <2>6, <2>7, <3>1, RetainedFrame, WrittenBySaving
  <2>8. ASSUME NEW role \in Roles, role = role_saved
        PROVE  RoleRetained(role)'
    BY <1>0, <1>1, <2>5, <2>6, <2>8 DEF RoleRetained
  <2> QED
    BY <2>7, <2>8
<1>6. CASE OpenData \/ CloseData \/ OpenTracker \/ CloseTracker
  <2>1. /\ UNCHANGED << shards, previous_saved_paths >> /\ save_pc # "write" /\ save_pc' # "write"
    BY <1>6 DEF OpenData, CloseData, OpenTracker, CloseTracker
  <2>2. \A role : BeingWritten(role) = {} /\ BeingWritten(role)' = {}
    BY <1>0, <2>1, WrittenBySaving
  <2> QED
    BY <1>0, <1>1, <2>1, <2>2, RetainedFrame
<1> QED
  BY <1>3, <1>4, <1>5, <1>6 DEF Saving, SaveStep

LEMMA RetainedStep ==
  ASSUME TypeInv, SavesThisStep, Retained, [Next]_vars
  PROVE  Retained'
<1> SUFFICES ASSUME max_ckpt_to_keep' > 0
             PROVE  \A role \in Roles : RoleRetained(role)'
  BY DEF Retained
<1>1. UNCHANGED max_ckpt_to_keep /\ max_ckpt_to_keep \in Nat
  BY QuietFrame, SaveFrame, TrainingMoves, StartSaveMoves, PPOTrainerAssumption
  DEF Next, DriverStep, Quiet, checkpointVars, Restart, LoseMemory, TypeInv, vars
<1>2. \A role \in Roles : RoleRetained(role)
  BY <1>1 DEF Retained
<1>3. CASE Saving
  BY <1>1, <1>3, RetainedSaving
<1>4. CASE Quiet \/ ResumeFromCheckpoint \/ Generate \/ UpdateModels \/ UNCHANGED vars
  <2>1. UNCHANGED << shards, previous_saved_paths, save_pc, save_role, save_step, inherited >>
    BY <1>4, QuietFrame, TrainingMoves
    DEF checkpointVars, diskVars, saveVars, jobVars, vars, ResumeFromCheckpoint, Generate,
        UpdateModels
  <2>2. \A role : BeingWritten(role)' = BeingWritten(role)
    BY <2>1 DEF BeingWritten, SavingRole
  <2> QED
    BY <1>1, <1>2, <2>1, <2>2, RetainedFrame
<1>5. CASE _save_checkpoint
  <2>1. /\ UNCHANGED << shards, previous_saved_paths, inherited >>
        /\ save_pc = "idle" /\ save_pc' # "write"
    BY <1>5, StartSaveMoves DEF diskVars, jobVars, _save_checkpoint, SavesThisStep, At
  <2>2. \A role : BeingWritten(role)' = BeingWritten(role)
    BY <2>1, WrittenBySaving
  <2> QED
    BY <1>1, <1>2, <2>1, <2>2, RetainedFrame
<1>6. CASE Restart
  <2>1. /\ save_pc' # "write" /\ \A role \in Roles : previous_saved_paths'[role] = << >>
        /\ UNCHANGED shards /\ inherited' = UNION { OnDisk(role) : role \in Roles }
    BY <1>6 DEF Restart, LoseMemory, diskVars
  <2>2. \A role \in Roles : OnDisk(role)' \subseteq inherited'
    BY <2>1 DEF OnDisk
  <2>3. \A role : BeingWritten(role)' = {}
    BY <2>1, WrittenBySaving
  <2> QED
    BY <1>1, <2>1, <2>2, <2>3 DEF RoleRetained
<1> QED
  BY <1>3, <1>4, <1>5, <1>6 DEF Next, DriverStep, Quiet

LEMMA ListedCardinality ==
  ASSUME NEW paths \in Seq(Steps)
  PROVE  IsFiniteSet(Listed(paths)) /\ Cardinality(Listed(paths)) <= Len(paths)
<1>1. Len(paths) \in Nat /\ IsFiniteSet(1..Len(paths)) /\ Cardinality(1..Len(paths)) = Len(paths)
  <2>1. Len(paths) \in Nat
    OBVIOUS
  <2>2. IsFiniteSet(1..Len(paths)) /\ Cardinality(1..Len(paths)) = IF 1 > Len(paths) THEN 0 ELSE Len(paths) - 1 + 1
    BY <2>1, FS_Interval
  <2> QED
    BY <2>1, <2>2
<1> DEFINE at == [i \in 1..Len(paths) |-> paths[i]]
<1>2. at \in Surjection(1..Len(paths), Listed(paths))
  BY DEF Surjection, Listed
<1> QED
  BY <1>1, <1>2, FS_Surjection

(* For every limit and any number of crashes: the folders of a role that   *)
(* this life of the job has written never exceed max_ckpt_to_keep, with    *)
(* one more during a save when the limit is one.                           *)
THEOREM RetentionCorrect == Spec => []RetentionBound
<1>1. Init => Retained
  <2> SUFFICES ASSUME Init, max_ckpt_to_keep > 0, NEW role \in Roles
               PROVE  RoleRetained(role)
    BY DEF Retained
  <2>1. /\ OnDisk(role) = {} /\ Len(previous_saved_paths[role]) = 0 /\ BeingWritten(role) = {}
    BY DEF Init, CheckpointInit, OnDisk, BeingWritten
  <2>2. 0 <= max_ckpt_to_keep
    BY PPOTrainerAssumption DEF Init
  <2> QED
    BY <2>1, <2>2 DEF RoleRetained
<1>2. IInv /\ Retained /\ [Next]_vars => Retained'
  BY RetainedStep DEF IInv
<1>3. IInv /\ Retained => RetentionBound
  <2> SUFFICES ASSUME TypeInv, SavesThisStep, Retained, max_ckpt_to_keep > 0, NEW role \in Roles
               PROVE  Cardinality(OnDisk(role) \ inherited) <=
                        IF max_ckpt_to_keep = 1 /\ save_pc # "idle" THEN 2 ELSE max_ckpt_to_keep
    BY DEF IInv, RetentionBound
  <2> DEFINE paths == previous_saved_paths[role]
             own == OnDisk(role) \ inherited
  <2>1. /\ paths \in Seq(Steps) /\ max_ckpt_to_keep \in Nat /\ Len(paths) \in Nat
        /\ RoleRetained(role)
    BY PPOTrainerAssumption DEF TypeInv, Retained
  <2>2. IsFiniteSet(Listed(paths)) /\ Cardinality(Listed(paths)) <= Len(paths)
    BY <2>1, ListedCardinality
  <2>3. CASE BeingWritten(role) = {}
    <3>1. own \subseteq Listed(paths) /\ Len(paths) <= max_ckpt_to_keep
      BY <2>1, <2>3 DEF RoleRetained
    <3>2. Cardinality(own) <= Cardinality(Listed(paths)) /\ IsFiniteSet(own)
      BY <2>2, <3>1, FS_Subset
    <3>3. Cardinality(own) \in Nat /\ Cardinality(Listed(paths)) \in Nat
      BY <2>2, <3>2, FS_CardinalityType
    <3> HIDE DEF own, paths
    <3>4. Cardinality(own) <= max_ckpt_to_keep
      BY <2>1, <2>2, <3>1, <3>2, <3>3
    <3> QED
      BY <2>1, <3>3, <3>4 DEF own
  <2>4. CASE BeingWritten(role) # {}
    <3>1. BeingWritten(role) = {save_step} /\ save_pc = "write"
      BY <2>4 DEF BeingWritten
    <3>2. /\ own \subseteq Listed(paths) \cup {save_step} /\ Len(paths) <= max_ckpt_to_keep
          /\ max_ckpt_to_keep > 1 => Len(paths) < max_ckpt_to_keep
      BY <2>1, <2>4, <3>1 DEF RoleRetained
    <3>3. /\ IsFiniteSet(Listed(paths) \cup {save_step})
          /\ Cardinality(Listed(paths) \cup {save_step}) <= Cardinality(Listed(paths)) + 1
      <4>1. /\ IsFiniteSet(Listed(paths) \cup {save_step})
            /\ Cardinality(Listed(paths) \cup {save_step}) =
                 IF save_step \in Listed(paths) THEN Cardinality(Listed(paths))
                 ELSE Cardinality(Listed(paths)) + 1
        BY <2>2, FS_AddElement
      <4>2. Cardinality(Listed(paths)) \in Nat
        BY <2>2, FS_CardinalityType
      <4> QED
        BY <4>1, <4>2
    <3>4. IsFiniteSet(own) /\ Cardinality(own) <= Cardinality(Listed(paths) \cup {save_step})
      BY <3>2, <3>3, FS_Subset
    <3>5. /\ Cardinality(own) \in Nat /\ Cardinality(Listed(paths)) \in Nat
          /\ Cardinality(Listed(paths) \cup {save_step}) \in Nat
      BY <2>2, <3>3, <3>4, FS_CardinalityType
    <3> HIDE DEF own, paths
    <3>6. Cardinality(own) <= Len(paths) + 1
      BY <2>1, <2>2, <3>3, <3>4, <3>5
    <3>7. CASE max_ckpt_to_keep > 1
      BY <2>1, <3>2, <3>5, <3>6, <3>7 DEF own
    <3>8. CASE max_ckpt_to_keep = 1
      BY <2>1, <3>1, <3>2, <3>5, <3>6, <3>8 DEF own
    <3> QED
      BY <2>1, <3>7, <3>8
  <2> QED
    BY <2>3, <2>4
<1> QED
  BY <1>1, <1>2, <1>3, IInvAlways, PTL DEF Spec

=============================================================================
