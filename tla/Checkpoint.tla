----------------------------- MODULE Checkpoint -----------------------------
(***************************************************************************)
(* The checkpoints of a training job: the save sequence shared by          *)
(* RayPPOTrainer._save_checkpoint and FullyAsyncTrainer._save_checkpoint,  *)
(* FSDPCheckpointManager.save_checkpoint and load_checkpoint on the ranks  *)
(* of a worker group, the retention of BaseCheckpointManager, and the      *)
(* tracker file that names the checkpoint to resume from.                  *)
(*                                                                         *)
(* The disk outlives a crash; everything else here is in memory.  A file   *)
(* is written in place: it is Torn from its opening to its closing.  The   *)
(* three files of a rank (model, optim, extra_state) are one shard, torn   *)
(* until the last of them is closed.  What retention deletes is the folder *)
(* of one role, global_step_N/<role>; global_step_N and its data.pt stay.  *)
(***************************************************************************)
EXTENDS Integers, Sequences

CONSTANTS
  RoleOrder,      \* the saved roles: << "actor", "critic" >> or << "actor" >>
  Ranks,          \* the ranks of a worker group
  Steps           \* bound: the N of the folders global_step_N

Roles == { RoleOrder[i] : i \in DOMAIN RoleOrder }

ASSUME CheckpointAssumption ==
  /\ RoleOrder \in Seq({"actor", "critic"}) /\ RoleOrder # << >>
  /\ \A i, j \in DOMAIN RoleOrder : RoleOrder[i] = RoleOrder[j] => i = j
  /\ Steps \subseteq Nat

VARIABLES
  (* disk *)
  shards,               \* shards[step][role][rank]
  data,                 \* data[step]: the dataloader state in data.pt
  tracker,              \* latest_checkpointed_iteration.txt
  (* memory *)
  previous_saved_paths, \* previous_saved_paths[role], rank 0's list
  max_ckpt_to_keep,     \* the configured limit, 0 for None
  weights,              \* weights[role][rank]: model, optimizer, extra state
  dataloader,           \* batches the dataloader has handed out
  save_pc, save_role, save_step, rank_pc

diskVars == << shards, data, tracker >>
saveVars == << save_pc, save_role, save_step, rank_pc >>
memoryVars == << weights, dataloader >>
checkpointVars == << diskVars, previous_saved_paths, max_ckpt_to_keep, memoryVars, saveVars >>

\* a file: not there, open for writing, or whole
Missing == [file |-> "missing"]
Torn == [file |-> "torn"]
Written(content) == [file |-> "whole", content |-> content]
IsWritten(file) == file.file = "whole"

CheckpointInit ==
  /\ shards = [n \in Steps |-> [role \in Roles |-> [r \in Ranks |-> Missing]]]
  /\ data = [n \in Steps |-> Missing]
  /\ tracker = Missing
  /\ previous_saved_paths = [role \in Roles |-> << >>]
  /\ weights = [role \in Roles |-> [r \in Ranks |-> << >>]]
  /\ dataloader = 0
  /\ save_pc = "idle"
  /\ save_role = 1
  /\ save_step = 0
  /\ rank_pc = [r \in Ranks |-> "open"]

-----------------------------------------------------------------------------
(* Retention.                                                              *)

SavingRole == RoleOrder[save_role]

\* shutil.rmtree of the role's folder in each of the given steps
remove_previous_save_local_path(disk, role, steps) ==
  [n \in Steps |-> IF n \in steps
                   THEN [disk[n] EXCEPT ![role] = [r \in Ranks |-> Missing]]
                   ELSE disk[n]]

\* Variant: the newest folders go.
NewestInstead(paths, count) == { paths[i] : i \in (Len(paths) - count + 1)..Len(paths) }

Oldest(paths, count) == { paths[i] : i \in 1..count }

\* keep the last `keep` paths of the role and delete the folders of the rest
DropOldest(role, paths, keep) ==
  LET excess == Len(paths) - keep
  IN  IF excess > 0
      THEN /\ shards' = remove_previous_save_local_path(shards, role, Oldest(paths, excess))
           /\ previous_saved_paths' = [previous_saved_paths EXCEPT
                                         ![role] = SubSeq(paths, excess + 1, Len(paths))]
      ELSE /\ previous_saved_paths' = [previous_saved_paths EXCEPT ![role] = paths]
           /\ UNCHANGED shards

-----------------------------------------------------------------------------
(* The save sequence: for each role ensure, shards, register; then data.pt *)
(* and the tracker.  The driver waits for each worker group call.          *)

StartSave(step) ==
  /\ save_pc = "idle"
  /\ save_pc' = "ensure"
  /\ save_role' = 1
  /\ save_step' = step
  /\ rank_pc' = [r \in Ranks |-> "open"]

\* Variant: no room is made before the shards are written.
EnsureNothing ==
  /\ save_pc = "ensure"
  /\ save_pc' = "write"
  /\ UNCHANGED << diskVars, previous_saved_paths, max_ckpt_to_keep, memoryVars, save_role,
                  save_step, rank_pc >>

\* rank 0 makes room while the other ranks wait at the first barrier
ensure_checkpoint_capacity ==
  /\ save_pc = "ensure"
  /\ IF max_ckpt_to_keep > 1
     THEN DropOldest(SavingRole, previous_saved_paths[SavingRole], max_ckpt_to_keep - 1)
     ELSE UNCHANGED << shards, previous_saved_paths >>
  /\ save_pc' = "write"
  /\ UNCHANGED << data, tracker, max_ckpt_to_keep, memoryVars, save_role, save_step, rank_pc >>

OpenShard(r) ==
  /\ save_pc = "write"
  /\ rank_pc[r] = "open"
  /\ rank_pc' = [rank_pc EXCEPT ![r] = "close"]
  /\ shards' = [shards EXCEPT ![save_step][SavingRole][r] = Torn]
  /\ UNCHANGED << data, tracker, previous_saved_paths, max_ckpt_to_keep, memoryVars,
                  save_pc, save_role, save_step >>

CloseShard(r) ==
  /\ save_pc = "write"
  /\ rank_pc[r] = "close"
  /\ rank_pc' = [rank_pc EXCEPT ![r] = "barrier"]
  /\ shards' = [shards EXCEPT ![save_step][SavingRole][r] = Written(weights[SavingRole][r])]
  /\ UNCHANGED << data, tracker, previous_saved_paths, max_ckpt_to_keep, memoryVars,
                  save_pc, save_role, save_step >>

\* Variant: rank 0 does not wait for the others.
BarrierSkipped == \E r \in Ranks : rank_pc[r] = "barrier"

BarrierReached == \A r \in Ranks : rank_pc[r] = "barrier"

\* Variant: one role too many.
NextRoleOverrun ==
  IF save_role <= Len(RoleOrder)
  THEN save_role' = save_role + 1 /\ save_pc' = "ensure"
  ELSE save_pc' = "open_data" /\ UNCHANGED save_role

NextRole ==
  IF save_role < Len(RoleOrder)
  THEN save_role' = save_role + 1 /\ save_pc' = "ensure"
  ELSE save_pc' = "open_data" /\ UNCHANGED save_role

\* rank 0, after the barrier all ranks have reached; the driver goes on to
\* the next role or to the dataloader
register_checkpoint ==
  /\ save_pc = "write"
  /\ BarrierReached
  /\ LET paths == Append(previous_saved_paths[SavingRole], save_step)
     IN  IF max_ckpt_to_keep > 0
         THEN DropOldest(SavingRole, paths, max_ckpt_to_keep)
         ELSE /\ previous_saved_paths' = [previous_saved_paths EXCEPT ![SavingRole] = paths]
              /\ UNCHANGED shards
  /\ rank_pc' = [r \in Ranks |-> "open"]
  /\ NextRole
  /\ UNCHANGED << data, tracker, max_ckpt_to_keep, memoryVars, save_step >>

\* torch.save of the dataloader state
OpenData ==
  /\ save_pc = "open_data"
  /\ data' = [data EXCEPT ![save_step] = Torn]
  /\ save_pc' = "close_data"
  /\ UNCHANGED << shards, tracker, previous_saved_paths, max_ckpt_to_keep, memoryVars,
                  save_role, save_step, rank_pc >>

CloseData ==
  /\ save_pc = "close_data"
  /\ data' = [data EXCEPT ![save_step] = Written(dataloader)]
  /\ save_pc' = "open_tracker"
  /\ UNCHANGED << shards, tracker, previous_saved_paths, max_ckpt_to_keep, memoryVars,
                  save_role, save_step, rank_pc >>

\* open(..., "w") truncates the tracker before the number is written
OpenTracker ==
  /\ save_pc = "open_tracker"
  /\ tracker' = Torn
  /\ save_pc' = "close_tracker"
  /\ UNCHANGED << shards, data, previous_saved_paths, max_ckpt_to_keep, memoryVars,
                  save_role, save_step, rank_pc >>

CloseTracker ==
  /\ save_pc = "close_tracker"
  /\ tracker' = Written(save_step)
  /\ save_pc' = "idle"
  /\ UNCHANGED << shards, data, previous_saved_paths, max_ckpt_to_keep, memoryVars,
                  save_role, save_step, rank_pc >>

SaveStep ==
  \/ ensure_checkpoint_capacity
  \/ \E r \in Ranks : OpenShard(r) \/ CloseShard(r)
  \/ register_checkpoint
  \/ OpenData \/ CloseData \/ OpenTracker \/ CloseTracker

-----------------------------------------------------------------------------
(* Crash and resume.                                                       *)

\* the memory of a process that has just started
LoseMemory ==
  /\ previous_saved_paths' = [role \in Roles |-> << >>]
  /\ weights' = [role \in Roles |-> [r \in Ranks |-> << >>]]
  /\ dataloader' = 0
  /\ save_pc' = "idle"
  /\ save_role' = 1
  /\ save_step' = 0
  /\ rank_pc' = [r \in Ranks |-> "open"]
  /\ UNCHANGED << diskVars, max_ckpt_to_keep >>

\* find_latest_ckpt_path: the folder a tracker names is never deleted
TrackedStep == tracker.content
NoTracker == tracker = Missing

\* every rank reads its own shard; data.pt is skipped when it is missing
CanLoad ==
  /\ IsWritten(tracker)
  /\ \A role \in Roles, r \in Ranks : IsWritten(shards[TrackedStep][role][r])
  /\ data[TrackedStep] # Torn

\* Variant: the dataloader starts over.
DataloaderFresh == dataloader

LoadedDataloader ==
  IF data[TrackedStep] = Missing THEN dataloader ELSE data[TrackedStep].content

LoadTracked ==
  /\ CanLoad
  /\ weights' = [role \in Roles |-> [r \in Ranks |-> shards[TrackedStep][role][r].content]]
  /\ dataloader' = LoadedDataloader
  /\ UNCHANGED << diskVars, previous_saved_paths, max_ckpt_to_keep, saveVars >>

-----------------------------------------------------------------------------
(* The tracked checkpoint can be resumed from: every shard of every role   *)
(* is there and whole, the ranks of a role agree, and the dataloader state *)
(* was saved with them.                                                    *)
Complete(n) ==
  /\ \A role \in Roles, r \in Ranks : IsWritten(shards[n][role][r])
  /\ \A role \in Roles, r, s \in Ranks : shards[n][role][r] = shards[n][role][s]
  /\ IsWritten(data[n])

=============================================================================
