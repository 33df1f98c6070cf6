------------------------ MODULE FullyAsyncLagProofs -------------------------
(***************************************************************************)
(* How old a sample can be: proofs about the versions of the samples that  *)
(* reach the Trainer of FullyAsync, for every batch size, synchronization  *)
(* step, staleness limit and both rollout modes; and that it trains        *)
(* without staleness when the limit is zero.                               *)
(***************************************************************************)
EXTENDS FullyAsyncProofs

USE DEF vars, mqVars, rollouterVars, feedVars, processorVars, taskVars, controlVars,
        driverVars, rpcVars, trainerVars, syncVars

-----------------------------------------------------------------------------
(* The versions of the samples on their way to the message queue.          *)

(***************************************************************************)
(* pause() has gathered every task, and update_param_version has not run.  *)
(***************************************************************************)
Gathered ==
  \/ sync_pc = "pausing" /\ rpc = "none"
  \/ sync_pc = "transfer"
  \/ rpc = "update"

(***************************************************************************)
(* A task outlives at most one change of the version: the next pause waits *)
(* for it.  With partial rollout it outlives none, because no server       *)
(* admits it while the Rollouter is paused.                                *)
(***************************************************************************)
PuttingVersions ==
  /\ \A e \in putting :
       \/ e.version = rollout_version
       \/ e.version + 1 = rollout_version /\ ~PartialRollout /\ ~Gathered
  /\ PartialRollout /\ Gathered => servers_paused /\ generating = {} /\ putting = {}
  /\ PartialRollout /\ rpc = "gather" => servers_paused

LEMMA PuttingVersionsInit == Init => PuttingVersions
  BY DEF Init, RollouterInit, PuttingVersions, Gathered

(***************************************************************************)
(* Which actions touch what PuttingVersions speaks of.                     *)
(***************************************************************************)
GenerationActions ==
  \/ PauseBegin \/ PauseEnd \/ UpdateParamVersion \/ Resume
  \/ \E s \in Samples : TaskStamp(s) \/ TaskPut(s) \/ TaskFail(s)
                        \/ ServerAdmit(s) \/ ServerInterrupt(s)

LEMMA GenerationFrames ==
  ASSUME [Next]_vars
  PROVE  \/ GenerationActions /\ UNCHANGED << trainerVars, syncVars >>
         \/ TrainerSync \/ Synchronizer
         \/ UNCHANGED << putting, generating, servers_paused, rollout_version, rpc, sync_pc >>
<1> USE DEF Next, RollouterNext, Feeder, Processor, Task, Server, Monitor, Main, Handlers,
            Trainer, Synchronizer, Ended
<1> USE DEF FeedSample, FeedDone, ProcessorMustPause, ProcessorTakeCancelled,
            ProcessorAwaitPending, ProcessorTakePending, ProcessorTakeDone, ProcessorSetPause,
            ProcessorReap, ProcessorNothingToReap, ProcessorWaitCondition, ProcessorWoken,
            ProcessorResumed, ProcessorSubmit, TaskCancelled, MonitorCheck, MonitorResume,
            MonitorStop, MainSendEndSignal, MainStop, RpcArrive, TrainerGetSample,
            TrainerGetEndSignal, TrainerUpdate, TrainerLog, TrainerFinish
<1> QED BY SMTT(60) DEF GenerationActions

LEMMA PuttingVersionsNext ==
  ASSUME TypeInv, VersionInv, PuttingVersions, [Next]_vars
  PROVE  PuttingVersions'
<1>0. /\ rollout_version \in Nat /\ sync_pc \in {"idle", "pausing", "transfer"}
      /\ PartialRollout \in BOOLEAN
      /\ \A e \in putting : e.version \in Nat /\ e.sample \in running
  BY RollouterAssumption
  DEF TypeInv, TypeOK, ControlTypes, TaskTypes, TrainerTypes, TaskStages, Stamped, Entries
<1> HIDE DEF TypeInv
<1> USE DEF PuttingVersions, Gathered
<1>1. CASE PauseBegin /\ UNCHANGED << trainerVars, syncVars >>
  BY <1>0, <1>1 DEF PauseBegin, VersionInv
<1>2. CASE PauseEnd /\ UNCHANGED << trainerVars, syncVars >>
  <2>1. putting = {} /\ generating = {}
    BY <1>0, <1>2 DEF PauseEnd, TypeInv, TypeOK, TaskTypes
  <2> QED BY <1>2, <2>1 DEF PauseEnd
<1>3. CASE UpdateParamVersion /\ UNCHANGED << trainerVars, syncVars >>
  <2>1. rollout_version' = rollout_version + 1 /\ rpc = "update" /\ rpc' = "resume"
        /\ sync_pc' = "idle" /\ UNCHANGED << putting, generating, servers_paused >>
    BY <1>0, <1>3 DEF UpdateParamVersion, VersionInv
  <2> QED BY <1>0, <2>1
<1>4. CASE Resume /\ UNCHANGED << trainerVars, syncVars >>
  BY <1>0, <1>4 DEF Resume, VersionInv
<1>5. ASSUME NEW s \in Samples, TaskStamp(s), UNCHANGED << trainerVars, syncVars >>
      PROVE  PuttingVersions'
  BY <1>0, <1>5 DEF TaskStamp, Entry
<1>6. ASSUME NEW s \in Samples, UNCHANGED << trainerVars, syncVars >>,
             TaskPut(s) \/ TaskFail(s) \/ ServerAdmit(s) \/ ServerInterrupt(s)
      PROVE  PuttingVersions'
  <2>1. /\ putting' \subseteq putting
        /\ UNCHANGED << rollout_version, rpc, servers_paused, trainerVars, syncVars >>
        /\ generating' \subseteq generating \/ ~servers_paused
    BY <1>6 DEF TaskPut, TaskFail, ServerAdmit, ServerInterrupt
  <2> QED BY <1>0, <2>1
<1>7. CASE TrainerSync
  BY <1>0, <1>7 DEF TrainerSync
<1>8. CASE SyncUpdateQueue
  BY <1>0, <1>8 DEF SyncUpdateQueue
<1>9. CASE SyncRelease
  BY <1>0, <1>9 DEF SyncRelease
<1>10. CASE UNCHANGED << putting, generating, servers_paused, rollout_version, rpc, sync_pc >>
  BY <1>10
<1> QED BY <1>1, <1>2, <1>3, <1>4, <1>5, <1>6, <1>7, <1>8, <1>9, <1>10, GenerationFrames
        DEF GenerationActions, Synchronizer

LEMMA PuttingVersionsInvariant == Spec => []PuttingVersions
  BY PuttingVersionsInit, PuttingVersionsNext, TypeInvariant, VersionInvariant, PTL DEF Spec

(***************************************************************************)
(* The Trainer updates with a full batch, and begins every version anew.   *)
(***************************************************************************)
BatchInv ==
  /\ IsFiniteSet(batch)
  /\ trainer_pc = "update" => Cardinality(batch) = RequiredSamples
  /\ trainer_pc # "update" => Cardinality(batch) < RequiredSamples
  /\ trainer_pc \in {"wait_last_valid", "sync"} => local_trigger_step = 1 /\ batch = {}

\* The sample that is got next is not in the batch.
LEMMA HeadFresh ==
  ASSUME TypeInv, ConservationInv, GetSample, Head(queue).sample # None
  PROVE  Head(queue) \notin batch
<1>1. queue \in Seq(Entries) /\ QueueDistinct /\ InQueue \cap InBatch = {}
  BY DEF TypeInv, TypeOK, QueueTypes, ConservationInv, PlacesDistinct, PlacesDisjoint
<1>2. Head(queue).sample \in InQueue
  BY <1>1, NumbersGet DEF InQueue, QueueNumbers
<1> QED BY <1>1, <1>2 DEF InBatch

LEMMA BatchInvInit == Init => BatchInv
  BY FS_EmptySet, FullyAsyncAssumption DEF Init, BatchInv

LEMMA BatchInvNext ==
  ASSUME TypeInv, VersionInv, ConservationInv, BatchInv, [Next]_vars
  PROVE  BatchInv'
<1>0. /\ Cardinality(batch) \in Nat /\ queue \in Seq(Entries)
      /\ RequiredSamples \in Nat \ {0} /\ TriggerParameterSyncStep \in Nat \ {0}
      /\ local_trigger_step \in 1..TriggerParameterSyncStep
  BY FS_CardinalityType, FullyAsyncAssumption
  DEF BatchInv, TypeInv, TypeOK, QueueTypes, TrainerTypes
<1> HIDE DEF TypeInv
<1> USE DEF BatchInv
<1>1. CASE TrainerGetSample
  <2>1. Head(queue) \notin batch
    BY <1>1, HeadFresh DEF TrainerGetSample
  <2>2. IsFiniteSet(batch') /\ Cardinality(batch') = Cardinality(batch) + 1
    BY <1>1, <2>1, FS_AddElement DEF TrainerGetSample
  <2> QED BY <1>0, <1>1, <2>2 DEF TrainerGetSample
<1>2. CASE TrainerGetEndSignal
  BY <1>2 DEF TrainerGetEndSignal
<1>3. CASE TrainerUpdate
  BY <1>0, <1>3, FS_EmptySet DEF TrainerUpdate, NextLocalStep
<1>4. CASE TrainerSync \/ SyncRelease \/ TrainerLog \/ TrainerFinish
  BY <1>4 DEF TrainerSync, SyncRelease, TrainerLog, TrainerFinish, VersionInv
<1>5. CASE UNCHANGED << batch, trainer_pc, local_trigger_step >>
  BY <1>5
<1>6. Trainer \/ SyncRelease \/ UNCHANGED << batch, trainer_pc, local_trigger_step >>
  <2>1. CASE Trainer \/ Synchronizer
    BY <2>1 DEF Synchronizer, SyncUpdateQueue
  <2>2. CASE UNCHANGED << trainerVars, syncVars >>
    BY <2>2
  <2> QED BY <2>1, <2>2, Frames
<1> QED BY <1>1, <1>2, <1>3, <1>4, <1>5, <1>6 DEF Trainer

LEMMA BatchInvariant == Spec => []BatchInv
  BY BatchInvInit, BatchInvNext, TypeInvariant, VersionInvariant, ConservationInvariant, PTL DEF Spec

-----------------------------------------------------------------------------
(* The lag.                                                                *)

\* Samples the Trainer used before the current batch, and those in the batch too.
UsedBefore == train_version * SamplesPerVersion + (local_trigger_step - 1) * RequiredSamples
Used == UsedBefore + Cardinality(batch)

\* When a sample of a version has to be in the queue.
QueuedBy(version) == (version + VersionsToQueue) * SamplesPerVersion

(***************************************************************************)
(* The entry at position i of the queue will be the Used + i th sample the *)
(* Trainer uses, or an earlier one when entries before it are dropped.     *)
(***************************************************************************)
LagInv ==
  /\ Len(queue) <= MaxRequiredSamples
  /\ \A i \in DOMAIN queue :
       queue[i].sample # None => Used + i <= QueuedBy(queue[i].version) + MaxRequiredSamples
  /\ \A e \in batch : UsedBefore < QueuedBy(e.version) + MaxRequiredSamples

(***************************************************************************)
(* Used counts: a get adds one, an update moves the batch over, and what   *)
(* raises the version begins the local steps anew.                         *)
(***************************************************************************)
LEMMA UsedSteps ==
  ASSUME TypeInv, BatchInv
  PROVE  /\ SamplesPerVersion \in Nat \ {0}
         /\ UsedBefore \in Nat /\ Used \in Nat
         /\ Used <= (train_version + 1) * SamplesPerVersion
         /\ trainer_pc \in {"wait_last_valid", "sync"} =>
              Used = train_version * SamplesPerVersion
<1>0. /\ RequiredSamples \in Nat \ {0} /\ TriggerParameterSyncStep \in Nat \ {0}
      /\ local_trigger_step \in 1..TriggerParameterSyncStep /\ train_version \in Nat
      /\ Cardinality(batch) \in Nat
  BY FS_CardinalityType, FullyAsyncAssumption DEF BatchInv, TypeInv, TypeOK, TrainerTypes
<1>1. Cardinality(batch) <= RequiredSamples
  BY <1>0 DEF BatchInv
<1> HIDE DEF TypeInv
<1>2. SamplesPerVersion \in Nat \ {0}
  BY <1>0 DEF SamplesPerVersion
<1> DEFINE steps == (local_trigger_step - 1) * RequiredSamples
<1>3. steps \in Nat /\ steps + RequiredSamples <= SamplesPerVersion
  <2>1. local_trigger_step * RequiredSamples <= TriggerParameterSyncStep * RequiredSamples
    BY <1>0
  <2>2. steps + RequiredSamples = local_trigger_step * RequiredSamples
    BY <1>0
  <2>3. SamplesPerVersion = TriggerParameterSyncStep * RequiredSamples
    BY <1>0 DEF SamplesPerVersion
  <2>4. steps \in Nat
    BY <1>0
  <2> QED BY <2>1, <2>2, <2>3, <2>4
<1>4. train_version * SamplesPerVersion \in Nat
  BY <1>0, <1>2
<1>5. (train_version + 1) * SamplesPerVersion
        = train_version * SamplesPerVersion + SamplesPerVersion
  BY <1>0, <1>2
<1>6. trainer_pc \in {"wait_last_valid", "sync"} => steps = 0 /\ Cardinality(batch) = 0
  BY <1>0, FS_EmptySet DEF BatchInv
<1>7. UsedBefore = train_version * SamplesPerVersion + steps
      /\ Used = train_version * SamplesPerVersion + steps + Cardinality(batch)
  BY DEF UsedBefore, Used
<1> HIDE DEF steps
<1> QED BY <1>0, <1>1, <1>2, <1>3, <1>4, <1>5, <1>6, <1>7

LEMMA QueuedByType ==
  ASSUME TypeInv, BatchInv, NEW v \in Nat
  PROVE  QueuedBy(v) \in Nat
<1>1. SamplesPerVersion \in Nat \ {0} /\ VersionsToQueue \in 1..2
  BY UsedSteps DEF VersionsToQueue
<1> QED BY <1>1 DEF QueuedBy

(***************************************************************************)
(* A sample that is put is in time.                                        *)
(***************************************************************************)
LEMMA PutInTime ==
  ASSUME TypeInv, VersionInv, PuttingVersions, BatchInv, NEW e \in putting
  PROVE  Used <= QueuedBy(e.version)
<1> DEFINE v == e.version
           last == v + VersionsToQueue
<1>0. /\ train_version \in Nat /\ rollout_version \in Nat /\ v \in Nat
      /\ sync_pc \in {"idle", "pausing", "transfer"} /\ PartialRollout \in BOOLEAN
  BY RollouterAssumption DEF TypeInv, TypeOK, TaskTypes, ControlTypes, TrainerTypes, Entries
<1>1. VersionsToQueue = IF PartialRollout THEN 1 ELSE 2
  BY DEF VersionsToQueue
<1>2. \/ train_version + 1 <= last
      \/ train_version = last /\ trainer_pc \in {"wait_last_valid", "sync"}
  <2>1. CASE PartialRollout
    <3>1. v = rollout_version /\ ~Gathered /\ last = v + 1
      BY <1>1, <2>1 DEF PuttingVersions
    <3> QED BY <1>0, <3>1 DEF VersionInv, Gathered
  <2>2. CASE ~PartialRollout
    <3>1. \A f \in putting : \/ f.version = rollout_version
                             \/ f.version + 1 = rollout_version /\ ~Gathered
      BY DEF PuttingVersions
    <3>2. last = v + 2
      BY <1>1, <2>2
    <3> QED BY <1>0, <3>1, <3>2 DEF VersionInv, Gathered
  <2> QED BY <1>0, <2>1, <2>2
<1>3. last \in Nat
  BY <1>0, <1>1
<1>4. /\ SamplesPerVersion \in Nat \ {0} /\ Used \in Nat
      /\ Used <= (train_version + 1) * SamplesPerVersion
      /\ trainer_pc \in {"wait_last_valid", "sync"} => Used = train_version * SamplesPerVersion
  BY UsedSteps
<1>5. QueuedBy(e.version) = last * SamplesPerVersion
  BY DEF QueuedBy
<1> HIDE DEF TypeInv, v, last
<1>6. CASE train_version + 1 <= last
  <2>1. (train_version + 1) * SamplesPerVersion <= last * SamplesPerVersion
    BY <1>0, <1>3, <1>4, <1>6
  <2>2. /\ (train_version + 1) * SamplesPerVersion \in Nat
        /\ last * SamplesPerVersion \in Nat
    BY <1>0, <1>3, <1>4
  <2> QED BY <1>4, <1>5, <2>1, <2>2
<1>7. CASE train_version = last /\ trainer_pc \in {"wait_last_valid", "sync"}
  <2>1. last * SamplesPerVersion \in Nat
    BY <1>3, <1>4
  <2> QED BY <1>4, <1>5, <1>7, <2>1
<1> QED BY <1>2, <1>6, <1>7

LEMMA LagInvInit == Init => LagInv
<1> SUFFICES ASSUME Init PROVE LagInv
  OBVIOUS
<1>1. queue = << >> /\ DOMAIN queue = {} /\ batch = {}
  BY DEF Init, MQInit
<1> QED BY <1>1, RollouterAssumption DEF LagInv

(***************************************************************************)
(* A get brings the entries one place forward, a put adds one at the end.  *)
(***************************************************************************)
LEMMA LagGet ==
  ASSUME TypeInv, BatchInv, LagInv, GetSample, Used' \in Nat, Used' <= Used + 1
  PROVE  /\ Len(queue') <= MaxRequiredSamples
         /\ \A i \in DOMAIN queue' : queue'[i].sample # None =>
              Used' + i <= QueuedBy(queue'[i].version) + MaxRequiredSamples
<1>0. queue \in Seq(Entries) /\ MaxRequiredSamples \in Nat
  BY RollouterAssumption DEF TypeInv, TypeOK, QueueTypes
<1>1. queue # << >> /\ queue' = Tail(queue)
  BY DEF GetSample
<1>2. /\ Len(queue) \in Nat \ {0} /\ DOMAIN queue = 1..Len(queue)
      /\ Len(queue') = Len(queue) - 1 /\ DOMAIN queue' = 1..(Len(queue) - 1)
      /\ \A i \in 1..(Len(queue) - 1) : queue'[i] = queue[i + 1]
  BY <1>0, <1>1, TailEntries
<1>3. Used \in Nat
  BY UsedSteps
<1>4. ASSUME NEW i \in DOMAIN queue', queue'[i].sample # None
      PROVE  Used' + i <= QueuedBy(queue'[i].version) + MaxRequiredSamples
  <2>1. i + 1 \in DOMAIN queue /\ queue'[i] = queue[i + 1] /\ i \in Nat
    BY <1>2
  <2>2. Used + (i + 1) <= QueuedBy(queue[i + 1].version) + MaxRequiredSamples
    BY <1>4, <2>1 DEF LagInv
  <2>3. QueuedBy(queue[i + 1].version) \in Nat
    <3>1. queue[i + 1] \in Entries
      BY <1>0, <2>1
    <3>2. queue[i + 1].version \in Nat
      BY <3>1 DEF Entries
    <3> QED BY <3>2, QueuedByType
  <2> HIDE DEF TypeInv
  <2> QED BY <1>0, <1>3, <2>1, <2>2, <2>3
<1>5. Len(queue') <= MaxRequiredSamples
  BY <1>0, <1>2 DEF LagInv
<1> QED BY <1>4, <1>5

LEMMA LagPut ==
  ASSUME TypeInv, BatchInv, LagInv, NEW e \in Entries, PutSample(e),
         e.sample # None => Used <= QueuedBy(e.version),
         UNCHANGED << batch, train_version, local_trigger_step >>
  PROVE  LagInv'
<1>0. queue \in Seq(Entries) /\ MaxRequiredSamples \in Nat /\ MaxQueueSize = MaxRequiredSamples
  BY RollouterAssumption DEF TypeInv, TypeOK, QueueTypes
<1>1. /\ Overwritten \in 0..1 /\ Len(queue) \in Nat /\ DOMAIN queue = 1..Len(queue)
      /\ Len(queue') = Len(queue) - Overwritten + 1
      /\ DOMAIN queue' = 1..Len(queue')
      /\ queue'[Len(queue')] = e
      /\ \A i \in 1..(Len(queue') - 1) : queue'[i] = queue[i + Overwritten]
  BY <1>0, PutEntries
<1>2. Used \in Nat /\ Used' = Used /\ UsedBefore' = UsedBefore
  BY UsedSteps DEF Used, UsedBefore
<1>3. Len(queue') <= MaxRequiredSamples
  BY <1>0, <1>1 DEF LagInv, Overwritten, QueueFull
<1>4. ASSUME NEW i \in DOMAIN queue', queue'[i].sample # None
      PROVE  Used + i <= QueuedBy(queue'[i].version) + MaxRequiredSamples
  <2>1. CASE i = Len(queue')
    <3>1. i \in Nat /\ i <= MaxRequiredSamples /\ Used <= QueuedBy(queue'[i].version)
      BY <1>1, <1>3, <1>4, <2>1
    <3>2. QueuedBy(queue'[i].version) \in Nat
      BY <1>1, <2>1, QueuedByType DEF Entries
    <3> HIDE DEF TypeInv
    <3> QED BY <1>0, <1>2, <3>1, <3>2
  <2>2. CASE i # Len(queue')
    <3> DEFINE j == i + Overwritten
    <3>1. j \in DOMAIN queue /\ queue'[i] = queue[j] /\ i \in Nat /\ i <= j /\ j \in Nat
      BY <1>1, <2>2
    <3> HIDE DEF j
    <3>2. Used + j <= QueuedBy(queue[j].version) + MaxRequiredSamples
      BY <1>4, <3>1 DEF LagInv
    <3>3. QueuedBy(queue[j].version) \in Nat
      <4>1. queue[j] \in Entries
        BY <1>0, <3>1
      <4>2. queue[j].version \in Nat
        BY <4>1 DEF Entries
      <4> QED BY <4>2, QueuedByType
    <3> HIDE DEF TypeInv
    <3> QED BY <1>0, <1>2, <3>1, <3>2, <3>3
  <2> QED BY <2>1, <2>2
<1>5. \A f \in batch' : UsedBefore' < QueuedBy(f.version) + MaxRequiredSamples
  BY <1>2 DEF LagInv
<1> QED BY <1>2, <1>3, <1>4, <1>5 DEF LagInv

LEMMA LagInvNext ==
  ASSUME TypeInv, VersionInv, PuttingVersions, ConservationInv, BatchInv, LagInv, [Next]_vars
  PROVE  LagInv'
<1>0. /\ MaxRequiredSamples \in Nat \ {0} /\ queue \in Seq(Entries)
      /\ RequiredSamples \in Nat \ {0} /\ TriggerParameterSyncStep \in Nat \ {0}
      /\ local_trigger_step \in 1..TriggerParameterSyncStep /\ train_version \in Nat
  BY RollouterAssumption, FullyAsyncAssumption
  DEF TypeInv, TypeOK, QueueTypes, TrainerTypes
<1>u. Used \in Nat /\ UsedBefore \in Nat
  BY UsedSteps
<1>1. CASE TrainerGetSample
  <2>1. /\ GetSample /\ Head(queue).sample # None /\ batch' = batch \cup {Head(queue)}
        /\ UsedBefore' = UsedBefore
    BY <1>1 DEF TrainerGetSample, UsedBefore
  <2>2. Head(queue) \notin batch
    BY <2>1, HeadFresh
  <2>3. Cardinality(batch') = Cardinality(batch) + 1 /\ Cardinality(batch) \in Nat
    BY <2>1, <2>2, FS_AddElement, FS_CardinalityType DEF BatchInv
  <2>4. Used' = Used + 1
    BY <1>u, <2>1, <2>3 DEF Used
  <2>5. UsedBefore < QueuedBy(Head(queue).version) + MaxRequiredSamples
    <3>1. 1 \in DOMAIN queue /\ Head(queue) = queue[1]
      BY <1>0, <2>1, TailEntries DEF GetSample
    <3>2. Used + 1 <= QueuedBy(Head(queue).version) + MaxRequiredSamples
      BY <2>1, <3>1 DEF LagInv
    <3>3. QueuedBy(Head(queue).version) \in Nat
      <4>1. Head(queue) \in Entries
        BY <1>0, <3>1
      <4> QED BY <4>1, QueuedByType DEF Entries
    <3> HIDE DEF TypeInv
    <3> QED BY <1>0, <1>u, <2>3, <3>2, <3>3 DEF Used
  <2>6. \A f \in batch' : UsedBefore' < QueuedBy(f.version) + MaxRequiredSamples
    BY <2>1, <2>5 DEF LagInv
  <2>7. Used' \in Nat /\ Used' <= Used + 1
    BY <1>u, <2>4
  <2> QED BY <2>1, <2>6, <2>7, LagGet DEF LagInv
<1>2. CASE TrainerGetEndSignal
  <2>1. GetSample /\ Used' = Used /\ UsedBefore' = UsedBefore /\ batch' = batch
    BY <1>2 DEF TrainerGetEndSignal, Used, UsedBefore
  <2>2. Used' \in Nat /\ Used' <= Used + 1
    BY <1>u, <2>1
  <2>3. \A f \in batch' : UsedBefore' < QueuedBy(f.version) + MaxRequiredSamples
    BY <2>1 DEF LagInv
  <2> QED BY <2>1, <2>2, <2>3, LagGet DEF LagInv
<1>3. CASE TrainerUpdate
  <2>1. /\ queue' = queue /\ batch' = {} /\ Cardinality(batch) = RequiredSamples
        /\ Cardinality(batch') = 0
    BY <1>3, FS_EmptySet DEF TrainerUpdate, BatchInv
  <2>2. Used' = Used
    <3>1. CASE local_trigger_step < TriggerParameterSyncStep
      <4>1. local_trigger_step' = local_trigger_step + 1 /\ train_version' = train_version
        BY <1>3, <3>1 DEF TrainerUpdate, NextLocalStep
      <4>2. (local_trigger_step + 1 - 1) * RequiredSamples
              = (local_trigger_step - 1) * RequiredSamples + RequiredSamples
        BY <1>0
      <4>3. SamplesPerVersion \in Nat
        BY UsedSteps
      <4> HIDE DEF TypeInv
      <4> QED BY <1>0, <2>1, <4>1, <4>2, <4>3 DEF Used, UsedBefore
    <3>2. CASE ~(local_trigger_step < TriggerParameterSyncStep)
      <4>1. /\ local_trigger_step' = 1 /\ train_version' = train_version + 1
            /\ local_trigger_step = TriggerParameterSyncStep
        BY <1>0, <1>3, <3>2 DEF TrainerUpdate, NextLocalStep
      <4>2. (TriggerParameterSyncStep - 1) * RequiredSamples + RequiredSamples
              = SamplesPerVersion
        BY <1>0 DEF SamplesPerVersion
      <4>3. SamplesPerVersion \in Nat
        BY UsedSteps
      <4>4. (train_version + 1) * SamplesPerVersion
              = train_version * SamplesPerVersion + SamplesPerVersion
        BY <1>0, <4>3
      <4>5. Used' = (train_version + 1) * SamplesPerVersion + (1 - 1) * RequiredSamples + 0
        BY <2>1, <4>1 DEF Used, UsedBefore
      <4>6. Used = train_version * SamplesPerVersion
                     + (TriggerParameterSyncStep - 1) * RequiredSamples + RequiredSamples
        BY <2>1, <4>1 DEF Used, UsedBefore
      <4>7. /\ train_version * SamplesPerVersion \in Nat
            /\ (TriggerParameterSyncStep - 1) * RequiredSamples \in Nat
            /\ (1 - 1) * RequiredSamples = 0
        BY <1>0, <4>3
      <4> HIDE DEF TypeInv
      <4> QED BY <1>0, <4>2, <4>3, <4>4, <4>5, <4>6, <4>7
    <3> QED BY <3>1, <3>2
  <2> QED BY <2>1, <2>2 DEF LagInv
<1>4. ASSUME NEW s \in Samples, TaskPut(s), UNCHANGED << trainerVars, syncVars >>
      PROVE  LagInv'
  <2>1. PICK e \in putting : e.sample = s /\ PutSample(e)
    BY <1>4 DEF TaskPut
  <2>2. e \in Entries /\ Used <= QueuedBy(e.version)
    BY <2>1, PutInTime DEF TypeInv, TypeOK, TaskTypes
  <2> QED BY <1>4, <2>1, <2>2, LagPut
<1>5. CASE MainSendEndSignal /\ UNCHANGED << trainerVars, syncVars >>
  <2> DEFINE e == Entry(None, rollout_version)
  <2>1. e \in Entries /\ e.sample = None /\ PutSample(e)
    BY <1>5, RollouterAssumption
    DEF MainSendEndSignal, TypeInv, TypeOK, ControlTypes, Entry, Entries, None
  <2> HIDE DEF e
  <2> QED BY <1>5, <2>1, LagPut
<1>6. CASE UNCHANGED << queue, batch, train_version, local_trigger_step >>
  BY <1>6 DEF LagInv, Used, UsedBefore
<1>7. \/ TrainerGetSample \/ TrainerGetEndSignal \/ TrainerUpdate
      \/ /\ UNCHANGED << trainerVars, syncVars >>
         /\ MainSendEndSignal \/ \E s \in Samples : TaskPut(s)
      \/ UNCHANGED << queue, batch, train_version, local_trigger_step >>
  <2>1. CASE Trainer \/ Synchronizer
    BY <2>1 DEF Trainer, Synchronizer, TrainerSync, TrainerLog, TrainerFinish, GetValidate,
                SyncUpdateQueue, UpdateQueueVersion, SyncRelease
  <2>2. CASE ~(Trainer \/ Synchronizer)
    <3>1. UNCHANGED << trainerVars, syncVars >>
      BY <2>2, Frames
    <3>2. MainSendEndSignal \/ (\E s \in Samples : TaskPut(s)) \/ UNCHANGED queue
      BY <2>2, Frames DEF QueueActions, Trainer, Synchronizer, UpdateParamVersion, PutValidate
    <3> QED BY <3>1, <3>2
  <2> QED BY <2>1, <2>2
<1> QED BY <1>1, <1>2, <1>3, <1>4, <1>5, <1>6, <1>7

LEMMA LagInvariant == Spec => []LagInv
  BY LagInvInit, LagInvNext, TypeInvariant, VersionInvariant, PuttingVersionsInvariant,
     ConservationInvariant, BatchInvariant, PTL DEF Spec

(***************************************************************************)
(* What times the divisor is not above a number is not above its quotient. *)
(***************************************************************************)
LEMMA QuotientBound ==
  ASSUME NEW k \in Int, NEW d \in Nat \ {0}, NEW n \in Nat, k * d <= n
  PROVE  k <= n \div d
<1> DEFINE q == n \div d
<1>1. q \in Int /\ n < (q + 1) * d
  BY SMTT(30)
<1> HIDE DEF q
<1>2. SUFFICES ASSUME q + 1 <= k PROVE FALSE
  BY <1>1 DEF q
<1>3. (q + 1) * d <= k * d
  BY <1>1, <1>2
<1>4. (q + 1) * d \in Int /\ k * d \in Int
  BY <1>1
<1> QED BY <1>1, <1>3, <1>4

(***************************************************************************)
(* A sample trained on is at most VersionsToQueue versions older than the  *)
(* Trainer's, and one for each SamplesPerVersion samples that the queue    *)
(* holds before it.  Its version is the one _process_single_sample_-       *)
(* streaming stamps on it, the current one when its generation ends.       *)
(***************************************************************************)
THEOREM LagBounded == Spec => []VersionLagBound
<1>1. TypeInv /\ BatchInv /\ LagInv => VersionLagBound
  <2> SUFFICES ASSUME TypeInv, BatchInv, LagInv, NEW e \in batch
               PROVE  train_version - e.version
                        <= VersionsToQueue + (MaxRequiredSamples - 1) \div SamplesPerVersion
    BY DEF VersionLagBound
  <2> DEFINE v == e.version
             k == train_version - (v + VersionsToQueue)
  <2>1. /\ SamplesPerVersion \in Nat \ {0} /\ VersionsToQueue \in Nat
        /\ MaxRequiredSamples \in Nat \ {0} /\ train_version \in Nat /\ v \in Nat
        /\ RequiredSamples \in Nat /\ local_trigger_step \in Nat \ {0}
    BY UsedSteps, RollouterAssumption, FullyAsyncAssumption
    DEF TypeInv, TypeOK, TrainerTypes, Entries, VersionsToQueue
  <2>2. UsedBefore < QueuedBy(v) + MaxRequiredSamples
    BY DEF LagInv
  <2>3. (local_trigger_step - 1) * RequiredSamples \in Nat
    BY <2>1
  <2> HIDE DEF TypeInv, v
  <2>4. k * SamplesPerVersion
          = train_version * SamplesPerVersion - (v + VersionsToQueue) * SamplesPerVersion
    BY <2>1
  <2>5. /\ train_version * SamplesPerVersion \in Nat
        /\ (v + VersionsToQueue) * SamplesPerVersion \in Nat
    BY <2>1
  <2>6. k \in Int /\ train_version - v = VersionsToQueue + k
    BY <2>1
  <2> HIDE DEF k
  <2>7. k * SamplesPerVersion <= MaxRequiredSamples - 1
    BY <2>1, <2>2, <2>3, <2>4, <2>5 DEF UsedBefore, QueuedBy
  <2>8. k <= (MaxRequiredSamples - 1) \div SamplesPerVersion
    <3>1. MaxRequiredSamples - 1 \in Nat
      BY <2>1
    <3> QED BY <2>1, <2>6, <2>7, <3>1, QuotientBound
  <2>9. (MaxRequiredSamples - 1) \div SamplesPerVersion \in Int
    BY <2>1
  <2> QED BY <2>1, <2>6, <2>8, <2>9 DEF v
<1> QED BY <1>1, TypeInvariant, BatchInvariant, LagInvariant, PTL

-----------------------------------------------------------------------------
(***************************************************************************)
(* Training without staleness (staleness_threshold = 0): FullyAsync then   *)
(* trains on samples of the Trainer's version alone and never drops one,   *)
(* for every batch size, synchronization step, number of failing tasks and *)
(* both rollout modes.                                                     *)
(***************************************************************************)

\* staleness_threshold = 0
Synchronous == MaxRequiredSamples = SamplesPerVersion

\* Samples of its version the Trainer has used.
UsedOfVersion == (local_trigger_step - 1) * RequiredSamples + Cardinality(batch)

\* The Trainer's version is ahead of the Rollouter's.
Unsynced == trainer_pc \in {"wait_last_valid", "sync"} \/ rpc = "update"

(***************************************************************************)
(* Of what the freshness counter counted, nothing is uncounted: the        *)
(* Trainer uses SamplesPerVersion samples before it raises its version,    *)
(* so by then the counter is at its limit, nothing is outstanding and the  *)
(* recount finds nothing but, perhaps, the end signal.                     *)
(***************************************************************************)
SyncCounts ==
  /\ staleness_samples <= MaxRequiredSamples
  /\ processor_pc = "get" => staleness_samples < MaxRequiredSamples
  /\ UsedOfVersion + Outstanding + finished_failed <= staleness_samples
  /\ ~done_tasks_bound => SamplesIn(queue) <= finished
  /\ Unsynced => /\ staleness_samples = MaxRequiredSamples
                 /\ Outstanding = 0 /\ UsedOfVersion = 0
  /\ Gathered => finished = 0 /\ finished_failed = 0
  /\ trainer_pc = "wait_last_valid" => rpc # "update"
  /\ processor_pc \in {"final_drain", "done", "crashed"} =>
       Cardinality(running) + SamplesIn(queue) < MaxRequiredSamples
  /\ Len(queue) <= SamplesIn(queue) + IF main_pc = "stream" THEN 0 ELSE 1
  /\ dropped_samples = 0

\* Every sample generated and not trained on is of the Trainer's version.
SyncVersions ==
  /\ \A e \in batch \cup putting : e.version = train_version
  /\ \A i \in DOMAIN queue : queue[i].sample # None => queue[i].version = train_version

SyncInv == Synchronous => SyncCounts /\ SyncVersions

(***************************************************************************)
(* How many samples a queue holds after an append and after a get.         *)
(***************************************************************************)
LEMMA AppendCount ==
  ASSUME NEW q \in Seq(Entries), NEW e \in Entries
  PROVE  SamplesIn(Append(q, e)) = SamplesIn(q) + IF e.sample = None THEN 0 ELSE 1
<1> DEFINE S == {i \in DOMAIN q : q[i].sample # None}
           T == {i \in DOMAIN Append(q, e) : Append(q, e)[i].sample # None}
<1>1. /\ Len(q) \in Nat /\ DOMAIN q = 1..Len(q)
      /\ DOMAIN Append(q, e) = 1..(Len(q) + 1)
      /\ \A i \in 1..Len(q) : Append(q, e)[i] = q[i]
      /\ Append(q, e)[Len(q) + 1] = e
  BY AppendEntries
<1>2. T = IF e.sample = None THEN S ELSE S \cup {Len(q) + 1}
  BY <1>1
<1>3. Len(q) + 1 \notin S
  BY <1>1
<1>4. IsFiniteSet(S) /\ Cardinality(S) \in Nat /\ SamplesIn(q) = Cardinality(S)
  BY SamplesInType DEF SamplesIn
<1>5. SamplesIn(Append(q, e)) = Cardinality(T)
  BY DEF SamplesIn
<1> HIDE DEF S, T
<1>6. CASE e.sample = None
  BY <1>2, <1>4, <1>5, <1>6
<1>7. CASE e.sample # None
  BY <1>2, <1>3, <1>4, <1>5, <1>7, FS_AddElement
<1> QED BY <1>6, <1>7

LEMMA TailCount ==
  ASSUME NEW q \in Seq(Entries), q # << >>
  PROVE  SamplesIn(q) = SamplesIn(Tail(q)) + IF Head(q).sample = None THEN 0 ELSE 1
<1> DEFINE S == {i \in DOMAIN q : q[i].sample # None}
           R == S \ {1}
           T == {i \in DOMAIN Tail(q) : Tail(q)[i].sample # None}
           shift == [i \in T |-> i + 1]
<1>1. /\ Len(q) \in Nat \ {0} /\ DOMAIN q = 1..Len(q) /\ Head(q) = q[1]
      /\ DOMAIN Tail(q) = 1..(Len(q) - 1)
      /\ \A i \in 1..(Len(q) - 1) : Tail(q)[i] = q[i + 1]
  BY TailEntries
<1>2. shift \in [T -> R]
  BY <1>1
<1>3. \A i, j \in T : shift[i] = shift[j] => i = j
  BY <1>1
<1>4. \A y \in R : \E i \in T : shift[i] = y
  <2> SUFFICES ASSUME NEW y \in R PROVE \E i \in T : shift[i] = y
    OBVIOUS
  <2>1. y - 1 \in T /\ (y - 1) + 1 = y
    BY <1>1
  <2> QED BY <2>1
<1>5. IsFiniteSet(S) /\ Cardinality(S) \in Nat
  BY SamplesInType, FS_CardinalityType
<1>6. SamplesIn(q) = Cardinality(S) /\ SamplesIn(Tail(q)) = Cardinality(T)
  BY DEF SamplesIn
<1>7. 1 \in S <=> Head(q).sample # None
  BY <1>1
<1> HIDE DEF S, T, shift
<1>8. IsFiniteSet(R) /\ Cardinality(R) = IF 1 \in S THEN Cardinality(S) - 1 ELSE Cardinality(S)
  BY <1>5, FS_RemoveElement
<1> HIDE DEF R
<1>9. Cardinality(R) = Cardinality(T)
  BY <1>2, <1>3, <1>4, <1>8, BijectionCount
<1> QED BY <1>5, <1>6, <1>7, <1>8, <1>9

(***************************************************************************)
(* Without samples every entry is an end signal.                           *)
(***************************************************************************)
LEMMA NoSamples ==
  ASSUME NEW q \in Seq(Entries), SamplesIn(q) = 0, NEW i \in DOMAIN q
  PROVE  q[i].sample = None
<1> DEFINE S == {j \in DOMAIN q : q[j].sample # None}
<1>1. IsFiniteSet(S) /\ Cardinality(S) = 0
  BY SamplesInType DEF SamplesIn
<1> HIDE DEF S
<1>2. S = {}
  BY <1>1, FS_EmptySet
<1> QED BY <1>2 DEF S

(***************************************************************************)
(* The numbers SyncCounts is about.                                        *)
(***************************************************************************)
LEMMA CountTypes ==
  ASSUME TypeInv, BatchInv
  PROVE  /\ Terms /\ UsedOfVersion \in Nat
         /\ finished \in Nat /\ finished_failed \in Nat /\ Len(queue) \in Nat
         /\ MaxRequiredSamples \in Nat \ {0} /\ dropped_samples \in Nat
<1>0. /\ RequiredSamples \in Nat \ {0} /\ local_trigger_step \in Nat \ {0}
      /\ Cardinality(batch) \in Nat
  BY FullyAsyncAssumption, FS_CardinalityType DEF TypeInv, TypeOK, TrainerTypes, BatchInv
<1>1. Terms
  BY OutstandingTerms DEF TypeInv
<1>2. (local_trigger_step - 1) * RequiredSamples \in Nat
  BY <1>0
<1>3. UsedOfVersion \in Nat
  BY <1>0, <1>2 DEF UsedOfVersion
<1>4. Len(queue) \in Nat
  <2>1. queue \in Seq(Entries)
    BY DEF TypeInv, TypeOK, QueueTypes
  <2> QED BY <2>1
<1> QED BY <1>1, <1>3, <1>4, RollouterAssumption DEF TypeInv, TypeOK, TaskTypes, QueueTypes

\* The same, after the step.
LEMMA CountTypesPrimed ==
  (TypeInv /\ BatchInv)' => (Terms /\ UsedOfVersion \in Nat)'
<1>1. TypeInv /\ BatchInv => Terms /\ UsedOfVersion \in Nat
  BY CountTypes
<1> QED BY <1>1, PTL

(***************************************************************************)
(* Steps that move no sample.                                              *)
(***************************************************************************)
Counted == << staleness_samples, held, running, cancel_queue, queue, dropped_samples, finished,
              finished_failed, done_tasks_bound, rpc, sync_pc, trainer_pc,
              local_trigger_step, batch >>

LEMMA CountsKept ==
  ASSUME SyncCounts, UNCHANGED Counted, main_pc' = "stream" <=> main_pc = "stream",
         \/ processor_pc' = processor_pc
         \/ processor_pc' \notin {"get", "final_drain", "done", "crashed"}
  PROVE  SyncCounts'
<1>1. /\ Outstanding' = Outstanding /\ UsedOfVersion' = UsedOfVersion
      /\ SamplesIn(queue)' = SamplesIn(queue)
      /\ Unsynced' = Unsynced /\ Gathered' = Gathered
  BY DEF Counted, Outstanding, InHand, SamplesIn, UsedOfVersion, Unsynced, Gathered
<1> QED BY <1>1 DEF SyncCounts, Counted

\* What the steps below may use of the other invariants.
SyncContext ==
  /\ TypeInv /\ TypeInv' /\ BatchInv /\ BatchInv'
  /\ VersionInv /\ EndInv /\ HandEmpty

\* The counts before and after a step.
LEMMA CountSums ==
  ASSUME SyncContext
  PROVE  /\ Cardinality(InHand) \in Nat /\ Cardinality(running) \in Nat
         /\ Len(cancel_queue) \in Nat /\ SamplesIn(queue) \in Nat
         /\ staleness_samples \in Nat /\ UsedOfVersion \in Nat
         /\ finished \in Nat /\ finished_failed \in Nat /\ Len(queue) \in Nat
         /\ MaxRequiredSamples \in Nat \ {0} /\ dropped_samples \in Nat
         /\ Outstanding = Cardinality(InHand) + Cardinality(running) + Len(cancel_queue)
                            + SamplesIn(queue)
         /\ (Cardinality(InHand) = 0 <=> held = None) /\ Cardinality(InHand) <= 1
         /\ Cardinality(InHand)' \in Nat /\ Cardinality(running)' \in Nat
         /\ Len(cancel_queue)' \in Nat /\ SamplesIn(queue)' \in Nat
         /\ UsedOfVersion' \in Nat
         /\ Outstanding' = Cardinality(InHand)' + Cardinality(running)' + Len(cancel_queue)'
                             + SamplesIn(queue)'
         /\ (Cardinality(InHand)' = 0 <=> held' = None) /\ Cardinality(InHand)' <= 1
         /\ Outstanding \in Nat /\ Outstanding' \in Nat
<1>1. Terms /\ UsedOfVersion \in Nat /\ Terms' /\ UsedOfVersion' \in Nat
  BY CountTypes, CountTypesPrimed DEF SyncContext
<1>2. /\ finished \in Nat /\ finished_failed \in Nat /\ Len(queue) \in Nat
      /\ MaxRequiredSamples \in Nat \ {0} /\ dropped_samples \in Nat
  BY CountTypes DEF SyncContext
<1>3. /\ Cardinality(InHand) \in 0..1 /\ Cardinality(running) \in Nat
      /\ Len(cancel_queue) \in Nat /\ SamplesIn(queue) \in Nat
      /\ staleness_samples \in Nat
      /\ Outstanding = Cardinality(InHand) + Cardinality(running) + Len(cancel_queue)
                         + SamplesIn(queue)
      /\ (Cardinality(InHand) = 0 <=> held = None)
  BY <1>1 DEF Terms
<1>4. /\ Cardinality(InHand)' \in 0..1 /\ Cardinality(running)' \in Nat
      /\ Len(cancel_queue)' \in Nat /\ SamplesIn(queue)' \in Nat
      /\ Outstanding' = Cardinality(InHand)' + Cardinality(running)' + Len(cancel_queue)'
                          + SamplesIn(queue)'
      /\ (Cardinality(InHand)' = 0 <=> held' = None)
  BY <1>1 DEF Terms
<1>5. Outstanding \in Nat /\ Outstanding' \in Nat
  BY <1>3, <1>4
<1>6. /\ Cardinality(InHand) \in Nat /\ Cardinality(InHand) <= 1
      /\ Cardinality(InHand)' \in Nat /\ Cardinality(InHand)' <= 1
  <2>1. \A n \in 0..1 : n \in Nat /\ n <= 1
    OBVIOUS
  <2>2. Cardinality(InHand) \in 0..1 /\ Cardinality(InHand)' \in 0..1
    BY <1>3, <1>4
  <2> QED BY <2>1, <2>2, Zenon
<1>7. UsedOfVersion \in Nat /\ UsedOfVersion' \in Nat
  BY <1>1
<1> QED BY <1>2, <1>3, <1>4, <1>5, <1>6, <1>7, Zenon

\* What is used, outstanding and failed, after a step that changes the second.
LEMMA SumBound ==
  ASSUME NEW used \in Nat, NEW before \in Nat, NEW after \in Nat, NEW failed \in Nat,
         NEW counted \in Nat, NEW more \in Nat,
         used + before + failed <= counted, after <= before + more
  PROVE  used + after + failed <= counted + more
OBVIOUS

LEMMA SumParts ==
  ASSUME NEW used \in Nat, NEW before \in Nat, NEW failed \in Nat, NEW counted \in Nat,
         used + before + failed <= counted
  PROVE  before <= counted /\ used + before <= counted /\ before + failed <= counted
OBVIOUS

LEMMA SumFailed ==
  ASSUME NEW used \in Nat, NEW before \in Nat, NEW after \in Nat, NEW failed \in Nat,
         NEW counted \in Nat, used + before + failed <= counted, after = before - 1
  PROVE  used + after + (failed + 1) <= counted
OBVIOUS

LEMMA SumUsed ==
  ASSUME NEW used \in Nat, NEW before \in Nat, NEW after \in Nat, NEW failed \in Nat,
         NEW counted \in Nat, used + before + failed <= counted, after = before - 1
  PROVE  (used + 1) + after + failed <= counted
OBVIOUS

LEMMA NextStepUsed ==
  ASSUME NEW step \in Nat, NEW next \in Nat, NEW samples \in Nat, next = step + 1
  PROVE  (next - 1) * samples = (step - 1) * samples + samples
OBVIOUS

LEMMA SumKept ==
  ASSUME NEW used \in Nat, NEW before \in Nat, NEW after \in Nat, NEW failed \in Nat,
         NEW counted \in Nat, used + before + failed <= counted, after <= before
  PROVE  used + after + failed <= counted
OBVIOUS

(***************************************************************************)
(* The processor takes from pending_queue with room for one more sample,   *)
(* so the versions agree.                                                  *)
(***************************************************************************)
LEMMA SyncTakePending ==
  ASSUME SyncContext, SyncCounts, ProcessorTakePending \/ ProcessorTakeDone,
         UNCHANGED << trainerVars, syncVars >>
  PROVE  SyncCounts'
<1>n. /\ Cardinality(InHand) \in Nat /\ Cardinality(running) \in Nat
      /\ Len(cancel_queue) \in Nat /\ SamplesIn(queue) \in Nat
      /\ staleness_samples \in Nat /\ UsedOfVersion \in Nat
      /\ finished \in Nat /\ finished_failed \in Nat /\ MaxRequiredSamples \in Nat \ {0}
      /\ Outstanding = Cardinality(InHand) + Cardinality(running) + Len(cancel_queue)
                         + SamplesIn(queue)
      /\ Outstanding' = Cardinality(InHand)' + Cardinality(running)' + Len(cancel_queue)'
                          + SamplesIn(queue)'
      /\ Cardinality(InHand)' \in Nat /\ Cardinality(InHand)' <= 1
  BY CountSums
<1>c. UsedOfVersion + Outstanding + finished_failed <= staleness_samples
  BY DEF SyncCounts
<1>1. staleness_samples < MaxRequiredSamples
  BY <1>n DEF ProcessorTakePending, ProcessorTakeDone, MayTakePending, ShouldPause, SyncCounts
<1>2. ~Unsynced
  BY <1>n, <1>1 DEF SyncCounts
<1>3. /\ UNCHANGED << running, cancel_queue, queue, dropped_samples, finished,
                      finished_failed, done_tasks_bound, rpc, main_pc >>
      /\ staleness_samples' = staleness_samples + 1 /\ processor_pc' # "get"
  BY DEF ProcessorTakePending, ProcessorTakeDone, AfterTake
<1>4. /\ Cardinality(running)' = Cardinality(running) /\ Len(cancel_queue)' = Len(cancel_queue)
      /\ SamplesIn(queue)' = SamplesIn(queue) /\ UsedOfVersion' = UsedOfVersion
      /\ Unsynced' = Unsynced /\ Gathered' = Gathered
  BY <1>3 DEF SamplesIn, UsedOfVersion, Unsynced, Gathered
<1>5. Outstanding' <= Outstanding + 1
  BY <1>n, <1>4
<1>6. UsedOfVersion' + Outstanding' + finished_failed' <= staleness_samples'
  <2>1. /\ Outstanding \in Nat /\ Outstanding' \in Nat /\ UsedOfVersion \in Nat
        /\ finished_failed \in Nat /\ staleness_samples \in Nat
    BY CountSums
  <2>2. /\ finished_failed' = finished_failed /\ UsedOfVersion' = UsedOfVersion
        /\ staleness_samples' = staleness_samples + 1
    BY <1>3, <1>4
  <2>3. UsedOfVersion + Outstanding' + finished_failed <= staleness_samples + 1
    BY <1>c, <1>5, <2>1, SumBound
  <2> QED BY <2>2, <2>3, Zenon
<1>7. Cardinality(running) + SamplesIn(queue) < MaxRequiredSamples
  <2>1. Cardinality(running) + SamplesIn(queue) <= Outstanding /\ Outstanding \in Nat
    BY <1>n
  <2> QED BY <1>n, <1>c, <1>1, <2>1
<1>8. staleness_samples' <= MaxRequiredSamples
  BY <1>n, <1>1, <1>3
<1> QED BY <1>2, <1>3, <1>4, <1>6, <1>7, <1>8 DEF SyncCounts

LEMMA SyncSubmit ==
  ASSUME SyncContext, SyncCounts, ProcessorTakeCancelled \/ ProcessorSubmit,
         UNCHANGED << trainerVars, syncVars >>
  PROVE  SyncCounts'
<1>n. /\ UsedOfVersion \in Nat /\ finished_failed \in Nat /\ staleness_samples \in Nat
      /\ Outstanding \in Nat /\ Outstanding' \in Nat
  BY CountSums
<1>c. UsedOfVersion + Outstanding + finished_failed <= staleness_samples
  BY DEF SyncCounts
<1>1. Outstanding' <= Outstanding
  BY MovesAddNothing DEF SyncContext, TypeInv
<1>2. /\ UNCHANGED << staleness_samples, queue, dropped_samples, finished, finished_failed,
                      done_tasks_bound, rpc, main_pc >>
      /\ processor_pc' \notin {"get", "final_drain", "done", "crashed"}
  BY DEF ProcessorTakeCancelled, ProcessorSubmit, AfterTake
<1>3. /\ SamplesIn(queue)' = SamplesIn(queue) /\ UsedOfVersion' = UsedOfVersion
      /\ Unsynced' = Unsynced /\ Gathered' = Gathered
  BY <1>2 DEF SamplesIn, UsedOfVersion, Unsynced, Gathered
<1>4. UsedOfVersion' + Outstanding' + finished_failed' <= staleness_samples'
  <2>1. /\ finished_failed' = finished_failed /\ UsedOfVersion' = UsedOfVersion
        /\ staleness_samples' = staleness_samples
    BY <1>2, <1>3
  <2>2. UsedOfVersion + Outstanding' + finished_failed <= staleness_samples
    BY <1>n, <1>c, <1>1, SumKept
  <2> QED BY <2>1, <2>2, Zenon
<1>5. Unsynced' => Outstanding' = 0
  BY <1>n, <1>1, <1>3 DEF SyncCounts
<1> QED BY <1>2, <1>3, <1>4, <1>5 DEF SyncCounts

(***************************************************************************)
(* A reaping loop crashes on a task that failed, which took a sample the   *)
(* counter counted, or before it ever reaped one, with an empty queue.     *)
(***************************************************************************)
LEMMA SyncReap ==
  ASSUME SyncContext, SyncCounts, ProcessorReap \/ ProcessorNothingToReap,
         UNCHANGED << trainerVars, syncVars >>
  PROVE  SyncCounts'
<1>n. /\ Cardinality(InHand) \in Nat /\ Cardinality(running) \in Nat
      /\ Len(cancel_queue) \in Nat /\ SamplesIn(queue) \in Nat
      /\ staleness_samples \in Nat /\ UsedOfVersion \in Nat
      /\ finished \in Nat /\ finished_failed \in Nat /\ MaxRequiredSamples \in Nat \ {0}
      /\ Outstanding = Cardinality(InHand) + Cardinality(running) + Len(cancel_queue)
                         + SamplesIn(queue)
  BY CountSums
<1>c. UsedOfVersion + Outstanding + finished_failed <= staleness_samples
  BY DEF SyncCounts
<1>1. /\ UNCHANGED << staleness_samples, held, running, cancel_queue, queue, dropped_samples,
                      rpc, main_pc >>
      /\ processor_pc' # "get"
      /\ \/ finished' = 0 /\ finished_failed' = 0 /\ done_tasks_bound'
         \/ UNCHANGED << finished, finished_failed, done_tasks_bound >>
  BY DEF ProcessorReap, ProcessorNothingToReap, Crash, ContinueAfterReap, ReapLoops,
         AfterReap, AfterTake
<1>2. /\ Outstanding' = Outstanding /\ UsedOfVersion' = UsedOfVersion
      /\ SamplesIn(queue)' = SamplesIn(queue) /\ Cardinality(running)' = Cardinality(running)
      /\ Unsynced' = Unsynced /\ Gathered' = Gathered
  BY <1>1 DEF Outstanding, InHand, SamplesIn, UsedOfVersion, Unsynced, Gathered
<1>3. processor_pc' \in {"final_drain", "done", "crashed"} =>
        Cardinality(running) + SamplesIn(queue) < MaxRequiredSamples
  <2>1. CASE ProcessorReap /\ finished_failed > 0
    <3>1. Cardinality(running) + SamplesIn(queue) <= Outstanding
      BY <1>n
    <3> QED BY <1>n, <1>c, <2>1, <3>1 DEF SyncCounts
  <2>2. CASE ProcessorNothingToReap /\ ~done_tasks_bound
    <3>1. Cardinality(running) = 0 /\ finished = 0
      BY <1>n, <2>2 DEF ProcessorNothingToReap, ActiveTasks
    <3> QED BY <1>n, <2>2, <3>1 DEF SyncCounts
  <2>3. CASE \/ ProcessorReap /\ ~(finished_failed > 0)
             \/ ProcessorNothingToReap /\ done_tasks_bound
    <3>1. processor_pc' \in {"final_drain", "done", "crashed"} => processor_pc = "final_drain"
      BY <2>3 DEF ProcessorReap, ProcessorNothingToReap, ContinueAfterReap, ReapLoops,
                  AfterReap, AfterTake
    <3> QED BY <3>1 DEF SyncCounts
  <2> QED BY <2>1, <2>2, <2>3
<1>4. UsedOfVersion' + Outstanding' + finished_failed' <= staleness_samples'
  <2>1. finished_failed' \in Nat /\ finished_failed' <= finished_failed
    BY <1>n, <1>1
  <2>2. Outstanding \in Nat
    BY <1>n
  <2> QED BY <1>n, <1>c, <1>1, <1>2, <2>1, <2>2
<1>5. ~done_tasks_bound' => SamplesIn(queue)' <= finished'
  BY <1>1, <1>2 DEF SyncCounts
<1>6. Gathered' => finished' = 0 /\ finished_failed' = 0
  BY <1>1, <1>2 DEF SyncCounts
<1> QED BY <1>1, <1>2, <1>3, <1>4, <1>5, <1>6 DEF SyncCounts

(***************************************************************************)
(* While the versions differ nothing is in generation or in the queue.     *)
(***************************************************************************)
LEMMA UnsyncedIdle ==
  ASSUME SyncContext, SyncCounts
  PROVE  /\ Gathered => Unsynced
         /\ Unsynced => /\ running = {} /\ cancel_queue = << >> /\ SamplesIn(queue) = 0
                        /\ Cardinality(running) = 0 /\ Len(cancel_queue) = 0
<1>n. /\ Cardinality(InHand) \in Nat /\ Cardinality(running) \in Nat
      /\ Len(cancel_queue) \in Nat /\ SamplesIn(queue) \in Nat
      /\ Outstanding = Cardinality(InHand) + Cardinality(running) + Len(cancel_queue)
                         + SamplesIn(queue)
  BY CountSums
<1>1. Gathered => Unsynced
  <2>1. sync_pc \in {"idle", "pausing", "transfer"}
    BY DEF SyncContext, TypeInv, TypeOK, TrainerTypes
  <2>2. sync_pc # "idle" => trainer_pc = "sync"
    BY DEF SyncContext, VersionInv
  <2> QED BY <2>1, <2>2 DEF Gathered, Unsynced
<1>2. ASSUME Unsynced
      PROVE  /\ running = {} /\ cancel_queue = << >> /\ SamplesIn(queue) = 0
             /\ Cardinality(running) = 0 /\ Len(cancel_queue) = 0
  <2>1. Outstanding = 0
    BY <1>2 DEF SyncCounts
  <2>2. Cardinality(running) = 0 /\ Len(cancel_queue) = 0 /\ SamplesIn(queue) = 0
    BY <1>n, <2>1
  <2>3. IsFiniteSet(running) /\ cancel_queue \in Seq(Samples)
    BY ActiveTasksType DEF SyncContext, TypeInv, TypeOK, TaskTypes
  <2>4. running = {}
    BY <2>2, <2>3, FS_EmptySet
  <2>5. cancel_queue = << >>
    BY <2>2, <2>3, EmptySeq
  <2> QED BY <2>2, <2>4, <2>5
<1> QED BY <1>1, <1>2

\* A put into a queue with room drops nothing.
LEMMA PutFindsRoom ==
  ASSUME SyncContext, NEW e \in Entries, PutSample(e), Len(queue) < MaxRequiredSamples
  PROVE  /\ dropped_samples' = dropped_samples
         /\ Len(queue)' = Len(queue) + 1
         /\ SamplesIn(queue)' = SamplesIn(queue) + IF e.sample = None THEN 0 ELSE 1
<1>1. queue \in Seq(Entries) /\ Len(queue) \in Nat
  BY DEF SyncContext, TypeInv, TypeOK, QueueTypes
<1>2. ~QueueFull
  BY <1>1, RollouterAssumption DEF QueueFull
<1>3. dropped_samples' = dropped_samples /\ queue' = Append(queue, e)
  BY <1>2 DEF PutSample
<1>4. SamplesIn(queue)' = SamplesIn(Append(queue, e)) /\ Len(queue)' = Len(Append(queue, e))
  BY <1>3 DEF SamplesIn
<1>5. Len(Append(queue, e)) = Len(queue) + 1
  BY <1>1
<1> QED BY <1>1, <1>3, <1>4, <1>5, AppendCount

(***************************************************************************)
(* A task that puts its sample was counted, so the queue has room for it.  *)
(***************************************************************************)
LEMMA SyncTaskPut ==
  ASSUME SyncContext, SyncCounts, NEW s \in Samples, TaskPut(s),
         UNCHANGED << trainerVars, syncVars >>
  PROVE  SyncCounts'
<1>n. /\ Cardinality(InHand) \in Nat /\ Cardinality(running) \in Nat
      /\ Len(cancel_queue) \in Nat /\ SamplesIn(queue) \in Nat
      /\ staleness_samples \in Nat /\ UsedOfVersion \in Nat /\ Len(queue) \in Nat
      /\ finished \in Nat /\ finished_failed \in Nat /\ MaxRequiredSamples \in Nat \ {0}
      /\ Outstanding = Cardinality(InHand) + Cardinality(running) + Len(cancel_queue)
                         + SamplesIn(queue)
      /\ Outstanding \in Nat /\ Outstanding' \in Nat
  BY CountSums
<1>c. UsedOfVersion + Outstanding + finished_failed <= staleness_samples
  BY DEF SyncCounts
<1>1. PICK e \in putting : e.sample = s /\ PutSample(e)
  BY DEF TaskPut
<1>2. e \in Entries /\ s \in running /\ s # None
  BY <1>1 DEF SyncContext, TypeInv, TypeOK, TaskTypes, TaskStages, Stamped, Samples, None
<1>3. Cardinality(running) >= 1 /\ Cardinality(running)' = Cardinality(running) - 1
  <2>1. IsFiniteSet(running) /\ running' = running \ {s}
    BY ActiveTasksType DEF SyncContext, TypeInv, TypeOK, TaskPut
  <2>2. Cardinality(running') = Cardinality(running) - 1
    BY <1>2, <2>1, FS_RemoveElement
  <2>3. Cardinality(running) # 0
    BY <1>2, <2>1, FS_EmptySet
  <2> QED BY <1>n, <2>2, <2>3
<1>4. Len(queue) < MaxRequiredSamples
  <2>1. CASE main_pc = "stream"
    <3>1. Len(queue) <= SamplesIn(queue)
      BY <1>n, <2>1 DEF SyncCounts
    <3>2. SamplesIn(queue) < Outstanding
      BY <1>n, <1>3
    <3>3. Outstanding <= staleness_samples
      BY <1>n, <1>c, SumParts
    <3>4. staleness_samples <= MaxRequiredSamples
      BY DEF SyncCounts
    <3> QED BY <1>n, <3>1, <3>2, <3>3, <3>4
  <2>2. CASE main_pc # "stream"
    <3>1. Cardinality(running) + SamplesIn(queue) < MaxRequiredSamples
      BY <2>2 DEF SyncContext, EndInv, SyncCounts
    <3>2. Len(queue) <= SamplesIn(queue) + 1
      BY <2>2 DEF SyncCounts
    <3> QED BY <1>n, <1>3, <3>1, <3>2
  <2> QED BY <2>1, <2>2
<1>5. /\ dropped_samples' = dropped_samples /\ Len(queue)' = Len(queue) + 1
      /\ SamplesIn(queue)' = SamplesIn(queue) + 1
  BY <1>1, <1>2, <1>4, PutFindsRoom
<1>6. ~Unsynced /\ ~Gathered
  BY <1>2, UnsyncedIdle
<1>7. /\ UNCHANGED << staleness_samples, finished_failed, done_tasks_bound, rpc, processor_pc,
                      main_pc >>
      /\ finished' = finished + 1
  BY DEF TaskPut
<1>8. ~Unsynced' /\ ~Gathered' /\ UsedOfVersion' = UsedOfVersion
  BY <1>6, <1>7 DEF Unsynced, Gathered, UsedOfVersion
<1>9. UsedOfVersion' + Outstanding' + finished_failed' <= staleness_samples'
  <2>1. Outstanding' <= Outstanding
    BY MovesAddNothing DEF SyncContext, TypeInv
  <2>2. UsedOfVersion + Outstanding' + finished_failed <= staleness_samples
    BY <1>n, <1>c, <2>1, SumKept
  <2> QED BY <1>7, <1>8, <2>2, Zenon
<1>10. Len(queue)' <= SamplesIn(queue)' + IF main_pc' = "stream" THEN 0 ELSE 1
  <2>1. Len(queue) <= SamplesIn(queue) + IF main_pc = "stream" THEN 0 ELSE 1
    BY DEF SyncCounts
  <2> QED BY <1>n, <1>5, <1>7, <2>1
<1>11. Cardinality(running)' + SamplesIn(queue)' = Cardinality(running) + SamplesIn(queue)
  BY <1>n, <1>3, <1>5
<1>12. ~done_tasks_bound' => SamplesIn(queue)' <= finished'
  <2>1. ~done_tasks_bound => SamplesIn(queue) <= finished
    BY DEF SyncCounts
  <2> QED BY <1>n, <1>5, <1>7, <2>1
<1> QED BY <1>5, <1>7, <1>8, <1>9, <1>10, <1>11, <1>12 DEF SyncCounts

\* A task that was cancelled or failed is still counted.
LEMMA SyncTaskEnds ==
  ASSUME SyncContext, SyncCounts, NEW s \in Samples, TaskCancelled(s) \/ TaskFail(s),
         UNCHANGED << trainerVars, syncVars >>
  PROVE  SyncCounts'
<1>n. /\ Cardinality(InHand) \in Nat /\ Cardinality(running) \in Nat
      /\ Len(cancel_queue) \in Nat /\ SamplesIn(queue) \in Nat
      /\ staleness_samples \in Nat /\ UsedOfVersion \in Nat
      /\ finished \in Nat /\ finished_failed \in Nat /\ MaxRequiredSamples \in Nat \ {0}
      /\ Outstanding = Cardinality(InHand) + Cardinality(running) + Len(cancel_queue)
                         + SamplesIn(queue)
      /\ Outstanding' = Cardinality(InHand)' + Cardinality(running)' + Len(cancel_queue)'
                          + SamplesIn(queue)'
      /\ Outstanding \in Nat /\ Outstanding' \in Nat
  BY CountSums
<1>c. UsedOfVersion + Outstanding + finished_failed <= staleness_samples
  BY DEF SyncCounts
<1>1. s \in running /\ running' = running \ {s}
  BY DEF TaskCancelled, TaskFail, SyncContext, TypeInv, TypeOK, TaskTypes
<1>2. Cardinality(running)' = Cardinality(running) - 1
  BY <1>1, ActiveTasksType, FS_RemoveElement DEF SyncContext, TypeInv
<1>3. ~Unsynced /\ ~Gathered
  BY <1>1, UnsyncedIdle
<1>4. /\ UNCHANGED << staleness_samples, queue, dropped_samples, done_tasks_bound, rpc,
                      processor_pc, main_pc, held >>
      /\ finished' \in {finished, finished + 1}
  BY DEF TaskCancelled, TaskFail
<1>5. /\ ~Unsynced' /\ ~Gathered' /\ UsedOfVersion' = UsedOfVersion
      /\ SamplesIn(queue)' = SamplesIn(queue) /\ Cardinality(InHand)' = Cardinality(InHand)
  BY <1>3, <1>4 DEF Unsynced, Gathered, UsedOfVersion, SamplesIn, InHand
<1>6. UsedOfVersion' + Outstanding' + finished_failed' <= staleness_samples'
  <2>1. CASE TaskCancelled(s)
    <3>1. finished_failed' = finished_failed /\ Outstanding' <= Outstanding
      BY <2>1, MovesAddNothing DEF SyncContext, TypeInv, TaskCancelled
    <3>2. UsedOfVersion + Outstanding' + finished_failed <= staleness_samples
      BY <1>n, <1>c, <3>1, SumKept
    <3> QED BY <1>4, <1>5, <3>1, <3>2, Zenon
  <2>2. CASE TaskFail(s)
    <3>1. finished_failed' = finished_failed + 1 /\ Len(cancel_queue)' = Len(cancel_queue)
      BY <2>2 DEF TaskFail
    <3>2. Outstanding' = Outstanding - 1
      BY <1>n, <1>2, <1>5, <3>1
    <3>3. UsedOfVersion + Outstanding' + (finished_failed + 1) <= staleness_samples
      BY <1>n, <1>c, <3>2, SumFailed
    <3> QED BY <1>4, <1>5, <3>1, <3>3, Zenon
  <2> QED BY <2>1, <2>2
<1>7. Cardinality(running)' + SamplesIn(queue)' <= Cardinality(running) + SamplesIn(queue)
  BY <1>n, <1>2, <1>5
<1>8. processor_pc' \in {"final_drain", "done", "crashed"} =>
        Cardinality(running)' + SamplesIn(queue)' < MaxRequiredSamples
  <2>1. processor_pc \in {"final_drain", "done", "crashed"} =>
          Cardinality(running) + SamplesIn(queue) < MaxRequiredSamples
    BY DEF SyncCounts
  <2> QED BY <1>n, <1>2, <1>4, <1>5, <2>1
<1>9. ~done_tasks_bound' => SamplesIn(queue)' <= finished'
  <2>1. ~done_tasks_bound => SamplesIn(queue) <= finished
    BY DEF SyncCounts
  <2> QED BY <1>n, <1>4, <1>5, <2>1
<1> QED BY <1>4, <1>5, <1>6, <1>8, <1>9 DEF SyncCounts

(***************************************************************************)
(* The end signal: the processor has ended, so less than the limit is in   *)
(* generation and in the queue.                                            *)
(***************************************************************************)
LEMMA SyncEndSignal ==
  ASSUME SyncContext, SyncCounts, MainSendEndSignal, UNCHANGED << trainerVars, syncVars >>
  PROVE  SyncCounts'
<1>n. /\ Cardinality(running) \in Nat /\ SamplesIn(queue) \in Nat /\ Len(queue) \in Nat
      /\ staleness_samples \in Nat /\ UsedOfVersion \in Nat
      /\ finished_failed \in Nat /\ MaxRequiredSamples \in Nat \ {0}
      /\ Outstanding \in Nat /\ Outstanding' \in Nat
  BY CountSums
<1>c. UsedOfVersion + Outstanding + finished_failed <= staleness_samples
  BY DEF SyncCounts
<1> DEFINE e == Entry(None, rollout_version)
<1>1. e \in Entries /\ e.sample = None /\ PutSample(e)
  BY RollouterAssumption
  DEF MainSendEndSignal, SyncContext, TypeInv, TypeOK, ControlTypes, Entry, Entries, None
<1> HIDE DEF e
<1>2. Len(queue) <= SamplesIn(queue)
  BY <1>n DEF MainSendEndSignal, SyncCounts
<1>3. Cardinality(running) + SamplesIn(queue) < MaxRequiredSamples
  BY DEF MainSendEndSignal, SyncCounts
<1>4. Len(queue) < MaxRequiredSamples
  BY <1>n, <1>2, <1>3
<1>5. /\ dropped_samples' = dropped_samples /\ Len(queue)' = Len(queue) + 1
      /\ SamplesIn(queue)' = SamplesIn(queue) + 0
  BY <1>1, <1>4, PutFindsRoom
<1>6. SamplesIn(queue)' = SamplesIn(queue)
  BY <1>n, <1>5
<1>7. /\ UNCHANGED << staleness_samples, finished, finished_failed, done_tasks_bound, rpc,
                      running, processor_pc >>
      /\ main_pc' # "stream"
  BY DEF MainSendEndSignal
<1>8. Unsynced' = Unsynced /\ Gathered' = Gathered /\ UsedOfVersion' = UsedOfVersion
  BY <1>7 DEF Unsynced, Gathered, UsedOfVersion
<1>9. Outstanding' <= Outstanding
  BY MovesAddNothing DEF SyncContext, TypeInv
<1>10. UsedOfVersion' + Outstanding' + finished_failed' <= staleness_samples'
  <2>1. UsedOfVersion + Outstanding' + finished_failed <= staleness_samples
    BY <1>n, <1>c, <1>9, SumKept
  <2> QED BY <1>7, <1>8, <2>1, Zenon
<1>11. Len(queue)' <= SamplesIn(queue)' + 1
  BY <1>n, <1>2, <1>5, <1>6
<1>12. Unsynced' => Outstanding' = 0
  BY <1>n, <1>8, <1>9 DEF SyncCounts
<1> QED BY <1>3, <1>5, <1>6, <1>7, <1>8, <1>10, <1>11, <1>12 DEF SyncCounts

(***************************************************************************)
(* pause() discards finished tasks while the versions differ, with nothing *)
(* in the queue; the recount then counts at most the end signal.           *)
(***************************************************************************)
LEMMA SyncHandlers ==
  ASSUME SyncContext, SyncCounts, PauseBegin \/ PauseEnd \/ UpdateParamVersion \/ Resume,
         UNCHANGED << trainerVars, syncVars >>
  PROVE  SyncCounts'
<1>n. /\ Cardinality(running) \in Nat /\ SamplesIn(queue) \in Nat /\ Len(queue) \in Nat
      /\ Len(cancel_queue) \in Nat /\ staleness_samples \in Nat /\ UsedOfVersion \in Nat
      /\ finished_failed \in Nat /\ finished \in Nat /\ MaxRequiredSamples \in Nat \ {0}
  BY CountSums
<1>c. UsedOfVersion + Outstanding + finished_failed <= staleness_samples
  BY DEF SyncCounts
<1>v. sync_pc \in {"idle", "pausing", "transfer"} /\ VersionInv
  BY DEF SyncContext, TypeInv, TypeOK, TrainerTypes
<1>1. UNCHANGED << held, running, cancel_queue, queue, dropped_samples, done_tasks_bound,
                   processor_pc, main_pc >>
  BY DEF PauseBegin, PauseEnd, UpdateParamVersion, Resume, PutValidate
<1>2. /\ Outstanding' = Outstanding /\ UsedOfVersion' = UsedOfVersion
      /\ SamplesIn(queue)' = SamplesIn(queue)
  BY <1>1 DEF Outstanding, InHand, SamplesIn, UsedOfVersion
<1>3. CASE PauseBegin \/ Resume
  <2>1. UNCHANGED << finished, finished_failed, staleness_samples >> /\ rpc # "update"
        /\ rpc' # "update"
    BY <1>3 DEF PauseBegin, Resume
  <2>2. Unsynced' = Unsynced /\ ~Gathered'
    BY <1>3, <1>v, <2>1 DEF Unsynced, Gathered, VersionInv, PauseBegin, Resume
  <2> QED BY <1>1, <1>2, <2>1, <2>2 DEF SyncCounts
<1>4. CASE PauseEnd
  <2>1. /\ finished' = 0 /\ finished_failed' = 0 /\ staleness_samples' = staleness_samples
        /\ rpc = "gather" /\ rpc' = "none"
    BY <1>4 DEF PauseEnd
  <2>2. Unsynced /\ Unsynced'
    BY <1>v, <2>1 DEF Unsynced, VersionInv
  <2>3. SamplesIn(queue) = 0 /\ Outstanding = 0 /\ UsedOfVersion = 0
    BY <2>2, UnsyncedIdle DEF SyncCounts
  <2>4. UsedOfVersion' + Outstanding' + finished_failed' <= staleness_samples'
    BY <1>n, <1>2, <2>1, <2>3
  <2> QED BY <1>1, <1>2, <2>1, <2>2, <2>3, <2>4 DEF SyncCounts
<1>5. CASE UpdateParamVersion
  <2>1. /\ UNCHANGED << finished, finished_failed >> /\ staleness_samples' = RecountedSamples
        /\ rpc = "update" /\ rpc' = "resume"
    BY <1>5 DEF UpdateParamVersion
  <2>2. Unsynced /\ Gathered
    BY <2>1 DEF Unsynced, Gathered
  <2>3. /\ SamplesIn(queue) = 0 /\ Cardinality(running) = 0 /\ Len(cancel_queue) = 0
        /\ Outstanding = 0 /\ UsedOfVersion = 0 /\ finished = 0 /\ finished_failed = 0
    BY <2>2, UnsyncedIdle DEF SyncCounts
  <2>4. staleness_samples' = Len(queue)
    BY <1>n, <2>1, <2>3 DEF RecountedSamples, ActiveTasks
  <2>5. Len(queue) <= SamplesIn(queue) + IF main_pc = "stream" THEN 0 ELSE 1
    BY DEF SyncCounts
  <2>6. Len(queue) <= 1 /\ (main_pc = "stream" => Len(queue) = 0)
    BY <1>n, <2>3, <2>5
  <2>7. staleness_samples' <= MaxRequiredSamples
        /\ (processor_pc' = "get" => staleness_samples' < MaxRequiredSamples)
    <3>1. processor_pc' = "get" => main_pc = "stream"
      BY <1>1 DEF SyncContext, EndInv
    <3> QED BY <1>n, <2>4, <2>6, <3>1
  <2>8. ~Unsynced' /\ ~Gathered'
    BY <1>v, <2>1 DEF Unsynced, Gathered, VersionInv, SyncCounts
  <2>9. UsedOfVersion' + Outstanding' + finished_failed' <= staleness_samples'
    BY <1>n, <1>2, <2>1, <2>3, <2>4
  <2> QED BY <1>1, <1>2, <2>1, <2>7, <2>8, <2>9 DEF SyncCounts
<1> QED BY <1>3, <1>4, <1>5

(***************************************************************************)
(* The Trainer takes a sample: one used more, one outstanding less.        *)
(***************************************************************************)
LEMMA SyncGet ==
  ASSUME SyncContext, ConservationInv, SyncCounts, TrainerGetSample \/ TrainerGetEndSignal
  PROVE  SyncCounts'
<1>n. /\ Cardinality(InHand) \in Nat /\ Cardinality(running) \in Nat
      /\ Len(cancel_queue) \in Nat /\ SamplesIn(queue) \in Nat
      /\ staleness_samples \in Nat /\ UsedOfVersion \in Nat /\ Len(queue) \in Nat
      /\ finished \in Nat /\ finished_failed \in Nat /\ MaxRequiredSamples \in Nat \ {0}
      /\ Outstanding = Cardinality(InHand) + Cardinality(running) + Len(cancel_queue)
                         + SamplesIn(queue)
      /\ Outstanding' = Cardinality(InHand)' + Cardinality(running)' + Len(cancel_queue)'
                          + SamplesIn(queue)'
      /\ Outstanding \in Nat /\ Outstanding' \in Nat
  BY CountSums
<1>c. UsedOfVersion + Outstanding + finished_failed <= staleness_samples
  BY DEF SyncCounts
<1>1. GetSample
  BY DEF TrainerGetSample, TrainerGetEndSignal
<1>2. queue \in Seq(Entries) /\ queue # << >> /\ queue' = Tail(queue)
      /\ dropped_samples' = dropped_samples
  BY <1>1 DEF GetSample, SyncContext, TypeInv, TypeOK, QueueTypes
<1>3. UNCHANGED << staleness_samples, finished, finished_failed, done_tasks_bound, rpc,
                   sync_pc, running, processor_pc, main_pc, held, cancel_queue,
                   local_trigger_step >>
  BY DEF TrainerGetSample, TrainerGetEndSignal
<1>4. /\ Gathered' = Gathered /\ Cardinality(InHand)' = Cardinality(InHand)
      /\ Unsynced <=> rpc = "update"
      /\ Unsynced' <=> rpc = "update"
      /\ trainer_pc' # "wait_last_valid"
  BY <1>3 DEF Gathered, Unsynced, InHand, TrainerGetSample, TrainerGetEndSignal
<1>5. Len(queue)' = Len(queue) - 1
  <2>1. Len(Tail(queue)) = Len(queue) - 1
    BY <1>2, TailEntries
  <2> QED BY <1>2, <2>1
<1>6. SamplesIn(queue) = SamplesIn(queue)' + IF Head(queue).sample = None THEN 0 ELSE 1
  <2>1. SamplesIn(queue)' = SamplesIn(Tail(queue))
    BY <1>2 DEF SamplesIn
  <2> QED BY <1>2, <2>1, TailCount
<1>7. SamplesIn(queue)' \in Nat /\ SamplesIn(queue)' <= SamplesIn(queue)
  <2>1. SamplesIn(queue)' \in Nat
    BY CountSums
  <2> QED BY <1>n, <1>6, <2>1
<1>8. UsedOfVersion' + Outstanding' + finished_failed' <= staleness_samples'
  <2>1. CASE TrainerGetSample
    <3>1. Head(queue).sample # None /\ batch' = batch \cup {Head(queue)}
      BY <2>1 DEF TrainerGetSample
    <3>2. Head(queue) \notin batch
      BY <1>1, <3>1, HeadFresh DEF SyncContext
    <3>3. Cardinality(batch') = Cardinality(batch) + 1 /\ Cardinality(batch) \in Nat
      BY <3>1, <3>2, FS_AddElement, FS_CardinalityType DEF SyncContext, BatchInv
    <3>4. (local_trigger_step - 1) * RequiredSamples \in Nat
      BY FullyAsyncAssumption DEF SyncContext, TypeInv, TypeOK, TrainerTypes
    <3>5. UsedOfVersion' = UsedOfVersion + 1
      BY <1>3, <3>3, <3>4 DEF UsedOfVersion
    <3>6. Outstanding' = Outstanding - 1
      <4>1. SamplesIn(queue) = SamplesIn(queue)' + 1
        BY <1>6, <3>1
      <4> QED BY <1>n, <1>3, <1>4, <1>7, <4>1
    <3>7. (UsedOfVersion + 1) + Outstanding' + finished_failed <= staleness_samples
      BY <1>n, <1>c, <3>6, SumUsed
    <3> QED BY <1>3, <3>5, <3>7, Zenon
  <2>2. CASE TrainerGetEndSignal
    <3>1. UsedOfVersion' = UsedOfVersion
      BY <2>2 DEF TrainerGetEndSignal, UsedOfVersion
    <3>2. Outstanding' <= Outstanding
      BY <2>2, MovesAddNothing DEF SyncContext, TypeInv
    <3>3. UsedOfVersion + Outstanding' + finished_failed <= staleness_samples
      BY <1>n, <1>c, <3>2, SumKept
    <3> QED BY <1>3, <3>1, <3>3, Zenon
  <2> QED BY <2>1, <2>2
<1>9. Unsynced' => staleness_samples' = MaxRequiredSamples /\ Outstanding' = 0 /\ UsedOfVersion' = 0
  <2> SUFFICES ASSUME Unsynced' PROVE staleness_samples' = MaxRequiredSamples /\ Outstanding' = 0 /\ UsedOfVersion' = 0
    OBVIOUS
  <2>1. Unsynced /\ SamplesIn(queue) = 0
    BY <1>4, UnsyncedIdle
  <2>2. Head(queue).sample = None
    BY <1>6, <1>7, <2>1
  <2>3. UsedOfVersion' = UsedOfVersion
    BY <2>2 DEF TrainerGetSample, TrainerGetEndSignal, UsedOfVersion
  <2>4. Outstanding' <= Outstanding
    BY MovesAddNothing DEF SyncContext, TypeInv
  <2> QED BY <1>n, <1>3, <2>1, <2>3, <2>4 DEF SyncCounts
<1>10. Len(queue)' <= SamplesIn(queue)' + IF main_pc' = "stream" THEN 0 ELSE 1
  <2>1. CASE Head(queue).sample # None
    <3>1. SamplesIn(queue) = SamplesIn(queue)' + 1
      BY <1>6, <2>1
    <3>2. Len(queue) <= SamplesIn(queue) + IF main_pc = "stream" THEN 0 ELSE 1
      BY DEF SyncCounts
    <3> QED BY <1>n, <1>3, <1>5, <1>7, <3>1, <3>2
  <2>2. CASE Head(queue).sample = None
    <3>1. SamplesIn(queue)' = SamplesIn(queue)
      BY <1>6, <1>7, <2>2
    <3>2. Len(queue) <= SamplesIn(queue) + 1
      BY <1>n DEF SyncCounts
    <3> QED BY <1>n, <1>5, <1>7, <3>1, <3>2
  <2> QED BY <2>1, <2>2
<1>11. processor_pc' \in {"final_drain", "done", "crashed"} =>
         Cardinality(running)' + SamplesIn(queue)' < MaxRequiredSamples
  <2>1. processor_pc \in {"final_drain", "done", "crashed"} =>
          Cardinality(running) + SamplesIn(queue) < MaxRequiredSamples
    BY DEF SyncCounts
  <2> QED BY <1>n, <1>3, <1>7, <2>1
<1>12. ~done_tasks_bound' => SamplesIn(queue)' <= finished'
  <2>1. ~done_tasks_bound => SamplesIn(queue) <= finished
    BY DEF SyncCounts
  <2> QED BY <1>n, <1>3, <1>7, <2>1
<1> QED BY <1>2, <1>3, <1>4, <1>8, <1>9, <1>10, <1>11, <1>12 DEF SyncCounts

(***************************************************************************)
(* The update that raises the version has used all the counter counted.    *)
(***************************************************************************)
LEMMA SyncUpdate ==
  ASSUME Synchronous, SyncContext, SyncCounts, TrainerUpdate
  PROVE  /\ SyncCounts' /\ ~Unsynced /\ batch' = {}
         /\ train_version' # train_version => Outstanding = 0
<1>n. /\ staleness_samples \in Nat /\ UsedOfVersion \in Nat /\ Outstanding \in Nat
      /\ finished_failed \in Nat /\ MaxRequiredSamples \in Nat \ {0}
      /\ RequiredSamples \in Nat \ {0} /\ TriggerParameterSyncStep \in Nat \ {0}
      /\ local_trigger_step \in 1..TriggerParameterSyncStep
  BY CountSums, FullyAsyncAssumption DEF SyncContext, TypeInv, TypeOK, TrainerTypes
<1>c. UsedOfVersion + Outstanding + finished_failed <= staleness_samples
  BY DEF SyncCounts
<1>1. /\ UNCHANGED << staleness_samples, held, running, cancel_queue, queue, dropped_samples,
                      finished, finished_failed, done_tasks_bound, rpc, sync_pc,
                      processor_pc, main_pc >>
      /\ trainer_pc = "update" /\ batch' = {}
  BY DEF TrainerUpdate
<1>2. /\ Outstanding' = Outstanding /\ SamplesIn(queue)' = SamplesIn(queue)
      /\ Gathered' = Gathered
  BY <1>1 DEF Outstanding, InHand, SamplesIn, Gathered
<1>3. Cardinality(batch) = RequiredSamples /\ Cardinality(batch') = 0
  BY <1>1, FS_EmptySet DEF SyncContext, BatchInv
<1>4. UsedOfVersion = (local_trigger_step - 1) * RequiredSamples + RequiredSamples
      /\ (local_trigger_step - 1) * RequiredSamples \in Nat
  BY <1>n, <1>3 DEF UsedOfVersion
<1>5. ~Unsynced /\ rpc # "update"
  <2>1. UsedOfVersion # 0
    BY <1>n, <1>4
  <2>2. ~Unsynced
    BY <2>1 DEF SyncCounts
  <2> QED BY <2>2 DEF Unsynced
<1>6. CASE local_trigger_step < TriggerParameterSyncStep
  <2>1. /\ local_trigger_step' = local_trigger_step + 1 /\ trainer_pc' = "log"
        /\ train_version' = train_version
    BY <1>6 DEF TrainerUpdate, NextLocalStep
  <2>2. (local_trigger_step' - 1) * RequiredSamples
          = (local_trigger_step - 1) * RequiredSamples + RequiredSamples
    BY <1>n, <2>1, NextStepUsed
  <2>3. UsedOfVersion' = (local_trigger_step' - 1) * RequiredSamples + Cardinality(batch')
    BY DEF UsedOfVersion
  <2>4. UsedOfVersion' = UsedOfVersion
    BY <1>n, <1>3, <1>4, <2>2, <2>3
  <2>5. ~Unsynced'
    BY <1>1, <1>5, <2>1 DEF Unsynced
  <2> QED BY <1>1, <1>2, <1>5, <2>1, <2>4, <2>5 DEF SyncCounts
<1>7. CASE ~(local_trigger_step < TriggerParameterSyncStep)
  <2>1. local_trigger_step' = 1 /\ trainer_pc' = "wait_last_valid"
        /\ local_trigger_step = TriggerParameterSyncStep
    BY <1>n, <1>7 DEF TrainerUpdate, NextLocalStep
  <2>2. UsedOfVersion = MaxRequiredSamples
    <3>1. (TriggerParameterSyncStep - 1) * RequiredSamples + RequiredSamples
            = RequiredSamples * TriggerParameterSyncStep
      BY <1>n
    <3> QED BY <1>4, <2>1, <3>1 DEF Synchronous, SamplesPerVersion
  <2>3. staleness_samples <= MaxRequiredSamples
    BY DEF SyncCounts
  <2>4. Outstanding = 0 /\ finished_failed = 0 /\ staleness_samples = MaxRequiredSamples
    BY <1>n, <1>c, <2>2, <2>3
  <2>5. UsedOfVersion' = 0
    <3>1. UsedOfVersion' = (1 - 1) * RequiredSamples + 0
      BY <1>3, <2>1 DEF UsedOfVersion
    <3> QED BY <1>n, <3>1
  <2>6. UsedOfVersion' + Outstanding' + finished_failed' <= staleness_samples'
    BY <1>n, <1>1, <1>2, <2>4, <2>5
  <2> QED BY <1>1, <1>2, <1>5, <2>1, <2>4, <2>5, <2>6 DEF SyncCounts
<1> QED BY <1>1, <1>5, <1>6, <1>7

(***************************************************************************)
(* The rest of a synchronization moves no sample.                          *)
(***************************************************************************)
LEMMA SyncStages ==
  ASSUME SyncContext, SyncCounts, TrainerSync \/ SyncUpdateQueue \/ SyncRelease
  PROVE  SyncCounts'
<1>v. sync_pc \in {"idle", "pausing", "transfer"} /\ VersionInv
  BY DEF SyncContext, TypeInv, TypeOK, TrainerTypes
<1>1. UNCHANGED << staleness_samples, held, running, cancel_queue, queue, dropped_samples,
                   finished, finished_failed, done_tasks_bound, processor_pc, main_pc,
                   local_trigger_step, batch >>
  BY DEF TrainerSync, SyncUpdateQueue, SyncRelease, UpdateQueueVersion
<1>2. /\ Outstanding' = Outstanding /\ UsedOfVersion' = UsedOfVersion
      /\ SamplesIn(queue)' = SamplesIn(queue)
  BY <1>1 DEF Outstanding, InHand, SamplesIn, UsedOfVersion
<1>3. /\ Unsynced
      /\ Gathered' => Gathered
      /\ trainer_pc' # "wait_last_valid"
  BY <1>v DEF Unsynced, Gathered, VersionInv, TrainerSync, SyncUpdateQueue, SyncRelease,
              LastSyncOver
<1> QED BY <1>1, <1>2, <1>3 DEF SyncCounts

(***************************************************************************)
(* SyncCounts is inductive, next to the invariants of SyncContext.         *)
(***************************************************************************)
CountingActions ==
  \/ ProcessorTakePending \/ ProcessorTakeDone \/ ProcessorTakeCancelled \/ ProcessorSubmit
  \/ ProcessorReap \/ ProcessorNothingToReap \/ MainSendEndSignal
  \/ PauseBegin \/ PauseEnd \/ UpdateParamVersion \/ Resume
  \/ \E s \in Samples : TaskPut(s) \/ TaskCancelled(s) \/ TaskFail(s)

LEMMA CountFrames ==
  ASSUME [Next]_vars
  PROVE  \/ CountingActions /\ UNCHANGED << trainerVars, syncVars >>
         \/ TrainerGetSample \/ TrainerGetEndSignal \/ TrainerUpdate
         \/ TrainerSync \/ SyncUpdateQueue \/ SyncRelease
         \/ /\ TrainerLog \/ TrainerFinish
            /\ UNCHANGED << staleness_samples, rollouterVars, queue, dropped_samples, sync_pc,
                            local_trigger_step, batch >>
         \/ /\ UNCHANGED Counted
            /\ main_pc' = "stream" <=> main_pc = "stream"
            /\ \/ ProcessorAwaitPending
               \/ processor_pc' = processor_pc
               \/ processor_pc' \notin {"get", "final_drain", "done", "crashed"}
<1> USE DEF Next, RollouterNext, Feeder, Processor, Task, Server, Monitor, Main, Handlers,
            Trainer, Synchronizer, Ended, Counted
<1> USE DEF FeedSample, FeedDone, ProcessorMustPause, ProcessorAwaitPending, ProcessorSetPause,
            ProcessorWaitCondition, ProcessorWoken, ProcessorResumed, TaskStamp, ServerAdmit,
            ServerInterrupt, MonitorCheck, MonitorResume, MonitorStop, MainStop, RpcArrive,
            TrainerLog, TrainerFinish, GetValidate, AfterReap
<1> QED BY SMTT(60) DEF CountingActions

LEMMA SyncCountsNext ==
  ASSUME Synchronous, SyncContext, ConservationInv, SyncCounts, [Next]_vars
  PROVE  SyncCounts'
<1>1. CASE CountingActions /\ UNCHANGED << trainerVars, syncVars >>
  BY <1>1, SyncTakePending, SyncSubmit, SyncReap, SyncTaskPut, SyncTaskEnds, SyncEndSignal,
     SyncHandlers DEF CountingActions
<1>2. CASE \/ TrainerGetSample \/ TrainerGetEndSignal \/ TrainerUpdate
           \/ TrainerSync \/ SyncUpdateQueue \/ SyncRelease
  BY <1>2, SyncGet, SyncUpdate, SyncStages
<1>3. CASE /\ TrainerLog \/ TrainerFinish
           /\ UNCHANGED << staleness_samples, rollouterVars, queue, dropped_samples, sync_pc,
                           local_trigger_step, batch >>
  <2>1. /\ UNCHANGED << staleness_samples, held, running, cancel_queue, queue,
                        dropped_samples, finished, finished_failed, done_tasks_bound, rpc,
                        sync_pc, local_trigger_step, batch, processor_pc, main_pc >>
        /\ trainer_pc \notin {"wait_last_valid", "sync"}
        /\ trainer_pc' \notin {"wait_last_valid", "sync"}
    BY <1>3 DEF TrainerLog, TrainerFinish
  <2>2. /\ Outstanding' = Outstanding /\ UsedOfVersion' = UsedOfVersion
        /\ SamplesIn(queue)' = SamplesIn(queue)
        /\ Unsynced' = Unsynced /\ Gathered' = Gathered
    BY <2>1 DEF Outstanding, InHand, SamplesIn, UsedOfVersion, Unsynced, Gathered
  <2> QED BY <2>1, <2>2 DEF SyncCounts
<1>4. CASE /\ UNCHANGED Counted
           /\ main_pc' = "stream" <=> main_pc = "stream"
           /\ \/ ProcessorAwaitPending
              \/ processor_pc' = processor_pc
              \/ processor_pc' \notin {"get", "final_drain", "done", "crashed"}
  <2>1. CASE ProcessorAwaitPending
    <3>1. staleness_samples < MaxRequiredSamples
      <4>1. staleness_samples \in Nat /\ MaxRequiredSamples \in Nat
        BY CountSums
      <4> QED BY <2>1, <4>1 DEF ProcessorAwaitPending, ShouldPause
    <3>2. processor_pc' = "get" /\ UNCHANGED Counted /\ UNCHANGED main_pc
      BY <2>1, <1>4 DEF ProcessorAwaitPending
    <3>3. /\ Outstanding' = Outstanding /\ UsedOfVersion' = UsedOfVersion
          /\ SamplesIn(queue)' = SamplesIn(queue)
          /\ Unsynced' = Unsynced /\ Gathered' = Gathered
      BY <3>2 DEF Counted, Outstanding, InHand, SamplesIn, UsedOfVersion, Unsynced, Gathered
    <3> QED BY <3>1, <3>2, <3>3 DEF SyncCounts, Counted
  <2>2. CASE ~ProcessorAwaitPending
    BY <1>4, <2>2, CountsKept
  <2> QED BY <2>1, <2>2
<1> QED BY <1>1, <1>2, <1>3, <1>4, CountFrames

-----------------------------------------------------------------------------
(* The versions.                                                           *)

\* Which actions SyncVersions depends on.
LEMMA SampleFrames ==
  ASSUME [Next]_vars
  PROVE  \/ /\ MainSendEndSignal \/ \E s \in Samples : TaskStamp(s) \/ TaskPut(s)
            /\ UNCHANGED << trainerVars, syncVars >>
         \/ TrainerGetSample \/ TrainerGetEndSignal \/ TrainerUpdate
         \/ UNCHANGED << batch, putting, queue, train_version >>
<1>1. CASE Trainer \/ Synchronizer
  BY <1>1 DEF Trainer, Synchronizer, TrainerSync, TrainerLog, TrainerFinish, GetValidate,
              SyncUpdateQueue, UpdateQueueVersion, SyncRelease
<1>2. CASE ~(Trainer \/ Synchronizer)
  <2>1. UNCHANGED << trainerVars, syncVars >>
    BY <1>2, Frames
  <2>2. \/ MainSendEndSignal \/ \E s \in Samples : TaskStamp(s) \/ TaskPut(s)
        \/ UNCHANGED << putting, queue >>
    <3>1. MainSendEndSignal \/ (\E s \in Samples : TaskPut(s)) \/ UNCHANGED queue
      BY <1>2, Frames DEF QueueActions, Trainer, Synchronizer, UpdateParamVersion, PutValidate
    <3>2. (\E s \in Samples : TaskStamp(s) \/ TaskPut(s)) \/ UNCHANGED putting
      BY <1>2, GenerationFrames DEF GenerationActions, Trainer, PauseBegin, PauseEnd,
         UpdateParamVersion, Resume, TaskFail, ServerAdmit, ServerInterrupt
    <3> QED BY <3>1, <3>2
  <2> QED BY <2>1, <2>2
<1> QED BY <1>1, <1>2

LEMMA SyncVersionsNext ==
  ASSUME Synchronous, SyncContext, ConservationInv, SyncCounts, SyncVersions, [Next]_vars
  PROVE  SyncVersions'
<1>t. /\ queue \in Seq(Entries) /\ putting \subseteq Entries /\ generating \subseteq running
      /\ sync_pc \in {"idle", "pausing", "transfer"}
      /\ \A e \in putting : e.sample \in running
  BY DEF SyncContext, TypeInv, TypeOK, QueueTypes, TaskTypes, TrainerTypes, TaskStages, Stamped
<1>1. ASSUME NEW s \in Samples, TaskStamp(s), UNCHANGED << trainerVars, syncVars >>
      PROVE  SyncVersions'
  <2>1. s \in running /\ putting' = putting \cup {Entry(s, rollout_version)} /\ UNCHANGED queue
    BY <1>t, <1>1 DEF TaskStamp
  <2>2. ~Unsynced
    BY <2>1, UnsyncedIdle
  <2>3. rollout_version = train_version
    BY <1>t, <2>2 DEF Unsynced, SyncContext, VersionInv
  <2> QED BY <1>1, <2>1, <2>3 DEF SyncVersions, Entry
<1>2. ASSUME NEW e \in Entries, PutSample(e), e.sample # None => e.version = train_version,
             putting' \subseteq putting, UNCHANGED << trainerVars, syncVars >>
      PROVE  SyncVersions'
  <2>1. /\ Len(queue) \in Nat /\ DOMAIN queue = 1..Len(queue) /\ Overwritten \in 0..1
        /\ Len(queue') = Len(queue) - Overwritten + 1
        /\ DOMAIN queue' = 1..Len(queue')
        /\ queue'[Len(queue')] = e
        /\ \A i \in 1..(Len(queue') - 1) : queue'[i] = queue[i + Overwritten]
    BY <1>t, <1>2, PutEntries
  <2>2. ASSUME NEW i \in DOMAIN queue', queue'[i].sample # None
        PROVE  queue'[i].version = train_version
    <3>1. CASE i = Len(queue')
      BY <1>2, <2>1, <2>2, <3>1
    <3>2. CASE i # Len(queue')
      <4>1. i + Overwritten \in DOMAIN queue /\ queue'[i] = queue[i + Overwritten]
        BY <2>1, <3>2
      <4> QED BY <2>2, <4>1 DEF SyncVersions
    <3> QED BY <3>1, <3>2
  <2> QED BY <1>2, <2>2 DEF SyncVersions
<1>3. ASSUME NEW s \in Samples, TaskPut(s), UNCHANGED << trainerVars, syncVars >>
      PROVE  SyncVersions'
  <2>1. PICK e \in putting : PutSample(e) /\ putting' = putting \ {e}
    BY <1>3 DEF TaskPut
  <2>2. e \in Entries /\ e.version = train_version
    BY <1>t, <2>1 DEF SyncVersions
  <2> QED BY <1>2, <1>3, <2>1, <2>2
<1>4. CASE MainSendEndSignal /\ UNCHANGED << trainerVars, syncVars >>
  <2> DEFINE e == Entry(None, rollout_version)
  <2>1. e \in Entries /\ e.sample = None /\ PutSample(e) /\ putting' = putting
    BY <1>4, RollouterAssumption
    DEF MainSendEndSignal, SyncContext, TypeInv, TypeOK, ControlTypes, Entry, Entries, None
  <2> HIDE DEF e
  <2> QED BY <1>2, <1>4, <2>1
<1>5. CASE TrainerGetSample \/ TrainerGetEndSignal
  <2>1. /\ queue # << >> /\ queue' = Tail(queue) /\ UNCHANGED << putting, train_version >>
        /\ \/ batch' = batch
           \/ batch' = batch \cup {Head(queue)} /\ Head(queue).sample # None
    BY <1>5 DEF TrainerGetSample, TrainerGetEndSignal, GetSample
  <2>2. /\ Len(queue) \in Nat \ {0} /\ DOMAIN queue = 1..Len(queue) /\ Head(queue) = queue[1]
        /\ DOMAIN queue' = 1..(Len(queue) - 1)
        /\ \A i \in 1..(Len(queue) - 1) : queue'[i] = queue[i + 1]
    BY <1>t, <2>1, TailEntries
  <2>3. Head(queue).sample # None => Head(queue).version = train_version
    <3>1. 1 \in DOMAIN queue
      BY <2>2
    <3> QED BY <2>2, <3>1 DEF SyncVersions
  <2>4. ASSUME NEW i \in DOMAIN queue', queue'[i].sample # None
        PROVE  queue'[i].version = train_version
    <3>1. i + 1 \in DOMAIN queue /\ queue'[i] = queue[i + 1]
      BY <2>2
    <3> QED BY <2>4, <3>1 DEF SyncVersions
  <2> QED BY <2>1, <2>3, <2>4 DEF SyncVersions
<1>6. CASE TrainerUpdate
  <2>1. UNCHANGED << putting, queue >> /\ batch' = {}
    BY <1>6 DEF TrainerUpdate
  <2>2. CASE train_version' = train_version
    BY <2>1, <2>2 DEF SyncVersions
  <2>3. CASE train_version' # train_version
    <3>1. Outstanding = 0
      BY <1>6, <2>3, SyncUpdate
    <3>2. Cardinality(running) = 0 /\ SamplesIn(queue) = 0
      <4>1. /\ Cardinality(InHand) \in Nat /\ Cardinality(running) \in Nat
            /\ Len(cancel_queue) \in Nat /\ SamplesIn(queue) \in Nat
            /\ Outstanding = Cardinality(InHand) + Cardinality(running) + Len(cancel_queue)
                               + SamplesIn(queue)
        BY CountSums
      <4> QED BY <3>1, <4>1
    <3>3. putting = {}
      <4>1. running = {}
        BY <3>2, ActiveTasksType, FS_EmptySet DEF SyncContext, TypeInv
      <4> QED BY <1>t, <4>1
    <3>4. \A i \in DOMAIN queue : queue[i].sample = None
      BY <1>t, <3>2, NoSamples
    <3> QED BY <2>1, <3>3, <3>4 DEF SyncVersions
  <2> QED BY <2>2, <2>3
<1>7. CASE UNCHANGED << batch, putting, queue, train_version >>
  BY <1>7 DEF SyncVersions
<1> QED BY <1>1, <1>3, <1>4, <1>5, <1>6, <1>7, SampleFrames

LEMMA SyncInvInit == Init => SyncInv
<1> SUFFICES ASSUME Init PROVE SyncCounts /\ SyncVersions
  BY DEF SyncInv
<1>1. /\ queue = << >> /\ DOMAIN queue = {} /\ batch = {} /\ putting = {} /\ running = {}
      /\ InHand = {} /\ cancel_queue = << >> /\ local_trigger_step = 1
  BY DEF Init, MQInit, RollouterInit, InHand
<1>2. SamplesIn(queue) = 0 /\ Cardinality(running) = 0 /\ Cardinality(InHand) = 0
      /\ Cardinality(batch) = 0 /\ Len(queue) = 0 /\ Len(cancel_queue) = 0
  <2>1. {i \in DOMAIN queue : queue[i].sample # None} = {}
    BY <1>1
  <2>2. SamplesIn(queue) = 0
    BY <2>1, FS_EmptySet DEF SamplesIn
  <2> QED BY <1>1, <2>2, FS_EmptySet
<1>3. Outstanding = 0
  BY <1>2 DEF Outstanding
<1>4. UsedOfVersion = 0
  BY <1>1, <1>2, FullyAsyncAssumption DEF UsedOfVersion
<1>5. SyncVersions
  BY <1>1 DEF SyncVersions
<1>6. /\ staleness_samples = 0 /\ processor_pc = "top" /\ finished = 0 /\ finished_failed = 0
      /\ rpc = "none" /\ sync_pc = "idle" /\ trainer_pc = "collect" /\ main_pc = "stream"
      /\ dropped_samples = 0
  BY DEF Init, MQInit, RollouterInit
<1>7. ~Unsynced /\ ~Gathered
  BY <1>6 DEF Unsynced, Gathered
<1> QED BY <1>2, <1>3, <1>4, <1>5, <1>6, <1>7, RollouterAssumption DEF SyncCounts

LEMMA SyncInvNext ==
  ASSUME SyncContext, ConservationInv, SyncInv, [Next]_vars
  PROVE  SyncInv'
<1>1. Synchronous' <=> Synchronous
  BY DEF Synchronous, SamplesPerVersion
<1> QED BY <1>1, SyncCountsNext, SyncVersionsNext DEF SyncInv

LEMMA SyncInvariant == Spec => []SyncInv
<1>1. /\ TypeInv /\ TypeInv' /\ BatchInv /\ BatchInv'
      /\ VersionInv /\ EndInv /\ HandEmpty
      => SyncContext
  BY DEF SyncContext
<1>2. SyncContext /\ ConservationInv /\ SyncInv /\ [Next]_vars => SyncInv'
  BY SyncInvNext
<1> QED BY <1>1, <1>2, SyncInvInit, TypeInvariant, BatchInvariant, VersionInvariant, EndInvariant,
           HandEmptyInvariant, ConservationInvariant, PTL DEF Spec

(***************************************************************************)
(* Without staleness the Trainer trains on samples of its own version      *)
(* alone, and the message queue never drops a sample.                      *)
(***************************************************************************)
THEOREM SynchronousCorrect == Spec => []SynchronousTraining
<1>1. SyncInv => SynchronousTraining
  BY DEF SyncInv, SyncCounts, SyncVersions, Synchronous, SynchronousTraining
<1> QED BY <1>1, SyncInvariant, PTL

=============================================================================
