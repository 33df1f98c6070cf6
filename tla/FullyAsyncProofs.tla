-------------------------- MODULE FullyAsyncProofs --------------------------
(***************************************************************************)
(* Proofs about FullyAsync, for every number of samples, limits, failures  *)
(* and both rollout modes: the types, the bound on concurrent generation,  *)
(* the absence of lost wake-ups, the version handshake, and the stream of  *)
(* samples: no validation record is left unread, the end signal is the     *)
(* last entry, and every sample is in exactly one place or dropped.        *)
(*                                                                         *)
(* The invariants are proved one after the other, each with the help of    *)
(* those before it.  Frames says which actions touch which variables, so   *)
(* a proof looks only at the actions that can disturb its invariant.       *)
(***************************************************************************)
EXTENDS FullyAsyncProperties, FiniteSetTheorems, FunctionTheorems, SequenceTheorems, TLAPS

USE DEF vars, mqVars, rollouterVars, feedVars, processorVars, taskVars, controlVars,
        driverVars, rpcVars, trainerVars, syncVars

(***************************************************************************)
(* Which actions touch the queue, the processor, the tasks, the control    *)
(* variables, the lock, and the Trainer with its synchronizer.             *)
(***************************************************************************)
QueueActions ==
  \/ TrainerGetSample \/ TrainerGetEndSignal \/ TrainerLog \/ TrainerFinish
  \/ SyncUpdateQueue \/ UpdateParamVersion \/ MainSendEndSignal
  \/ \E s \in Samples : TaskPut(s)

TaskActions ==
  \/ ProcessorTakeCancelled \/ ProcessorReap \/ ProcessorSubmit \/ PauseEnd
  \/ \E s \in Samples : Task(s) \/ Server(s)

ProcessorActions == Feeder \/ Processor \/ MonitorResume \/ Resume

ControlActions ==
  \/ ProcessorTakePending \/ ProcessorTakeDone \/ ProcessorSetPause
  \/ Monitor \/ Main \/ Handlers \/ TrainerSync \/ SyncRelease

LockActions == Processor \/ Monitor \/ Main \/ Handlers

PauseActions ==
  MonitorResume \/ Resume \/ ProcessorWaitCondition \/ ProcessorSetPause \/ PauseBegin

VersionActions ==
  Trainer \/ Synchronizer \/ PauseBegin \/ PauseEnd \/ UpdateParamVersion \/ Resume

FreshnessActions ==
  \/ ProcessorTakePending \/ ProcessorTakeDone \/ ProcessorTakeCancelled
  \/ ProcessorAwaitPending \/ ProcessorSubmit \/ MainSendEndSignal \/ UpdateParamVersion
  \/ TrainerGetSample \/ TrainerGetEndSignal
  \/ \E s \in Samples : TaskPut(s) \/ TaskCancelled(s) \/ TaskFail(s)

LEMMA Frames ==
  ASSUME [Next]_vars
  PROVE  /\ QueueActions \/ UNCHANGED mqVars
         /\ TaskActions \/ UNCHANGED taskVars
         /\ ProcessorActions \/ UNCHANGED << feedVars, processorVars >>
         /\ ControlActions \/ UNCHANGED << controlVars, driverVars, rpcVars, servers_paused >>
         /\ LockActions \/ UNCHANGED lock_queue
         /\ Trainer \/ Synchronizer \/ UNCHANGED << trainerVars, syncVars >>
         /\ PauseActions \/ UNCHANGED << condition_wait, paused >>
         /\ VersionActions \/ UNCHANGED << trainer_pc, train_version, syncVars, rpcVars,
                                           rollout_version, mq_param_version >>
         /\ \/ FreshnessActions
            \/ /\ UNCHANGED << held, running, cancel_queue, queue, staleness_samples >>
               /\ processor_pc' = "get" => processor_pc = "get"
<1> USE DEF Next, RollouterNext, Feeder, Processor, Task, Server, Monitor, Main, Handlers,
            Trainer, Synchronizer, Ended
<1> USE DEF FeedSample, FeedDone, ProcessorMustPause, ProcessorTakeCancelled,
            ProcessorAwaitPending, ProcessorTakePending, ProcessorTakeDone, ProcessorSetPause,
            ProcessorReap, ProcessorNothingToReap, ProcessorWaitCondition, ProcessorWoken,
            ProcessorResumed, ProcessorSubmit, TaskStamp, TaskPut, TaskCancelled, TaskFail,
            ServerAdmit, ServerInterrupt, MonitorCheck, MonitorResume, MonitorStop,
            MainSendEndSignal, MainStop, RpcArrive, PauseBegin, PauseEnd, UpdateParamVersion,
            Resume, TrainerGetSample, TrainerGetEndSignal, TrainerUpdate, TrainerSync,
            TrainerLog, TrainerFinish, SyncUpdateQueue, SyncRelease
<1>1. QueueActions \/ UNCHANGED mqVars
  BY SMTT(60) DEF QueueActions
<1>2. TaskActions \/ UNCHANGED taskVars
  BY SMTT(60) DEF TaskActions
<1>3. ProcessorActions \/ UNCHANGED << feedVars, processorVars >>
  BY SMTT(60) DEF ProcessorActions
<1>4. ControlActions \/ UNCHANGED << controlVars, driverVars, rpcVars, servers_paused >>
  BY SMTT(60) DEF ControlActions
<1>5. LockActions \/ UNCHANGED lock_queue
  BY SMTT(60) DEF LockActions
<1>6. Trainer \/ Synchronizer \/ UNCHANGED << trainerVars, syncVars >>
  BY SMTT(60)
<1>7. PauseActions \/ UNCHANGED << condition_wait, paused >>
  BY SMTT(60) DEF PauseActions
<1>8. VersionActions \/ UNCHANGED << trainer_pc, train_version, syncVars, rpcVars,
                                     rollout_version, mq_param_version >>
  BY SMTT(60) DEF VersionActions, PutSample, GetSample, GetValidate
<1>9. \/ FreshnessActions
      \/ /\ UNCHANGED << held, running, cancel_queue, queue, staleness_samples >>
         /\ processor_pc' = "get" => processor_pc = "get"
  BY SMTT(60) DEF FreshnessActions, GetValidate, UpdateQueueVersion, Crash, ContinueAfterReap,
                  AfterReap, AfterTake, ReapLoops
<1> QED BY <1>1, <1>2, <1>3, <1>4, <1>5, <1>6, <1>7, <1>8, <1>9

-----------------------------------------------------------------------------
(* Types.                                                                  *)

(***************************************************************************)
(* A task is in one stage at a time: waiting for a server, generating,     *)
(* interrupted, or putting its sample.                                     *)
(***************************************************************************)
TaskStages ==
  /\ generating \cap interrupted = {}
  /\ Stamped \subseteq running \ (generating \cup interrupted)
  /\ \A e, f \in putting : e.sample = f.sample => e = f

\* What the processor is about to submit is a sample.
HandFilled == processor_pc \in {"limit", "submit"} => held # None

(***************************************************************************)
(* TypeOK alone is not inductive: that a finished task leaves no stage of  *)
(* it behind needs TaskStages, that a submitted sample is one HandFilled.  *)
(***************************************************************************)
TypeInv == TypeOK /\ TaskStages /\ HandFilled

(***************************************************************************)
(* active_tasks is finite and can be counted.                              *)
(***************************************************************************)
LEMMA ActiveTasksType ==
  ASSUME TypeOK
  PROVE  /\ IsFiniteSet(running)
         /\ Cardinality(running) \in Nat
         /\ ActiveTasks \in Nat
<1>1. IsFiniteSet(Samples)
  BY RollouterAssumption, FS_Interval DEF Samples
<1>2. IsFiniteSet(running)
  BY <1>1, FS_Subset DEF TypeOK, TaskTypes
<1>3. Cardinality(running) \in Nat
  BY <1>2, FS_CardinalityType
<1> QED BY <1>2, <1>3 DEF TypeOK, TaskTypes, ActiveTasks

(***************************************************************************)
(* The initial state is well typed.                                        *)
(***************************************************************************)
LEMMA TypeInvInit == Init => TypeInv
<1> SUFFICES ASSUME Init PROVE TypeInv
  OBVIOUS
<1>1. QueueTypes
  BY DEF Init, MQInit, QueueTypes
<1>2. ProcessorTypes
  <2>1. 0 \in 0..TotalRolloutSteps /\ 0 \in 0..(TotalRolloutSteps + 1)
    BY RollouterAssumption
  <2>2. << >> \in Seq(0..TotalRolloutSteps)
    OBVIOUS
  <2> QED BY <2>1, <2>2 DEF Init, RollouterInit, ProcessorTypes, ProcessorStates, None
<1>3. TaskTypes
  BY DEF Init, RollouterInit, TaskTypes
<1>4. ControlTypes
  BY DEF Init, RollouterInit, ControlTypes
<1>5. lock_queue \in Seq(Coroutines)
  BY DEF Init, RollouterInit
<1>6. TrainerTypes
  BY FullyAsyncAssumption DEF Init, TrainerTypes, TrainerStates
<1>7. TaskStages /\ HandFilled
  BY DEF Init, RollouterInit, TaskStages, Stamped, HandFilled
<1> QED BY <1>1, <1>2, <1>3, <1>4, <1>5, <1>6, <1>7 DEF TypeInv, TypeOK

(***************************************************************************)
(* The message queue holds entries.                                        *)
(***************************************************************************)
LEMMA PutSampleTypes ==
  ASSUME QueueTypes, NEW e \in Entries, PutSample(e)
  PROVE  QueueTypes'
<1>1. queue \in Seq(Entries) /\ MaxQueueSize \in Nat \ {0}
  BY MaxQueueSizeAssumption DEF QueueTypes
<1>2. ASSUME QueueFull PROVE Tail(queue) \in Seq(Entries)
  BY <1>1, <1>2 DEF QueueFull
<1>3. queue' \in Seq(Entries)
  BY <1>1, <1>2 DEF PutSample
<1> QED BY <1>3 DEF PutSample, QueueTypes

LEMMA QueueTypesNext ==
  ASSUME TypeInv, [Next]_vars
  PROVE  QueueTypes'
<1> USE DEF TypeInv, TypeOK
<1>1. CASE TrainerGetSample \/ TrainerGetEndSignal
  <2>1. GetSample
    BY <1>1 DEF TrainerGetSample, TrainerGetEndSignal
  <2> QED BY <2>1 DEF GetSample, QueueTypes
<1>2. CASE TrainerLog \/ TrainerFinish
  <2>1. GetValidate
    BY <1>2 DEF TrainerLog, TrainerFinish
  <2>2. val_queue' \in Seq(Nat)
    BY <2>1 DEF GetValidate, QueueTypes
  <2> QED BY <2>1, <2>2 DEF GetValidate, QueueTypes
<1>3. CASE SyncUpdateQueue
  BY <1>3 DEF SyncUpdateQueue, UpdateQueueVersion, QueueTypes, TrainerTypes
<1>4. CASE UpdateParamVersion
  BY <1>4 DEF UpdateParamVersion, PutValidate, QueueTypes, ControlTypes
<1>5. CASE MainSendEndSignal
  <2>1. Entry(None, rollout_version) \in Entries
    BY RollouterAssumption DEF Entry, Entries, None, ControlTypes
  <2> QED BY <1>5, <2>1, PutSampleTypes DEF MainSendEndSignal
<1>6. ASSUME NEW s \in Samples, TaskPut(s)
      PROVE  QueueTypes'
  BY <1>6, PutSampleTypes DEF TaskPut, TaskTypes
<1>7. CASE UNCHANGED mqVars
  BY <1>7 DEF QueueTypes
<1> QED BY <1>1, <1>2, <1>3, <1>4, <1>5, <1>6, <1>7, Frames DEF QueueActions

(***************************************************************************)
(* The processor holds a sample, and one when it submits.                  *)
(***************************************************************************)
LEMMA ProcessorTypesNext ==
  ASSUME TypeInv, [Next]_vars
  PROVE  ProcessorTypes' /\ HandFilled'
<1> USE DEF TypeInv, TypeOK, HandFilled, ProcessorTypes, ProcessorStates
<1>1. CASE FeedSample
  <2>1. fed + 1 \in 0..TotalRolloutSteps
    BY <1>1, RollouterAssumption DEF FeedSample
  <2> QED BY <1>1, <2>1, RollouterAssumption DEF FeedSample
<1>2. CASE FeedDone
  <2>1. Done \in 0..TotalRolloutSteps
    BY RollouterAssumption DEF Done
  <2> QED BY <1>2, <2>1, RollouterAssumption DEF FeedDone
<1>3. CASE ProcessorMustPause \/ ProcessorAwaitPending
  BY <1>3 DEF ProcessorMustPause, ProcessorAwaitPending
<1>4. CASE ProcessorTakeCancelled
  <2>1. held' \in Samples
    BY <1>4 DEF ProcessorTakeCancelled, TaskTypes
  <2>2. held' \in 0..TotalRolloutSteps /\ held' # None
    BY <2>1, RollouterAssumption DEF Samples, None
  <2> QED BY <1>4, <2>2 DEF ProcessorTakeCancelled, AfterTake
<1>5. CASE ProcessorTakePending
  <2>1. /\ Head(pending_queue) \in 0..TotalRolloutSteps
        /\ Tail(pending_queue) \in Seq(0..TotalRolloutSteps)
    <3>1. pending_queue \in Seq(0..TotalRolloutSteps) /\ pending_queue # << >>
      BY <1>5 DEF ProcessorTakePending, MayTakePending
    <3> QED BY <3>1, HeadTailProperties
  <2>2. /\ held' \in 0..TotalRolloutSteps /\ held' # None
        /\ pending_queue' \in Seq(0..TotalRolloutSteps)
    BY <1>5, <2>1 DEF ProcessorTakePending, None, Done
  <2> QED BY <1>5, <2>2 DEF ProcessorTakePending, AfterTake
<1>6. CASE ProcessorTakeDone
  <2>1. pending_queue' \in Seq(0..TotalRolloutSteps)
    BY <1>6 DEF ProcessorTakeDone, MayTakePending
  <2> QED BY <1>6, <2>1 DEF ProcessorTakeDone
<1>7. CASE ProcessorSetPause
  BY <1>7 DEF ProcessorSetPause, AfterReap
<1>8. CASE ProcessorReap \/ ProcessorNothingToReap
  BY <1>8 DEF ProcessorReap, ProcessorNothingToReap, ReapLoops, Crash, ContinueAfterReap,
              AfterReap, AfterTake
<1>9. CASE ProcessorWaitCondition \/ ProcessorWoken \/ ProcessorResumed \/ ProcessorSubmit
  <2>1. CASE ProcessorWaitCondition \/ ProcessorWoken
    BY <2>1 DEF ProcessorWaitCondition, ProcessorWoken
  <2>2. CASE ProcessorResumed
    BY <2>2 DEF ProcessorResumed
  <2>3. CASE ProcessorSubmit
    <3>1. None \in 0..TotalRolloutSteps
      BY RollouterAssumption DEF None
    <3> QED BY <2>3, <3>1 DEF ProcessorSubmit
  <2> QED BY <1>9, <2>1, <2>2, <2>3
<1>10. CASE MonitorResume \/ Resume
  BY <1>10 DEF MonitorResume, Resume, NotifyAll
<1>11. CASE UNCHANGED << feedVars, processorVars >>
  BY <1>11
<1> QED BY <1>1, <1>2, <1>3, <1>4, <1>5, <1>6, <1>7, <1>8, <1>9, <1>10, <1>11, Frames
        DEF ProcessorActions, Feeder, Processor

(***************************************************************************)
(* Tasks move from stage to stage and leave when they finish.              *)
(***************************************************************************)
LEMMA TaskTypesNext ==
  ASSUME TypeInv, [Next]_vars
  PROVE  TaskTypes' /\ TaskStages'
<1> USE DEF TypeInv, TypeOK, TaskTypes, TaskStages, Stamped
<1>1. CASE ProcessorTakeCancelled
  BY <1>1 DEF ProcessorTakeCancelled
<1>2. CASE ProcessorReap \/ PauseEnd
  BY <1>2 DEF ProcessorReap, PauseEnd
<1>3. CASE ProcessorSubmit
  <2>1. held \in Samples
    BY <1>3 DEF ProcessorSubmit, HandFilled, ProcessorTypes, None, Samples
  <2> QED BY <1>3, <2>1 DEF ProcessorSubmit
<1>4. ASSUME NEW s \in Samples, TaskStamp(s)
      PROVE  TaskTypes' /\ TaskStages'
  <2>1. Entry(s, rollout_version) \in Entries
    BY DEF Entry, Entries, Samples, ControlTypes
  <2>2. Entry(s, rollout_version).sample = s
    BY DEF Entry
  <2>3. TaskTypes'
    BY <1>4, <2>1 DEF TaskStamp
  <2>4. s \notin Stamped
    BY <1>4 DEF TaskStamp
  <2>5. TaskStages'
    BY <1>4, <2>2, <2>4 DEF TaskStamp
  <2> QED BY <2>3, <2>5
<1>5. ASSUME NEW s \in Samples, TaskPut(s)
      PROVE  TaskTypes' /\ TaskStages'
  BY <1>5 DEF TaskPut
<1>6. ASSUME NEW s \in Samples, TaskCancelled(s)
      PROVE  TaskTypes' /\ TaskStages'
  BY <1>6 DEF TaskCancelled
<1>7. ASSUME NEW s \in Samples, TaskFail(s)
      PROVE  TaskTypes' /\ TaskStages'
  BY <1>7 DEF TaskFail
<1>8. ASSUME NEW s \in Samples, Server(s)
      PROVE  TaskTypes' /\ TaskStages'
  BY <1>8 DEF Server, ServerAdmit, ServerInterrupt
<1>9. CASE UNCHANGED taskVars
  BY <1>9
<1> QED BY <1>1, <1>2, <1>3, <1>4, <1>5, <1>6, <1>7, <1>8, <1>9, Frames DEF TaskActions, Task

(***************************************************************************)
(* The control variables.                                                  *)
(***************************************************************************)
LEMMA ControlTypesNext ==
  ASSUME TypeInv, [Next]_vars
  PROVE  ControlTypes'
<1> USE DEF TypeInv, TypeOK, ControlTypes
<1>1. CASE ProcessorTakePending \/ ProcessorTakeDone \/ ProcessorSetPause
  <2>1. CASE ProcessorTakePending
    BY <2>1 DEF ProcessorTakePending
  <2>2. CASE ProcessorTakeDone
    BY <2>2 DEF ProcessorTakeDone
  <2>3. CASE ProcessorSetPause
    BY <2>3 DEF ProcessorSetPause
  <2> QED BY <1>1, <2>1, <2>2, <2>3
<1>2. CASE Monitor
  BY <1>2 DEF Monitor, MonitorCheck, MonitorResume, MonitorStop
<1>3. CASE Main
  BY <1>3 DEF Main, MainSendEndSignal, MainStop
<1>4. CASE RpcArrive \/ PauseBegin \/ PauseEnd \/ Resume
  <2>1. CASE RpcArrive
    BY <2>1 DEF RpcArrive
  <2>2. CASE PauseBegin
    BY <2>2, RollouterAssumption DEF PauseBegin
  <2>3. CASE PauseEnd
    BY <2>3 DEF PauseEnd
  <2>4. CASE Resume
    BY <2>4 DEF Resume
  <2> QED BY <1>4, <2>1, <2>2, <2>3, <2>4
<1>5. CASE UpdateParamVersion
  <2>1. RecountedSamples \in Nat
    BY ActiveTasksType DEF RecountedSamples, TaskTypes, QueueTypes
  <2> QED BY <1>5, <2>1 DEF UpdateParamVersion
<1>6. CASE TrainerSync \/ SyncRelease
  BY <1>6 DEF TrainerSync, SyncRelease, TrainerTypes
<1>7. CASE UNCHANGED << controlVars, driverVars, rpcVars, servers_paused >>
  BY <1>7
<1> QED BY <1>1, <1>2, <1>3, <1>4, <1>5, <1>6, <1>7, Frames DEF ControlActions, Handlers

(***************************************************************************)
(* The queue of the lock.                                                  *)
(***************************************************************************)
LEMMA LockTypeNext ==
  ASSUME TypeInv, [Next]_vars
  PROVE  lock_queue' \in Seq(Coroutines)
<1>1. lock_queue \in Seq(Coroutines)
  BY DEF TypeInv, TypeOK
<1>2. ASSUME NEW who \in Coroutines, Join(who)
      PROVE  lock_queue' \in Seq(Coroutines)
  BY <1>1, <1>2 DEF Join
<1>3. ASSUME NEW who \in Coroutines, Owns(who), Release \/ ReleaseAndJoin(who)
      PROVE  lock_queue' \in Seq(Coroutines)
  <2>1. Tail(lock_queue) \in Seq(Coroutines)
    BY <1>1, <1>3 DEF Owns
  <2> QED BY <1>3, <2>1 DEF Release, ReleaseAndJoin
<1>4. {"processor", "monitor", "main", "rpc"} \subseteq Coroutines
  BY DEF Coroutines
<1>5. CASE Processor
  BY <1>1, <1>2, <1>3, <1>4, <1>5
  DEF Processor, ProcessorMustPause, ProcessorTakeCancelled, ProcessorAwaitPending,
      ProcessorTakePending, ProcessorTakeDone, ProcessorSetPause, ProcessorReap,
      ProcessorNothingToReap, ProcessorWaitCondition, ProcessorWoken, ProcessorResumed,
      ProcessorSubmit, Crash, ContinueAfterReap
<1>6. CASE Monitor
  BY <1>1, <1>2, <1>3, <1>4, <1>6 DEF Monitor, MonitorCheck, MonitorResume, MonitorStop
<1>7. CASE Main
  BY <1>1, <1>2, <1>3, <1>4, <1>7 DEF Main, MainSendEndSignal, MainStop
<1>8. CASE Handlers
  BY <1>1, <1>2, <1>3, <1>4, <1>8
  DEF Handlers, RpcArrive, PauseBegin, PauseEnd, UpdateParamVersion, Resume
<1> QED BY <1>1, <1>5, <1>6, <1>7, <1>8, Frames DEF LockActions

(***************************************************************************)
(* The Trainer and the synchronizer.                                       *)
(***************************************************************************)
LEMMA TrainerTypesNext ==
  ASSUME TypeInv, [Next]_vars
  PROVE  TrainerTypes'
<1> USE DEF TypeInv, TypeOK, TrainerTypes, TrainerStates
<1>1. CASE TrainerGetSample
  <2>1. Head(queue) \in Entries
    BY <1>1 DEF TrainerGetSample, GetSample, QueueTypes
  <2> QED BY <1>1, <2>1 DEF TrainerGetSample
<1>2. CASE TrainerUpdate
  <2>1. NextLocalStep(local_trigger_step) \in 1..TriggerParameterSyncStep
    BY FullyAsyncAssumption DEF NextLocalStep
  <2> QED BY <1>2, <2>1 DEF TrainerUpdate
<1>3. CASE TrainerGetEndSignal \/ TrainerSync \/ TrainerLog \/ TrainerFinish
  BY <1>3 DEF TrainerGetEndSignal, TrainerSync, TrainerLog, TrainerFinish
<1>4. CASE Synchronizer
  BY <1>4 DEF Synchronizer, SyncUpdateQueue, SyncRelease
<1>5. CASE UNCHANGED << trainerVars, syncVars >>
  BY <1>5
<1> QED BY <1>1, <1>2, <1>3, <1>4, <1>5, Frames DEF Trainer

LEMMA TypeInvariant == Spec => []TypeInv
<1>1. TypeInv /\ [Next]_vars => TypeInv'
  BY QueueTypesNext, ProcessorTypesNext, TaskTypesNext, ControlTypesNext, LockTypeNext,
     TrainerTypesNext
  DEF TypeInv, TypeOK
<1> QED BY <1>1, TypeInvInit, PTL DEF Spec

(***************************************************************************)
(* Every variable keeps its type.                                          *)
(***************************************************************************)
THEOREM TypeCorrect == Spec => []TypeOK
<1>1. TypeInv => TypeOK
  BY DEF TypeInv
<1> QED BY <1>1, TypeInvariant, PTL

-----------------------------------------------------------------------------
(* Pauses and wake-ups.                                                    *)

(***************************************************************************)
(* Whoever clears paused also notifies the processor.                      *)
(***************************************************************************)
THEOREM WakeupNeverLost == Spec => []NoLostWakeup
<1>1. Init => NoLostWakeup
  BY DEF Init, RollouterInit, NoLostWakeup
<1>2. NoLostWakeup /\ [Next]_vars => NoLostWakeup'
  <2> SUFFICES ASSUME NoLostWakeup, [Next]_vars PROVE NoLostWakeup'
    OBVIOUS
  <2> USE DEF NoLostWakeup
  <2>1. CASE MonitorResume \/ Resume
    BY <2>1 DEF MonitorResume, Resume, NotifyAll
  <2>2. CASE ProcessorWaitCondition
    BY <2>2 DEF ProcessorWaitCondition
  <2>3. CASE ProcessorSetPause \/ PauseBegin
    BY <2>3 DEF ProcessorSetPause, PauseBegin
  <2>4. CASE UNCHANGED << condition_wait, paused >>
    BY <2>4
  <2> QED BY <2>1, <2>2, <2>3, <2>4, Frames DEF PauseActions
<1> QED BY <1>1, <1>2, PTL DEF Spec

-----------------------------------------------------------------------------
(* The version handshake.                                                  *)

(***************************************************************************)
(* Where the version is at each stage of a synchronization.  The handshake *)
(* itself does not say that update_param_version carries the version that  *)
(* was announced, nor that no other call is outstanding.                   *)
(***************************************************************************)
VersionInv ==
  /\ sync_pc # "idle" <=> trainer_pc = "sync"
  /\ sync_pc = "idle" => rpc \in {"none", "update", "resume"}
  /\ sync_pc = "pausing" => rpc \in {"pause", "gather", "none"}
  /\ sync_pc = "transfer" => rpc = "none"
  /\ mq_param_version = IF sync_pc = "pausing" THEN rollout_version ELSE sync_version
  /\ sync_version = IF sync_pc # "idle" \/ rpc = "update" THEN rollout_version + 1
                                                           ELSE rollout_version
  /\ rpc = "update" => rpc_version = sync_version
  /\ train_version = IF trainer_pc = "wait_last_valid" THEN sync_version + 1 ELSE sync_version

LEMMA VersionInvInit == Init => VersionInv
  BY DEF Init, MQInit, RollouterInit, VersionInv

LEMMA VersionInvNext ==
  ASSUME TypeInv, VersionInv, [Next]_vars
  PROVE  VersionInv'
<1>0. /\ rollout_version \in Nat /\ train_version \in Nat /\ sync_version \in Nat
      /\ sync_pc \in {"idle", "pausing", "transfer"}
  BY DEF TypeInv, TypeOK, ControlTypes, TrainerTypes
<1> HIDE DEF TypeInv
<1> USE DEF VersionInv
<1>1. CASE TrainerGetSample \/ TrainerGetEndSignal
  BY <1>1 DEF TrainerGetSample, TrainerGetEndSignal, GetSample
<1>2. CASE TrainerUpdate
  BY <1>0, <1>2 DEF TrainerUpdate
<1>3. CASE TrainerSync
  BY <1>0, <1>3 DEF TrainerSync, LastSyncOver
<1>4. CASE TrainerLog \/ TrainerFinish
  BY <1>4 DEF TrainerLog, TrainerFinish, GetValidate
<1>5. CASE SyncUpdateQueue
  BY <1>0, <1>5 DEF SyncUpdateQueue, UpdateQueueVersion
<1>6. CASE SyncRelease
  BY <1>0, <1>6 DEF SyncRelease
<1>7. ASSUME Handlers, UNCHANGED << trainerVars, syncVars >>
      PROVE  VersionInv'
  <2>1. CASE RpcArrive \/ PauseBegin \/ PauseEnd \/ Resume
    BY <1>7, <2>1 DEF RpcArrive, PauseBegin, PauseEnd, Resume
  <2>2. CASE UpdateParamVersion
    BY <1>0, <1>7, <2>2 DEF UpdateParamVersion, PutValidate
  <2> QED BY <1>7, <2>1, <2>2 DEF Handlers
<1>8. CASE UNCHANGED << trainer_pc, train_version, syncVars, rpcVars, rollout_version,
                        mq_param_version >>
  BY <1>8
<1>9. Trainer \/ Synchronizer \/ (Handlers /\ UNCHANGED << trainerVars, syncVars >>)
      \/ UNCHANGED << trainer_pc, train_version, syncVars, rpcVars, rollout_version,
                      mq_param_version >>
  <2>1. CASE Trainer \/ Synchronizer
    BY <2>1
  <2>2. CASE ~(Trainer \/ Synchronizer)
    BY <2>2, Frames DEF VersionActions, Handlers
  <2> QED BY <2>1, <2>2
<1> QED BY <1>1, <1>2, <1>3, <1>4, <1>5, <1>6, <1>7, <1>8, <1>9 DEF Trainer, Synchronizer

(***************************************************************************)
(* No version is skipped, no two synchronizations overlap, and after the   *)
(* last call the Rollouter, the queue and the synchronizer agree.          *)
(***************************************************************************)
THEOREM HandshakeCorrect == Spec => []VersionHandshake
<1>1. TypeInv /\ VersionInv => VersionHandshake
  BY DEF TypeInv, TypeOK, ControlTypes, QueueTypes, TrainerTypes, VersionInv, VersionHandshake,
         LastSyncOver
<1> QED BY <1>1, VersionInvInit, VersionInvNext, TypeInvariant, PTL DEF Spec

-----------------------------------------------------------------------------
(* Concurrent generation.                                                  *)

(***************************************************************************)
(* The bound is not inductive: a submission adds a task, so there must be  *)
(* room for one whenever the processor is about to submit.                 *)
(***************************************************************************)
ConcurrencyInv ==
  /\ ActiveTasks <= MaxConcurrentSamples
  /\ processor_pc = "submit" => ActiveTasks < MaxConcurrentSamples

(***************************************************************************)
(* A task that ends moves from running to the finished ones.               *)
(***************************************************************************)
LEMMA TaskEnds ==
  ASSUME TypeInv, NEW s \in running, running' = running \ {s},
         \/ finished' = finished + 1 /\ finished_failed' = finished_failed
         \/ finished' = finished /\ finished_failed' = finished_failed + 1
  PROVE  ActiveTasks' = ActiveTasks
<1>1. Cardinality(running') = Cardinality(running) - 1
  BY ActiveTasksType, FS_RemoveElement DEF TypeInv
<1>2. finished \in Nat /\ finished_failed \in Nat /\ Cardinality(running) \in Nat
  BY ActiveTasksType DEF TypeInv, TypeOK, TaskTypes
<1> QED BY <1>1, <1>2 DEF ActiveTasks

LEMMA ConcurrencyInvInit == Init => ConcurrencyInv
<1> SUFFICES ASSUME Init PROVE ConcurrencyInv
  OBVIOUS
<1>1. Cardinality(running) = 0
  BY FS_EmptySet DEF Init, RollouterInit
<1> QED BY <1>1, RollouterAssumption DEF Init, RollouterInit, ActiveTasks, ConcurrencyInv

LEMMA ConcurrencyInvNext ==
  ASSUME TypeInv, ConcurrencyInv, [Next]_vars
  PROVE  ConcurrencyInv'
<1>0. /\ IsFiniteSet(running) /\ Cardinality(running) \in Nat /\ ActiveTasks \in Nat
      /\ finished \in Nat /\ finished_failed \in Nat
      /\ MaxConcurrentSamples \in Nat \ {0}
  BY ActiveTasksType, RollouterAssumption DEF TypeInv, TypeOK, TaskTypes
<1> HIDE DEF TypeInv
<1> USE DEF ConcurrencyInv
<1>1. ASSUME UNCHANGED << running, finished, finished_failed >>
      PROVE  ActiveTasks' = ActiveTasks
  BY <1>1 DEF ActiveTasks
<1>2. CASE ProcessorMustPause \/ ProcessorAwaitPending \/ ProcessorTakeDone
           \/ ProcessorSetPause \/ ProcessorResumed
  BY <1>1, <1>2 DEF ProcessorMustPause, ProcessorAwaitPending, ProcessorTakeDone,
                    ProcessorSetPause, ProcessorResumed, AfterReap
<1>3. CASE ProcessorTakeCancelled \/ ProcessorTakePending
  <2>1. UNCHANGED << running, finished, finished_failed >>
        /\ processor_pc' = AfterTake(ActiveTasks)
    BY <1>3 DEF ProcessorTakeCancelled, ProcessorTakePending
  <2> QED BY <1>0, <1>1, <2>1 DEF AfterTake
<1>4. CASE ProcessorReap
  <2>1. ActiveTasks' = Cardinality(running) /\ Cardinality(running) <= ActiveTasks
    BY <1>0, <1>4 DEF ProcessorReap, ActiveTasks
  <2>2. processor_pc' = "submit" => Cardinality(running) < MaxConcurrentSamples
    BY <1>0, <1>4 DEF ProcessorReap, Crash, ContinueAfterReap, ReapLoops, AfterReap, AfterTake
  <2> QED BY <1>0, <2>1, <2>2
<1>5. CASE ProcessorNothingToReap
  <2>1. ActiveTasks' = 0
    BY <1>1, <1>5 DEF ProcessorNothingToReap
  <2> QED BY <1>0, <2>1
<1>6. CASE ProcessorWaitCondition \/ ProcessorWoken
  BY <1>1, <1>6 DEF ProcessorWaitCondition, ProcessorWoken
<1>7. CASE ProcessorSubmit
  <2>1. Cardinality(running \cup {held}) <= Cardinality(running) + 1
        /\ Cardinality(running \cup {held}) \in Nat
    <3>1. Cardinality(running \cup {held}) =
            IF held \in running THEN Cardinality(running) ELSE Cardinality(running) + 1
      BY <1>0, FS_AddElement
    <3> QED BY <1>0, <3>1
  <2>2. ActiveTasks' <= ActiveTasks + 1 /\ ActiveTasks' \in Nat
    BY <1>0, <1>7, <2>1 DEF ProcessorSubmit, ActiveTasks
  <2>3. processor_pc = "submit" /\ processor_pc' = "top"
    BY <1>7 DEF ProcessorSubmit
  <2> QED BY <1>0, <2>2, <2>3
<1>8. CASE PauseEnd
  <2>1. ActiveTasks' = Cardinality(running) /\ Cardinality(running) <= ActiveTasks
        /\ processor_pc' = processor_pc
    BY <1>0, <1>8 DEF PauseEnd, ActiveTasks
  <2> QED BY <1>0, <2>1
<1>9. ASSUME NEW s \in Samples, TaskPut(s) \/ TaskCancelled(s) \/ TaskFail(s)
      PROVE  ConcurrencyInv'
  <2>1. s \in running
    BY <1>9 DEF TaskPut, TaskCancelled, TaskFail, TypeInv, TypeOK, TaskTypes, TaskStages, Stamped
  <2>2. ActiveTasks' = ActiveTasks
    BY <1>9, <2>1, TaskEnds DEF TaskPut, TaskCancelled, TaskFail
  <2>3. processor_pc' = processor_pc
    BY <1>9 DEF TaskPut, TaskCancelled, TaskFail
  <2> QED BY <2>2, <2>3
<1>10. ASSUME NEW s \in Samples, TaskStamp(s) \/ Server(s)
       PROVE  ConcurrencyInv'
  BY <1>1, <1>10 DEF TaskStamp, Server, ServerAdmit, ServerInterrupt
<1>11. CASE ~TaskActions /\ ~Processor
  <2>1. UNCHANGED taskVars
    BY <1>11, Frames
  <2>2. UNCHANGED processor_pc
    BY <1>11, Frames DEF ProcessorActions, Feeder, FeedSample, FeedDone, MonitorResume, Resume
  <2> QED BY <1>1, <2>1, <2>2
<1> QED BY <1>2, <1>3, <1>4, <1>5, <1>6, <1>7, <1>8, <1>9, <1>10, <1>11
        DEF TaskActions, Processor, Task

LEMMA ConcurrencyInvariant == Spec => []ConcurrencyInv
  BY ConcurrencyInvInit, ConcurrencyInvNext, TypeInvariant, PTL DEF Spec

(***************************************************************************)
(* active_tasks never exceeds max_concurrent_samples.                      *)
(***************************************************************************)
THEOREM ConcurrencyCorrect == Spec => []ConcurrencyBound
<1>1. ConcurrencyInv => ConcurrencyBound
  BY DEF ConcurrencyInv, ConcurrencyBound
<1> QED BY <1>1, ConcurrencyInvariant, PTL

-----------------------------------------------------------------------------
(* Freshness.                                                              *)

(***************************************************************************)
(* Counting what the processor holds and what the message queue holds.     *)
(***************************************************************************)
LEMMA HandCount ==
  ASSUME NEW h
  PROVE  Cardinality({h} \ {None}) = IF h = None THEN 0 ELSE 1
<1>1. CASE h = None
  <2>1. {h} \ {None} = {}
    BY <1>1
  <2> QED BY <1>1, <2>1, FS_EmptySet
<1>2. CASE h # None
  <2>1. {h} \ {None} = {h}
    BY <1>2
  <2> QED BY <1>2, <2>1, FS_Singleton
<1> QED BY <1>1, <1>2

LEMMA SamplesInType ==
  ASSUME NEW q \in Seq(Entries)
  PROVE  /\ IsFiniteSet({i \in DOMAIN q : q[i].sample # None})
         /\ SamplesIn(q) \in Nat
         /\ SamplesIn(q) <= Len(q)
<1>1. Len(q) \in Nat /\ DOMAIN q = 1..Len(q)
  OBVIOUS
<1>2. IsFiniteSet(1..Len(q)) /\ Cardinality(1..Len(q)) = Len(q)
  BY <1>1, FS_Interval
<1>3. {i \in DOMAIN q : q[i].sample # None} \in SUBSET (1..Len(q))
  BY <1>1
<1> QED BY <1>2, <1>3, FS_Subset, FS_CardinalityType DEF SamplesIn

LEMMA SamplesInAppend ==
  ASSUME NEW q \in Seq(Entries), NEW e \in Entries
  PROVE  SamplesIn(Append(q, e)) <= SamplesIn(q) + IF e.sample = None THEN 0 ELSE 1
<1> DEFINE S == {i \in DOMAIN q : q[i].sample # None}
<1> DEFINE T == {i \in DOMAIN Append(q, e) : Append(q, e)[i].sample # None}
<1>1. /\ Len(q) \in Nat /\ DOMAIN q = 1..Len(q)
      /\ DOMAIN Append(q, e) = 1..(Len(q) + 1)
      /\ \A i \in 1..Len(q) : Append(q, e)[i] = q[i]
      /\ Append(q, e)[Len(q) + 1] = e
  OBVIOUS
<1>2. T = IF e.sample = None THEN S ELSE S \cup {Len(q) + 1}
  BY <1>1
<1>3. IsFiniteSet(S) /\ Cardinality(S) \in Nat /\ SamplesIn(q) = Cardinality(S)
  BY SamplesInType DEF SamplesIn
<1>4. SamplesIn(Append(q, e)) = Cardinality(T)
  BY DEF SamplesIn
<1> HIDE DEF S, T
<1>5. CASE e.sample = None
  BY <1>2, <1>3, <1>4, <1>5
<1>6. CASE e.sample # None
  <2>1. Cardinality(S \cup {Len(q) + 1}) =
          IF Len(q) + 1 \in S THEN Cardinality(S) ELSE Cardinality(S) + 1
    BY <1>3, FS_AddElement
  <2> QED BY <1>2, <1>3, <1>4, <1>6, <2>1
<1> QED BY <1>5, <1>6

LEMMA SamplesInTail ==
  ASSUME NEW q \in Seq(Entries), q # << >>
  PROVE  SamplesIn(Tail(q)) <= SamplesIn(q)
<1> DEFINE S == {i \in DOMAIN q : q[i].sample # None}
<1> DEFINE T == {i \in DOMAIN Tail(q) : Tail(q)[i].sample # None}
<1> DEFINE shift == [i \in T |-> i + 1]
<1>1. /\ Len(q) \in Nat \ {0} /\ DOMAIN q = 1..Len(q)
      /\ DOMAIN Tail(q) = 1..(Len(q) - 1)
      /\ \A i \in 1..(Len(q) - 1) : Tail(q)[i] = q[i + 1]
  BY HeadTailProperties, EmptySeq
<1>2. shift \in [T -> S]
  BY <1>1
<1>3. \A i, j \in T : shift[i] = shift[j] => i = j
  BY <1>1
<1>4. shift \in Injection(T, S)
  BY <1>2, <1>3 DEF Injection, IsInjective
<1>5. IsFiniteSet(S)
  BY SamplesInType
<1>6. SamplesIn(q) = Cardinality(S) /\ SamplesIn(Tail(q)) = Cardinality(T)
  BY DEF SamplesIn
<1> HIDE DEF S, T, shift
<1> QED BY <1>4, <1>5, <1>6, FS_Injection

(***************************************************************************)
(* put_sample adds at most the new entry, if it is a sample.               *)
(***************************************************************************)
LEMMA SamplesInPut ==
  ASSUME queue \in Seq(Entries), NEW e \in Entries, PutSample(e)
  PROVE  SamplesIn(queue') <= SamplesIn(queue) + IF e.sample = None THEN 0 ELSE 1
<1>1. CASE QueueFull
  <2>1. queue # << >> /\ queue' = Append(Tail(queue), e)
    BY <1>1, MaxQueueSizeAssumption DEF QueueFull, PutSample
  <2>2. Tail(queue) \in Seq(Entries)
    BY <2>1, HeadTailProperties
  <2>3. SamplesIn(Append(Tail(queue), e))
          <= SamplesIn(Tail(queue)) + IF e.sample = None THEN 0 ELSE 1
    BY <2>2, SamplesInAppend
  <2>4. SamplesIn(Tail(queue)) <= SamplesIn(queue)
    BY <2>1, SamplesInTail
  <2>5. SamplesIn(queue) \in Nat /\ SamplesIn(Tail(queue)) \in Nat
    BY <2>2, SamplesInType
  <2>6. Append(Tail(queue), e) \in Seq(Entries)
    BY <2>2
  <2>7. SamplesIn(queue') \in Nat
    BY <2>1, <2>6, SamplesInType
  <2> QED BY <2>1, <2>3, <2>4, <2>5, <2>7
<1>2. CASE ~QueueFull
  BY <1>2, SamplesInAppend DEF PutSample
<1> QED BY <1>1, <1>2

(***************************************************************************)
(* Between taking a sample and submitting it the processor tests nothing,  *)
(* so its hand must be empty whenever it takes one; and while it waits for *)
(* pending_queue the freshness test is already behind it, so there must    *)
(* be room for the sample that will end the wait.                          *)
(***************************************************************************)
HandEmpty == processor_pc \notin {"limit", "submit", "crashed"} => held = None

FreshnessInv ==
  /\ HandEmpty
  /\ FreshnessCounter
  /\ OutstandingBound
  /\ processor_pc = "get" => Outstanding <= MaxRequiredSamples

LEMMA HandEmptyNext ==
  ASSUME HandEmpty, [Next]_vars
  PROVE  HandEmpty'
<1> USE DEF HandEmpty
<1>1. CASE Feeder
  BY <1>1 DEF Feeder, FeedSample, FeedDone
<1>2. CASE ProcessorTakeCancelled \/ ProcessorTakePending
  BY <1>2 DEF ProcessorTakeCancelled, ProcessorTakePending, AfterTake
<1>3. CASE ProcessorMustPause \/ ProcessorAwaitPending \/ ProcessorTakeDone
  BY <1>3 DEF ProcessorMustPause, ProcessorAwaitPending, ProcessorTakeDone, MayTakePending
<1>4. CASE ProcessorSetPause
  BY <1>4 DEF ProcessorSetPause, AfterReap
<1>5. CASE ProcessorReap \/ ProcessorNothingToReap
  BY <1>5 DEF ProcessorReap, ProcessorNothingToReap, ReapLoops, Crash, ContinueAfterReap,
              AfterReap, AfterTake
<1>6. CASE ProcessorWaitCondition \/ ProcessorWoken \/ ProcessorResumed \/ ProcessorSubmit
  BY <1>6 DEF ProcessorWaitCondition, ProcessorWoken, ProcessorResumed, ProcessorSubmit
<1>7. CASE MonitorResume \/ Resume
  BY <1>7 DEF MonitorResume, Resume
<1>8. CASE UNCHANGED << feedVars, processorVars >>
  BY <1>8
<1> QED BY <1>1, <1>2, <1>3, <1>4, <1>5, <1>6, <1>7, <1>8, Frames
        DEF ProcessorActions, Processor

(***************************************************************************)
(* The terms of Outstanding are natural numbers.                           *)
(***************************************************************************)
Terms ==
  /\ Cardinality(InHand) \in 0..1
  /\ Cardinality(InHand) = 0 <=> held = None
  /\ Cardinality(running) \in Nat
  /\ Len(cancel_queue) \in Nat
  /\ SamplesIn(queue) \in Nat
  /\ staleness_samples \in Nat
  /\ Outstanding = Cardinality(InHand) + Cardinality(running) + Len(cancel_queue)
                     + SamplesIn(queue)
  /\ Outstanding \in Nat

LEMMA OutstandingTerms == TypeOK => Terms
<1> SUFFICES ASSUME TypeOK PROVE Terms
  OBVIOUS
<1>1. Cardinality(InHand) = IF held = None THEN 0 ELSE 1
  BY HandCount DEF InHand
<1>2. Cardinality(InHand) \in 0..1 /\ (Cardinality(InHand) = 0 <=> held = None)
  BY <1>1
<1>3. SamplesIn(queue) \in Nat
  BY SamplesInType DEF TypeOK, QueueTypes
<1>4. Cardinality(running) \in Nat
  BY ActiveTasksType
<1>5. Len(cancel_queue) \in Nat /\ staleness_samples \in Nat
  BY DEF TypeOK, TaskTypes, ControlTypes
<1>6. Outstanding \in Nat
  BY <1>2, <1>3, <1>4, <1>5 DEF Outstanding
<1> QED BY <1>2, <1>3, <1>4, <1>5, <1>6 DEF Outstanding, Terms

LEMMA OutstandingTermsPrimed == TypeOK' => Terms'
  BY OutstandingTerms, PTL

(***************************************************************************)
(* The freshness counter after a step that adds nothing outstanding.       *)
(***************************************************************************)
LEMMA CounterKept ==
  ASSUME TypeOK, TypeOK', FreshnessCounter, Outstanding' <= Outstanding,
         staleness_samples' \in {staleness_samples, staleness_samples + 1}
  PROVE  FreshnessCounter'
<1>1. Terms /\ Terms'
  BY OutstandingTerms, OutstandingTermsPrimed
<1>2. Outstanding \in Nat /\ Outstanding' \in Nat /\ staleness_samples \in Nat
  BY <1>1 DEF Terms
<1>3. CASE staleness_samples' = staleness_samples
  BY <1>2, <1>3 DEF FreshnessCounter
<1>4. CASE staleness_samples' = staleness_samples + 1
  BY <1>2, <1>4 DEF FreshnessCounter
<1> QED BY <1>3, <1>4

(***************************************************************************)
(* Such a step keeps the bounds, unless it sends the processor to wait.    *)
(***************************************************************************)
LEMMA BoundsKept ==
  ASSUME TypeOK, TypeOK', FreshnessInv, HandEmpty', FreshnessCounter',
         Outstanding' <= Outstanding,
         processor_pc' = "get" => Outstanding <= MaxRequiredSamples
  PROVE  FreshnessInv'
<1>1. Terms /\ Terms'
  BY OutstandingTerms, OutstandingTermsPrimed
<1>2. Outstanding \in Nat /\ Outstanding' \in Nat
  BY <1>1 DEF Terms
<1>3. MaxRequiredSamples \in Nat
  BY RollouterAssumption
<1>4. OutstandingBound'
  BY <1>2, <1>3 DEF FreshnessInv, OutstandingBound
<1>5. (processor_pc = "get" => Outstanding <= MaxRequiredSamples)'
  BY <1>2, <1>3
<1> QED BY <1>4, <1>5 DEF FreshnessInv

LEMMA FreshnessInvInit == Init => FreshnessInv
<1> SUFFICES ASSUME Init PROVE FreshnessInv
  OBVIOUS
<1>1. Cardinality(running) = 0
  BY FS_EmptySet DEF Init, RollouterInit
<1>2. {i \in DOMAIN queue : queue[i].sample # None} = {}
  BY DEF Init, MQInit
<1>3. SamplesIn(queue) = 0
  BY <1>2, FS_EmptySet DEF SamplesIn
<1>4. Len(cancel_queue) = 0 /\ held = None /\ staleness_samples = 0 /\ processor_pc = "top"
  BY DEF Init, RollouterInit
<1>5. Cardinality(InHand) = 0
  BY <1>4, HandCount DEF InHand
<1>6. Outstanding = 0
  BY <1>1, <1>3, <1>4, <1>5 DEF Outstanding
<1> QED BY <1>4, <1>6, RollouterAssumption
        DEF FreshnessInv, HandEmpty, FreshnessCounter, OutstandingBound

(***************************************************************************)
(* A sample is taken from pending_queue: the one step that adds to what is *)
(* outstanding, and it counts the sample.                                  *)
(***************************************************************************)
LEMMA FreshnessTakePending ==
  ASSUME TypeInv, TypeOK', FreshnessInv, HandEmpty', ProcessorTakePending
  PROVE  FreshnessInv'
<1>1. Terms /\ Terms'
  BY OutstandingTerms, OutstandingTermsPrimed DEF TypeInv
<1>2. held = None
  BY DEF ProcessorTakePending, MayTakePending, FreshnessInv, HandEmpty
<1>3. held' # None
  BY DEF ProcessorTakePending, None, Done
<1>4. UNCHANGED << running, cancel_queue, queue >>
  BY DEF ProcessorTakePending
<1>5. Outstanding' = Outstanding + 1 /\ Outstanding \in Nat
  BY <1>1, <1>2, <1>3, <1>4 DEF Terms
<1>6. staleness_samples' = staleness_samples + 1 /\ staleness_samples \in Nat
  BY <1>1 DEF ProcessorTakePending, Terms
<1>7. MaxRequiredSamples \in Nat
  BY RollouterAssumption
<1>8. Outstanding <= MaxRequiredSamples
  <2>1. CASE processor_pc = "get"
    BY <2>1 DEF FreshnessInv
  <2>2. CASE processor_pc # "get"
    <3>1. staleness_samples < MaxRequiredSamples
      BY <1>6, <1>7, <2>2 DEF ProcessorTakePending, MayTakePending, ShouldPause
    <3> QED BY <1>5, <1>6, <1>7, <3>1 DEF FreshnessInv, FreshnessCounter
  <2> QED BY <2>1, <2>2
<1>9. FreshnessCounter'
  BY <1>5, <1>6 DEF FreshnessInv, FreshnessCounter
<1>10. OutstandingBound'
  BY <1>5, <1>7, <1>8 DEF OutstandingBound
<1>11. processor_pc' # "get"
  BY DEF ProcessorTakePending, AfterTake
<1> QED BY <1>9, <1>10, <1>11 DEF FreshnessInv

(***************************************************************************)
(* The recount of update_param_version covers all that is outstanding but  *)
(* the sample in the processor's hand.                                     *)
(***************************************************************************)
LEMMA FreshnessRecount ==
  ASSUME TypeInv, TypeOK', FreshnessInv, HandEmpty', UpdateParamVersion
  PROVE  FreshnessInv'
<1>1. Terms /\ Terms'
  BY OutstandingTerms, OutstandingTermsPrimed DEF TypeInv
<1>2. UNCHANGED << held, running, cancel_queue, queue, processor_pc >>
  BY DEF UpdateParamVersion, PutValidate
<1>3. Outstanding' = Outstanding
  BY <1>2 DEF Outstanding, InHand, SamplesIn
<1>4. staleness_samples' = RecountedSamples
  BY DEF UpdateParamVersion
<1>5. SamplesIn(queue) <= Len(queue) /\ Len(queue) \in Nat /\ SamplesIn(queue) \in Nat
  <2>1. queue \in Seq(Entries)
    BY DEF TypeInv, TypeOK, QueueTypes
  <2>2. Len(queue) \in Nat
    BY <2>1
  <2> QED BY <2>1, <2>2, SamplesInType
<1>6. ActiveTasks \in Nat /\ Cardinality(running) \in Nat /\ Cardinality(running) <= ActiveTasks
  <2>1. finished \in Nat /\ finished_failed \in Nat
    BY DEF TypeInv, TypeOK, TaskTypes
  <2> QED BY <2>1, ActiveTasksType DEF ActiveTasks, TypeInv
<1>7. Outstanding <= RecountedSamples + 1 /\ RecountedSamples \in Nat /\ Outstanding \in Nat
  <2>1. /\ Cardinality(InHand) \in 0..1 /\ Len(cancel_queue) \in Nat /\ Outstanding \in Nat
        /\ Outstanding = Cardinality(InHand) + Cardinality(running) + Len(cancel_queue)
                            + SamplesIn(queue)
    BY <1>1 DEF Terms
  <2> QED BY <1>5, <1>6, <2>1 DEF RecountedSamples
<1>8. FreshnessCounter'
  BY <1>3, <1>4, <1>7 DEF FreshnessCounter
<1>9. processor_pc' = "get" => Outstanding <= MaxRequiredSamples
  BY <1>2 DEF FreshnessInv
<1>10. Outstanding' <= Outstanding
  BY <1>3, <1>7
<1> QED BY <1>8, <1>9, <1>10, BoundsKept DEF TypeInv

(***************************************************************************)
(* The steps that move a sample between the places Outstanding counts, or  *)
(* out of them, add nothing to it.                                         *)
(***************************************************************************)
LEMMA MovesAddNothing ==
  ASSUME TypeInv, TypeOK', HandEmpty,
         \/ ProcessorTakeCancelled \/ ProcessorSubmit
         \/ TrainerGetSample \/ TrainerGetEndSignal \/ MainSendEndSignal
         \/ \E s \in Samples : TaskPut(s) \/ TaskCancelled(s) \/ TaskFail(s)
  PROVE  Outstanding' <= Outstanding
<1>1. Terms /\ Terms'
  BY OutstandingTerms, OutstandingTermsPrimed DEF TypeInv
<1>2. queue \in Seq(Entries) /\ IsFiniteSet(running)
  BY ActiveTasksType DEF TypeInv, TypeOK, QueueTypes
<1>sum. /\ Cardinality(InHand) \in Nat /\ Cardinality(running) \in Nat
        /\ Len(cancel_queue) \in Nat /\ SamplesIn(queue) \in Nat
        /\ Outstanding = Cardinality(InHand) + Cardinality(running) + Len(cancel_queue)
                            + SamplesIn(queue)
  BY SMTT(30), <1>1 DEF Terms
<1>sumNext. /\ Cardinality(InHand)' \in Nat /\ Cardinality(running)' \in Nat
            /\ Len(cancel_queue)' \in Nat /\ SamplesIn(queue)' \in Nat
            /\ Outstanding' = Cardinality(InHand)' + Cardinality(running)'
                                 + Len(cancel_queue)' + SamplesIn(queue)'
  BY SMTT(30), <1>1 DEF Terms
<1>3. CASE ProcessorTakeCancelled
  <2>1. cancel_queue \in Seq(Samples) /\ cancel_queue # << >>
    BY <1>3 DEF ProcessorTakeCancelled, TypeInv, TypeOK, TaskTypes
  <2>2. Len(cancel_queue') = Len(cancel_queue) - 1
    BY <1>3, <2>1, HeadTailProperties DEF ProcessorTakeCancelled
  <2>3. held = None
    BY <1>3 DEF ProcessorTakeCancelled, HandEmpty
  <2>4. UNCHANGED << running, queue >>
    BY <1>3 DEF ProcessorTakeCancelled
  <2>5. SamplesIn(queue)' = SamplesIn(queue) /\ Cardinality(running)' = Cardinality(running)
    BY <2>4 DEF SamplesIn
  <2> QED BY <1>1, <2>2, <2>3, <2>5 DEF Terms
<1>4. CASE ProcessorSubmit
  <2>1. held # None /\ held' = None
    BY <1>4 DEF ProcessorSubmit, TypeInv, HandFilled
  <2>2. running' = running \cup {held}
    BY <1>4 DEF ProcessorSubmit
  <2>3. Cardinality(running') <= Cardinality(running) + 1
    <3>1. Cardinality(running \cup {held}) =
            IF held \in running THEN Cardinality(running) ELSE Cardinality(running) + 1
      BY <1>2, FS_AddElement
    <3> QED BY <1>sum, <2>2, <3>1
  <2>4. UNCHANGED << cancel_queue, queue >>
    BY <1>4 DEF ProcessorSubmit
  <2>5. SamplesIn(queue)' = SamplesIn(queue) /\ Len(cancel_queue)' = Len(cancel_queue)
    BY <2>4 DEF SamplesIn
  <2> QED BY <1>1, <2>1, <2>3, <2>5 DEF Terms
<1>5. CASE TrainerGetSample \/ TrainerGetEndSignal
  <2>1. queue # << >> /\ queue' = Tail(queue)
    BY <1>5 DEF TrainerGetSample, TrainerGetEndSignal, GetSample
  <2>2. SamplesIn(queue') <= SamplesIn(queue)
    BY <1>2, <2>1, SamplesInTail
  <2>3. UNCHANGED << held, running, cancel_queue >>
    BY <1>5 DEF TrainerGetSample, TrainerGetEndSignal
  <2>4. /\ Cardinality(InHand)' = Cardinality(InHand) /\ Cardinality(running)' = Cardinality(running)
        /\ Len(cancel_queue)' = Len(cancel_queue)
    BY <2>3 DEF InHand
  <2> QED BY <1>sum, <1>sumNext, <2>2, <2>4
<1>6. CASE MainSendEndSignal
  <2>1. Entry(None, rollout_version) \in Entries /\ Entry(None, rollout_version).sample = None
    BY RollouterAssumption DEF TypeInv, TypeOK, ControlTypes, Entry, Entries, None
  <2>2. PutSample(Entry(None, rollout_version))
    BY <1>6 DEF MainSendEndSignal
  <2> HIDE DEF TypeInv
  <2>3. SamplesIn(queue') <= SamplesIn(queue) + 0
    BY <1>2, <2>1, <2>2, SamplesInPut
  <2>4. UNCHANGED << held, running, cancel_queue >>
    BY <1>6 DEF MainSendEndSignal
  <2>5. /\ Cardinality(InHand)' = Cardinality(InHand) /\ Cardinality(running)' = Cardinality(running)
        /\ Len(cancel_queue)' = Len(cancel_queue)
    BY <2>4 DEF InHand
  <2> QED BY <1>sum, <1>sumNext, <2>3, <2>5
<1>7. ASSUME NEW s \in Samples, TaskPut(s)
      PROVE  Outstanding' <= Outstanding
  <2>1. PICK e \in putting : e.sample = s /\ PutSample(e)
    BY <1>7 DEF TaskPut
  <2>2. e \in Entries /\ s \in running /\ s # None
    BY <2>1 DEF TypeInv, TypeOK, TaskTypes, TaskStages, Stamped, Samples, None
  <2>3. SamplesIn(queue') <= SamplesIn(queue) + 1
    BY <1>2, <2>1, <2>2, SamplesInPut
  <2>4. Cardinality(running') = Cardinality(running) - 1
    BY <1>2, <1>7, <2>2, FS_RemoveElement DEF TaskPut
  <2>5. UNCHANGED << held, cancel_queue >>
    BY <1>7 DEF TaskPut
  <2>6. Cardinality(InHand)' = Cardinality(InHand) /\ Len(cancel_queue)' = Len(cancel_queue)
    BY <2>5 DEF InHand
  <2> QED BY SMTT(30), <1>sum, <1>sumNext, <2>3, <2>4, <2>6
<1>8. ASSUME NEW s \in Samples, TaskCancelled(s) \/ TaskFail(s)
      PROVE  Outstanding' <= Outstanding
  <2>1. s \in running /\ running' = running \ {s}
    BY <1>8 DEF TaskCancelled, TaskFail, TypeInv, TypeOK, TaskTypes
  <2>2. Cardinality(running)' = Cardinality(running) - 1
    BY <1>2, <2>1, FS_RemoveElement
  <2>3. Len(cancel_queue)' \in {Len(cancel_queue), Len(cancel_queue) + 1}
    BY <1>8 DEF TaskCancelled, TaskFail, TypeInv, TypeOK, TaskTypes
  <2>4. UNCHANGED << held, queue >>
    BY <1>8 DEF TaskCancelled, TaskFail
  <2>5. Cardinality(InHand)' = Cardinality(InHand) /\ SamplesIn(queue)' = SamplesIn(queue)
    BY <2>4 DEF InHand, SamplesIn
  <2>6. CASE Len(cancel_queue)' = Len(cancel_queue)
    BY SMTT(30), <1>sum, <1>sumNext, <2>2, <2>5, <2>6
  <2>7. CASE Len(cancel_queue)' = Len(cancel_queue) + 1
    BY SMTT(30), <1>sum, <1>sumNext, <2>2, <2>5, <2>7
  <2> QED BY <2>3, <2>6, <2>7
<1> QED BY <1>3, <1>4, <1>5, <1>6, <1>7, <1>8

(***************************************************************************)
(* FreshnessInv is inductive, next to TypeInv.                             *)
(***************************************************************************)
LEMMA FreshnessInvNext ==
  ASSUME TypeInv, TypeOK', FreshnessInv, [Next]_vars
  PROVE  FreshnessInv'
<1>1. TypeOK /\ HandEmpty /\ FreshnessCounter
  BY DEF TypeInv, FreshnessInv
<1>2. HandEmpty'
  BY <1>1, HandEmptyNext
<1>3. Terms /\ Terms'
  BY <1>1, OutstandingTerms, OutstandingTermsPrimed
<1>4. /\ Outstanding \in Nat /\ staleness_samples \in Nat /\ MaxRequiredSamples \in Nat
  BY <1>3, RollouterAssumption DEF Terms
<1>5. ASSUME Outstanding' <= Outstanding,
             staleness_samples' \in {staleness_samples, staleness_samples + 1},
             processor_pc' = "get" => Outstanding <= MaxRequiredSamples
      PROVE  FreshnessInv'
  <2>1. FreshnessCounter'
    BY <1>1, <1>5, CounterKept
  <2> QED BY <1>1, <1>2, <1>5, <2>1, BoundsKept
<1>6. CASE ProcessorTakePending
  BY <1>2, <1>6, FreshnessTakePending
<1>7. CASE UpdateParamVersion
  BY <1>2, <1>7, FreshnessRecount
<1>8. CASE ProcessorTakeCancelled \/ ProcessorSubmit
  <2>1. Outstanding' <= Outstanding
    BY <1>1, <1>8, MovesAddNothing
  <2>2. staleness_samples' = staleness_samples /\ processor_pc' # "get"
    BY <1>8 DEF ProcessorTakeCancelled, ProcessorSubmit, AfterTake
  <2> QED BY <1>5, <2>1, <2>2
<1>9. CASE TrainerGetSample \/ TrainerGetEndSignal \/ MainSendEndSignal
  <2>1. Outstanding' <= Outstanding
    BY <1>1, <1>9, MovesAddNothing
  <2>2. staleness_samples' = staleness_samples /\ processor_pc' = processor_pc
    BY <1>9 DEF TrainerGetSample, TrainerGetEndSignal, MainSendEndSignal
  <2> QED BY <1>5, <2>1, <2>2 DEF FreshnessInv
<1>10. ASSUME NEW s \in Samples, TaskPut(s) \/ TaskCancelled(s) \/ TaskFail(s)
       PROVE  FreshnessInv'
  <2>1. Outstanding' <= Outstanding
    BY <1>1, <1>10, MovesAddNothing
  <2>2. staleness_samples' = staleness_samples /\ processor_pc' = processor_pc
    BY <1>10 DEF TaskPut, TaskCancelled, TaskFail
  <2> QED BY <1>5, <2>1, <2>2 DEF FreshnessInv
<1>11. CASE ProcessorTakeDone
  <2>1. UNCHANGED << held, running, cancel_queue, queue >>
    BY <1>11 DEF ProcessorTakeDone
  <2>2. Outstanding' = Outstanding
    BY <2>1 DEF Outstanding, InHand, SamplesIn
  <2>3. staleness_samples' = staleness_samples + 1 /\ processor_pc' # "get"
    BY <1>11 DEF ProcessorTakeDone
  <2> QED BY <1>4, <1>5, <2>2, <2>3
<1>12. CASE ProcessorAwaitPending
  <2>1. UNCHANGED << held, running, cancel_queue, queue, staleness_samples >>
    BY <1>12 DEF ProcessorAwaitPending
  <2>2. Outstanding' = Outstanding
    BY <2>1 DEF Outstanding, InHand, SamplesIn
  <2>3. staleness_samples < MaxRequiredSamples
    BY <1>4, <1>12 DEF ProcessorAwaitPending, ShouldPause
  <2>4. Outstanding <= MaxRequiredSamples
    BY <1>1, <1>4, <2>3 DEF FreshnessCounter
  <2> QED BY <1>4, <1>5, <2>1, <2>2, <2>4
<1>13. CASE /\ UNCHANGED << held, running, cancel_queue, queue, staleness_samples >>
            /\ processor_pc' = "get" => processor_pc = "get"
  <2>1. Outstanding' = Outstanding
    BY <1>13 DEF Outstanding, InHand, SamplesIn
  <2> QED BY <1>4, <1>5, <1>13, <2>1 DEF FreshnessInv
<1> QED BY <1>6, <1>7, <1>8, <1>9, <1>10, <1>11, <1>12, <1>13, Frames DEF FreshnessActions

(***************************************************************************)
(* The freshness counter of the Rollouter is at most one behind what is    *)
(* outstanding: update_param_version, wherever it falls, misses no more    *)
(* than the sample in the processor's hand.                                *)
(***************************************************************************)
THEOREM FreshnessCorrect == Spec => []FreshnessCounter
<1>1. FreshnessInv => FreshnessCounter
  BY DEF FreshnessInv
<1> QED BY <1>1, TypeInvariant, FreshnessInvInit, FreshnessInvNext, PTL DEF Spec, TypeInv

(***************************************************************************)
(* What is generated ahead of the Trainer exceeds max_required_samples by  *)
(* at most one sample, whatever the staleness threshold.                   *)
(***************************************************************************)
THEOREM OutstandingCorrect == Spec => []OutstandingBound
<1>1. FreshnessInv => OutstandingBound
  BY DEF FreshnessInv
<1> QED BY <1>1, TypeInvariant, FreshnessInvInit, FreshnessInvNext, PTL DEF Spec, TypeInv

-----------------------------------------------------------------------------
(* Validation records.                                                     *)

\* The record of the synchronization in flight.
Unpublished == IF sync_pc # "idle" \/ rpc = "update" THEN 1 ELSE 0

(***************************************************************************)
(* A step reads one record, so at most one may be outstanding after it;    *)
(* a synchronization adds one between wait_last_valid and the next read.   *)
(***************************************************************************)
RecordsInv ==
  /\ Len(val_queue) + Unpublished <= IF trainer_pc \in {"sync", "log"} THEN 2 ELSE 1
  /\ TrainerEnded => val_queue = << >> /\ LastSyncOver

LEMMA RecordsInvInit == Init => RecordsInv
  BY DEF Init, MQInit, RollouterInit, RecordsInv, Unpublished, TrainerEnded

LEMMA RecordsInvNext ==
  ASSUME TypeInv, VersionInv, RecordsInv, [Next]_vars
  PROVE  RecordsInv'
<1>0. /\ val_queue \in Seq(Nat) /\ Len(val_queue) \in Nat
      /\ sync_pc \in {"idle", "pausing", "transfer"}
  BY DEF TypeInv, TypeOK, QueueTypes, TrainerTypes
<1> HIDE DEF TypeInv
<1> USE DEF RecordsInv, Unpublished, TrainerEnded, LastSyncOver
<1>1. CASE TrainerGetSample \/ TrainerGetEndSignal
  BY <1>1 DEF TrainerGetSample, TrainerGetEndSignal, GetSample
<1>2. CASE TrainerUpdate
  BY <1>2 DEF TrainerUpdate
<1>3. CASE TrainerSync
  BY <1>0, <1>3 DEF TrainerSync
<1>4. CASE TrainerLog \/ TrainerFinish
  <2>1. val_queue = << >> => val_queue' = << >> /\ Len(val_queue') = 0
    BY <1>4 DEF TrainerLog, TrainerFinish, GetValidate
  <2>2. val_queue # << >> => Len(val_queue') = Len(val_queue) - 1 /\ Len(val_queue') \in Nat
    BY <1>0, <1>4, HeadTailProperties DEF TrainerLog, TrainerFinish, GetValidate
  <2>3. val_queue' \in Seq(Nat) /\ (Len(val_queue') = 0 => val_queue' = << >>)
    BY <1>0, <1>4, EmptySeq DEF TrainerLog, TrainerFinish, GetValidate
  <2>4. Unpublished' = Unpublished /\ (trainer_pc = "finish" => Unpublished = 0)
    BY <1>4 DEF TrainerLog, TrainerFinish
  <2>5. CASE TrainerLog
    BY <1>0, <2>1, <2>2, <2>4, <2>5 DEF TrainerLog
  <2>6. CASE TrainerFinish
    BY <1>0, <2>1, <2>2, <2>3, <2>4, <2>6 DEF TrainerFinish
  <2> QED BY <1>4, <2>5, <2>6
<1>5. CASE SyncUpdateQueue
  BY <1>5 DEF SyncUpdateQueue, UpdateQueueVersion
<1>6. CASE SyncRelease
  BY <1>6 DEF SyncRelease
<1>7. ASSUME Handlers, UNCHANGED << trainerVars, syncVars >>
      PROVE  RecordsInv'
  <2>1. CASE RpcArrive \/ PauseBegin \/ PauseEnd \/ Resume
    BY <1>7, <2>1 DEF RpcArrive, PauseBegin, PauseEnd, Resume, VersionInv
  <2>2. CASE UpdateParamVersion
    <3>1. Len(val_queue') = Len(val_queue) + 1
      BY <1>0, <2>2 DEF UpdateParamVersion, PutValidate
    <3>2. Unpublished = 1 /\ Unpublished' = 0 /\ ~TrainerEnded
      BY <1>0, <1>7, <2>2 DEF UpdateParamVersion, VersionInv
    <3> QED BY <1>0, <1>7, <3>1, <3>2
  <2> QED BY <1>7, <2>1, <2>2 DEF Handlers
<1>8. CASE UNCHANGED << val_queue, trainer_pc, sync_pc, rpc >>
  BY <1>8
<1>9. Trainer \/ Synchronizer \/ (Handlers /\ UNCHANGED << trainerVars, syncVars >>)
      \/ UNCHANGED << val_queue, trainer_pc, sync_pc, rpc >>
  <2>1. CASE Trainer \/ Synchronizer
    BY <2>1
  <2>2. CASE ~(Trainer \/ Synchronizer) /\ VersionActions
    BY <2>2, Frames DEF VersionActions, Handlers
  <2>3. CASE ~(Trainer \/ Synchronizer) /\ ~VersionActions
    <3>1. UNCHANGED << trainer_pc, sync_pc, rpc >>
      BY <2>3, Frames
    <3>2. UNCHANGED val_queue
      BY <2>3, Frames DEF QueueActions, VersionActions, Trainer, Synchronizer,
                          MainSendEndSignal, TaskPut, PutSample
    <3> QED BY <3>1, <3>2
  <2> QED BY <2>1, <2>2, <2>3
<1> QED BY <1>1, <1>2, <1>3, <1>4, <1>5, <1>6, <1>7, <1>8, <1>9 DEF Trainer, Synchronizer

LEMMA VersionInvariant == Spec => []VersionInv
  BY VersionInvInit, VersionInvNext, TypeInvariant, PTL DEF Spec

(***************************************************************************)
(* No validation record is unread when fit ends.                           *)
(***************************************************************************)
THEOREM RecordsRead == Spec => []ValidationRecordsRead
<1>1. RecordsInv => ValidationRecordsRead
  BY DEF RecordsInv, ValidationRecordsRead
<1> QED BY <1>1, RecordsInvInit, RecordsInvNext, VersionInvariant, TypeInvariant, PTL DEF Spec

-----------------------------------------------------------------------------
(* The end of the stream.                                                  *)

(***************************************************************************)
(* The Done mark is the last thing fed, so the processor that has taken it *)
(* has an empty pending_queue before it for good, and no task when it      *)
(* returns; only then is the end signal put, behind every sample.          *)
(***************************************************************************)
DoneLast ==
  \A i \in DOMAIN pending_queue :
    pending_queue[i] = Done => fed = TotalRolloutSteps + 1 /\ i = Len(pending_queue)

DoneTaken ==
  processor_pc \in {"final_drain", "done"} =>
    fed = TotalRolloutSteps + 1 /\ pending_queue = << >>

EndInv ==
  /\ DoneLast
  /\ DoneTaken
  /\ processor_pc = "done" => running = {}
  /\ main_pc = "stream" => \A i \in DOMAIN queue : queue[i].sample # None
  /\ main_pc # "stream" => processor_pc \in {"done", "crashed"}
  /\ main_pc # "stream" /\ processor_pc = "done" =>
       \A i \in DOMAIN queue : queue[i].sample = None <=> i = Len(queue)

(***************************************************************************)
(* Which actions move samples.                                             *)
(***************************************************************************)
RollouterStream ==
  \/ Feeder \/ ProcessorTakeCancelled \/ ProcessorTakePending \/ ProcessorTakeDone
  \/ ProcessorSubmit \/ MainSendEndSignal
  \/ \E s \in Samples : TaskPut(s) \/ TaskCancelled(s) \/ TaskFail(s)

StreamActions ==
  \/ RollouterStream /\ UNCHANGED << trainerVars, syncVars >>
  \/ TrainerGetSample \/ TrainerGetEndSignal \/ TrainerUpdate

Places == << queue, pending_queue, fed, cancel_queue, held, running, failed_samples,
             batch, trained >>

LEMMA StreamFrames ==
  ASSUME [Next]_vars
  PROVE  /\ StreamActions \/ UNCHANGED << Places, dropped_samples >>
         /\ StreamActions \/ MainStop \/ main_pc' = main_pc
         /\ \/ StreamActions \/ ProcessorReap \/ ProcessorNothingToReap
            \/ processor_pc' = processor_pc
            \/ {processor_pc, processor_pc'} \cap {"final_drain", "done", "crashed"} = {}
<1> USE DEF Next, RollouterNext, Processor, Task, Server, Monitor, Main, Handlers,
            Trainer, Synchronizer, Ended, Places
<1> USE DEF ProcessorMustPause, ProcessorAwaitPending, ProcessorSetPause,
            ProcessorReap, ProcessorNothingToReap, ProcessorWaitCondition, ProcessorWoken,
            ProcessorResumed, TaskStamp, ServerAdmit, ServerInterrupt, MonitorCheck,
            MonitorResume, MonitorStop, MainStop, RpcArrive, PauseBegin, PauseEnd,
            UpdateParamVersion, Resume, TrainerSync, TrainerLog, TrainerFinish,
            SyncUpdateQueue, SyncRelease, GetValidate, PutValidate, UpdateQueueVersion
<1>1. StreamActions \/ UNCHANGED << Places, dropped_samples >>
  BY SMTT(60) DEF StreamActions, RollouterStream
<1>2. StreamActions \/ MainStop \/ main_pc' = main_pc
  BY SMTT(60) DEF StreamActions, RollouterStream
<1>3. \/ StreamActions \/ ProcessorReap \/ ProcessorNothingToReap
      \/ processor_pc' = processor_pc
      \/ {processor_pc, processor_pc'} \cap {"final_drain", "done", "crashed"} = {}
  BY SMTT(60) DEF StreamActions, RollouterStream, AfterReap
<1> QED BY <1>1, <1>2, <1>3

(***************************************************************************)
(* Where the entries of the queue come from after a get and after a put.   *)
(***************************************************************************)
LEMMA TailEntries ==
  ASSUME NEW T, NEW q \in Seq(T), q # << >>
  PROVE  /\ Len(q) \in Nat \ {0} /\ DOMAIN q = 1..Len(q)
         /\ Tail(q) \in Seq(T) /\ Len(Tail(q)) = Len(q) - 1
         /\ DOMAIN Tail(q) = 1..(Len(q) - 1)
         /\ Head(q) = q[1]
         /\ \A i \in 1..(Len(q) - 1) : Tail(q)[i] = q[i + 1]
  BY HeadTailProperties, EmptySeq

LEMMA AppendEntries ==
  ASSUME NEW T, NEW q \in Seq(T), NEW x \in T
  PROVE  /\ Append(q, x) \in Seq(T)
         /\ Len(q) \in Nat /\ DOMAIN q = 1..Len(q)
         /\ Len(Append(q, x)) = Len(q) + 1
         /\ DOMAIN Append(q, x) = 1..(Len(q) + 1)
         /\ Append(q, x)[Len(q) + 1] = x
         /\ \A i \in 1..Len(q) : Append(q, x)[i] = q[i]
  OBVIOUS

\* How many entries a put drops.
Overwritten == IF QueueFull THEN 1 ELSE 0

LEMMA PutEntries ==
  ASSUME queue \in Seq(Entries), NEW e \in Entries, PutSample(e)
  PROVE  /\ Overwritten \in 0..1
         /\ Len(queue) \in Nat /\ DOMAIN queue = 1..Len(queue)
         /\ Overwritten = 1 => Len(queue) > 0
         /\ Len(queue') = Len(queue) - Overwritten + 1
         /\ DOMAIN queue' = 1..Len(queue')
         /\ queue'[Len(queue')] = e
         /\ \A i \in 1..(Len(queue') - 1) : queue'[i] = queue[i + Overwritten]
<1>1. CASE QueueFull
  <2>1. queue # << >> /\ queue' = Append(Tail(queue), e)
    BY <1>1, MaxQueueSizeAssumption DEF QueueFull, PutSample
  <2>2. /\ Len(queue) \in Nat \ {0} /\ DOMAIN queue = 1..Len(queue)
        /\ Tail(queue) \in Seq(Entries) /\ Len(Tail(queue)) = Len(queue) - 1
        /\ \A i \in 1..(Len(queue) - 1) : Tail(queue)[i] = queue[i + 1]
    BY <2>1, TailEntries
  <2>3. /\ Len(queue') = Len(queue) /\ DOMAIN queue' = 1..Len(queue)
        /\ queue'[Len(queue)] = e
        /\ \A i \in 1..(Len(queue) - 1) : queue'[i] = Tail(queue)[i]
    BY <2>1, <2>2, AppendEntries
  <2>4. Overwritten = 1
    BY <1>1 DEF Overwritten
  <2> QED BY <2>2, <2>3, <2>4
<1>2. CASE ~QueueFull
  <2>1. queue' = Append(queue, e)
    BY <1>2 DEF PutSample
  <2>2. /\ Len(queue) \in Nat /\ DOMAIN queue = 1..Len(queue)
        /\ Len(queue') = Len(queue) + 1 /\ DOMAIN queue' = 1..(Len(queue) + 1)
        /\ queue'[Len(queue) + 1] = e
        /\ \A i \in 1..Len(queue) : queue'[i] = queue[i]
    BY <2>1, AppendEntries
  <2>3. Overwritten = 0
    BY <1>2 DEF Overwritten
  <2> QED BY <2>2, <2>3
<1> QED BY <1>1, <1>2

LEMMA EndInvInit == Init => EndInv
<1> SUFFICES ASSUME Init PROVE EndInv
  OBVIOUS
<1>1. DOMAIN queue = {} /\ DOMAIN pending_queue = {}
  BY DEF Init, MQInit, RollouterInit
<1> QED BY <1>1 DEF Init, RollouterInit, EndInv, DoneLast, DoneTaken

(***************************************************************************)
(* The feeder and the processor keep the Done mark last.                   *)
(***************************************************************************)
LEMMA DoneLastNext ==
  ASSUME TypeInv, DoneLast, DoneTaken, [Next]_vars
  PROVE  DoneLast' /\ DoneTaken'
<1>fed. fed \in 0..(TotalRolloutSteps + 1) /\ TotalRolloutSteps \in Nat \ {0}
  BY RollouterAssumption DEF TypeInv, TypeOK, ProcessorTypes
<1>seq. pending_queue \in Seq(0..TotalRolloutSteps)
  BY DEF TypeInv, TypeOK, ProcessorTypes
<1>len. Len(pending_queue) \in Nat /\ DOMAIN pending_queue = 1..Len(pending_queue)
  BY <1>seq
<1> HIDE DEF TypeInv
<1>1. CASE FeedSample
  <2>1. fed + 1 \in 0..TotalRolloutSteps /\ fed + 1 # Done /\ fed # TotalRolloutSteps + 1
    BY <1>fed, <1>1 DEF FeedSample, Done
  <2>2. /\ DOMAIN pending_queue' = 1..(Len(pending_queue) + 1)
        /\ pending_queue'[Len(pending_queue) + 1] = fed + 1
        /\ \A i \in 1..Len(pending_queue) : pending_queue'[i] = pending_queue[i]
    BY <1>seq, <1>fed, <1>1, <2>1, AppendEntries DEF FeedSample
  <2>3. \A i \in DOMAIN pending_queue' : pending_queue'[i] # Done
    BY <1>len, <2>1, <2>2 DEF DoneLast
  <2>4. processor_pc' = processor_pc
    BY <1>1 DEF FeedSample
  <2> QED BY <2>1, <2>3, <2>4 DEF DoneLast, DoneTaken
<1>2. CASE FeedDone
  <2>1. Done \in 0..TotalRolloutSteps /\ fed # TotalRolloutSteps + 1
        /\ fed' = TotalRolloutSteps + 1
    BY <1>fed, <1>2 DEF FeedDone, Done
  <2>2. /\ DOMAIN pending_queue' = 1..(Len(pending_queue) + 1)
        /\ Len(pending_queue') = Len(pending_queue) + 1
        /\ pending_queue'[Len(pending_queue) + 1] = Done
        /\ \A i \in 1..Len(pending_queue) : pending_queue'[i] = pending_queue[i]
    BY <1>seq, <1>2, <2>1, AppendEntries DEF FeedDone
  <2>3. DoneLast'
    BY <1>len, <2>1, <2>2 DEF DoneLast
  <2>4. processor_pc' = processor_pc
    BY <1>2 DEF FeedDone
  <2> QED BY <2>1, <2>3, <2>4 DEF DoneLast, DoneTaken
<1>3. CASE ProcessorTakePending \/ ProcessorTakeDone
  <2>1. pending_queue # << >> /\ pending_queue' = Tail(pending_queue) /\ fed' = fed
    BY <1>3 DEF ProcessorTakePending, ProcessorTakeDone, MayTakePending
  <2>2. /\ Len(pending_queue) \in Nat \ {0}
        /\ Len(pending_queue') = Len(pending_queue) - 1
        /\ DOMAIN pending_queue' = 1..(Len(pending_queue) - 1)
        /\ Head(pending_queue) = pending_queue[1]
        /\ \A i \in 1..(Len(pending_queue) - 1) : pending_queue'[i] = pending_queue[i + 1]
    BY <1>seq, <2>1, TailEntries
  <2>3. DoneLast'
    <3> SUFFICES ASSUME NEW i \in 1..(Len(pending_queue) - 1), pending_queue'[i] = Done
                 PROVE  fed' = TotalRolloutSteps + 1 /\ i = Len(pending_queue')
      BY <2>2 DEF DoneLast
    <3>1. i + 1 \in DOMAIN pending_queue /\ pending_queue[i + 1] = Done
      BY <1>len, <2>2
    <3>2. fed = TotalRolloutSteps + 1 /\ i + 1 = Len(pending_queue)
      BY <3>1 DEF DoneLast
    <3>3. i \in Int
      BY <2>2
    <3>4. Len(pending_queue') = Len(pending_queue) - 1
      BY <2>2
    <3>5. fed' = fed
      BY <2>1
    <3>6. Len(pending_queue) \in Int
      BY <1>len
    <3>7. i = Len(pending_queue')
      BY <3>2, <3>3, <3>4, <3>6
    <3> QED BY <3>2, <3>5, <3>7
  <2>4. CASE ProcessorTakePending
    <3>1. processor_pc' \notin {"final_drain", "done"}
      BY <2>4 DEF ProcessorTakePending, AfterTake
    <3> QED BY <2>3, <3>1 DEF DoneTaken
  <2>5. CASE ProcessorTakeDone
    <3>1. pending_queue[1] = Done
      BY <2>2, <2>5 DEF ProcessorTakeDone
    <3>2. fed = TotalRolloutSteps + 1 /\ Len(pending_queue) = 1
      BY <1>len, <2>2, <3>1 DEF DoneLast
    <3>3. pending_queue' = << >>
      BY <1>seq, <2>1, <2>2, <3>2, EmptySeq
    <3> QED BY <2>1, <2>3, <3>2, <3>3 DEF DoneTaken
  <2> QED BY <1>3, <2>4, <2>5
<1>4. CASE ProcessorReap \/ ProcessorNothingToReap
  <2>1. UNCHANGED << fed, pending_queue >>
    BY <1>4 DEF ProcessorReap, ProcessorNothingToReap
  <2>2. processor_pc' \in {"final_drain", "done"} => processor_pc = "final_drain"
    BY <1>4 DEF ProcessorReap, ProcessorNothingToReap, ReapLoops, Crash, ContinueAfterReap,
                AfterReap, AfterTake
  <2> QED BY <2>1, <2>2 DEF DoneLast, DoneTaken
<1>5. CASE ProcessorTakeCancelled \/ ProcessorSubmit
  BY <1>5 DEF DoneLast, DoneTaken, ProcessorTakeCancelled, ProcessorSubmit, AfterTake
<1>6. CASE MainSendEndSignal \/ TrainerGetSample \/ TrainerGetEndSignal \/ TrainerUpdate
  BY <1>6 DEF DoneLast, DoneTaken, MainSendEndSignal, TrainerGetSample, TrainerGetEndSignal, TrainerUpdate
<1>7. ASSUME NEW s \in Samples, TaskPut(s) \/ TaskCancelled(s) \/ TaskFail(s)
      PROVE  DoneLast' /\ DoneTaken'
  BY <1>7 DEF DoneLast, DoneTaken, TaskPut, TaskCancelled, TaskFail
<1>8. CASE /\ UNCHANGED << fed, pending_queue >>
           /\ \/ processor_pc' = processor_pc
              \/ {processor_pc, processor_pc'} \cap {"final_drain", "done", "crashed"} = {}
  BY <1>8 DEF DoneLast, DoneTaken
<1> QED BY <1>1, <1>2, <1>3, <1>4, <1>5, <1>6, <1>7, <1>8, StreamFrames
        DEF StreamActions, RollouterStream, Feeder, Places

LEMMA NoActiveTasks ==
  ASSUME TypeInv, ~(ActiveTasks > 0) \/ Cardinality(running) <= 0
  PROVE  running = {}
<1>1. /\ IsFiniteSet(running) /\ Cardinality(running) \in Nat
      /\ finished \in Nat /\ finished_failed \in Nat
  BY ActiveTasksType DEF TypeInv, TypeOK, TaskTypes
<1>2. Cardinality(running) = 0
  BY <1>1 DEF ActiveTasks
<1> QED BY <1>1, <1>2, FS_EmptySet

(***************************************************************************)
(* What EndInv says of the queue, after a get and after a put.             *)
(***************************************************************************)
QueueEnd ==
  /\ main_pc = "stream" => \A i \in DOMAIN queue : queue[i].sample # None
  /\ main_pc # "stream" => processor_pc \in {"done", "crashed"}
  /\ main_pc # "stream" /\ processor_pc = "done" =>
       \A i \in DOMAIN queue : queue[i].sample = None <=> i = Len(queue)

LEMMA QueueEndGet ==
  ASSUME queue \in Seq(Entries), QueueEnd, GetSample, UNCHANGED << main_pc, processor_pc >>
  PROVE  QueueEnd'
<1>1. queue # << >> /\ queue' = Tail(queue)
  BY DEF GetSample
<1>2. /\ Len(queue) \in Nat \ {0} /\ DOMAIN queue = 1..Len(queue)
      /\ Len(queue') = Len(queue) - 1 /\ DOMAIN queue' = 1..(Len(queue) - 1)
      /\ \A i \in 1..(Len(queue) - 1) : queue'[i] = queue[i + 1]
  BY <1>1, TailEntries
<1>3. ASSUME NEW i \in DOMAIN queue'
      PROVE  i + 1 \in DOMAIN queue /\ queue'[i] = queue[i + 1]
             /\ (i = Len(queue') <=> i + 1 = Len(queue))
  BY <1>2, <1>3
<1>4. CASE main_pc = "stream"
  BY <1>3, <1>4 DEF QueueEnd
<1>5. CASE main_pc # "stream" /\ processor_pc = "done"
  <2> SUFFICES ASSUME NEW i \in DOMAIN queue'
               PROVE  queue'[i].sample = None <=> i = Len(queue')
    BY <1>5 DEF QueueEnd
  <2> QED BY <1>3, <1>5 DEF QueueEnd
<1> QED BY <1>4, <1>5 DEF QueueEnd

LEMMA QueueEndPut ==
  ASSUME queue \in Seq(Entries), QueueEnd, NEW e \in Entries, PutSample(e),
         processor_pc' = processor_pc, processor_pc' = "done" => main_pc = "stream",
         \/ main_pc' = main_pc /\ e.sample # None
         \/ main_pc' # "stream" /\ e.sample = None /\ processor_pc \in {"done", "crashed"}
  PROVE  QueueEnd'
<1>1. /\ DOMAIN queue' = 1..Len(queue') /\ queue'[Len(queue')] = e /\ Len(queue') \in Nat
      /\ \A i \in 1..(Len(queue') - 1) : i + Overwritten \in DOMAIN queue
                                         /\ queue'[i] = queue[i + Overwritten]
  BY PutEntries
<1>2. ASSUME NEW i \in DOMAIN queue'
      PROVE  \/ i = Len(queue') /\ queue'[i] = e
             \/ i # Len(queue') /\ \E j \in DOMAIN queue : queue'[i] = queue[j]
  <2>1. CASE i = Len(queue')
    BY <1>1, <2>1
  <2>2. CASE i # Len(queue')
    <3>1. i \in 1..(Len(queue') - 1)
      BY <1>1, <2>2
    <3> QED BY <1>1, <2>2, <3>1
  <2> QED BY <2>1, <2>2
<1>3. CASE main_pc' = "stream"
  BY <1>2, <1>3 DEF QueueEnd
<1>4. CASE main_pc' # "stream" /\ processor_pc' = "done"
  <2>1. main_pc = "stream" /\ e.sample = None
    BY <1>4
  <2> QED BY <1>2, <1>4, <2>1 DEF QueueEnd
<1>5. main_pc' # "stream" => processor_pc' \in {"done", "crashed"}
  BY DEF QueueEnd
<1> QED BY <1>3, <1>4, <1>5 DEF QueueEnd

(***************************************************************************)
(* EndInv is inductive, next to TypeInv.                                   *)
(***************************************************************************)
LEMMA EndInvNext ==
  ASSUME TypeInv, EndInv, [Next]_vars
  PROVE  EndInv'
<1>1. DoneLast /\ DoneTaken /\ QueueEnd /\ (processor_pc = "done" => running = {})
  BY DEF EndInv, QueueEnd
<1>2. DoneLast' /\ DoneTaken'
  BY <1>1, DoneLastNext
<1>3. queue \in Seq(Entries) /\ running \subseteq Samples /\ Stamped \subseteq running
  BY DEF TypeInv, TypeOK, QueueTypes, TaskTypes, TaskStages
<1>4. SUFFICES QueueEnd' /\ (processor_pc' = "done" => running' = {})
  BY <1>2 DEF EndInv, QueueEnd
<1>5. CASE Feeder
  BY <1>1, <1>5 DEF Feeder, FeedSample, FeedDone, QueueEnd
<1>6. CASE ProcessorTakeCancelled \/ ProcessorTakePending \/ ProcessorSubmit
  BY <1>1, <1>6 DEF ProcessorTakeCancelled, ProcessorTakePending, MayTakePending,
                    ProcessorSubmit, AfterTake, QueueEnd
<1>7. CASE ProcessorTakeDone
  <2>1. /\ processor_pc \in {"top", "get"} /\ UNCHANGED << queue, main_pc, running >>
        /\ processor_pc' = "done" => ~(ActiveTasks > 0)
    BY <1>7 DEF ProcessorTakeDone, MayTakePending
  <2>2. ~(ActiveTasks > 0) => running = {}
    BY NoActiveTasks
  <2> QED BY <1>1, <2>1, <2>2 DEF QueueEnd
<1>8. CASE ProcessorReap \/ ProcessorNothingToReap
  <2>1. /\ processor_pc \in ReapLoops /\ UNCHANGED << queue, main_pc, running >>
        /\ processor_pc' = "done" => Cardinality(running) <= 0 \/ ActiveTasks = 0
    BY <1>8, ActiveTasksType
    DEF ProcessorReap, ProcessorNothingToReap, Crash, ContinueAfterReap, AfterReap,
        AfterTake, ReapLoops, TypeInv
  <2>2. processor_pc' = "done" => running = {}
    BY <2>1, NoActiveTasks
  <2> QED BY <1>1, <2>1, <2>2 DEF QueueEnd, ReapLoops
<1>9. CASE TrainerGetSample \/ TrainerGetEndSignal
  <2>1. GetSample /\ UNCHANGED << main_pc, processor_pc, running >>
    BY <1>9 DEF TrainerGetSample, TrainerGetEndSignal
  <2> QED BY <1>1, <1>3, <2>1, QueueEndGet
<1>10. CASE TrainerUpdate
  BY <1>1, <1>10 DEF TrainerUpdate, QueueEnd
<1>11. CASE MainSendEndSignal
  <2>1. Entry(None, rollout_version) \in Entries /\ Entry(None, rollout_version).sample = None
    BY RollouterAssumption DEF TypeInv, TypeOK, ControlTypes, Entry, Entries, None
  <2>2. /\ PutSample(Entry(None, rollout_version)) /\ main_pc = "stream" /\ main_pc' # "stream"
        /\ processor_pc \in {"done", "crashed"} /\ UNCHANGED << processor_pc, running >>
    BY <1>11 DEF MainSendEndSignal
  <2> QED BY <1>1, <1>3, <2>1, <2>2, QueueEndPut
<1>12. ASSUME NEW s \in Samples, TaskPut(s)
       PROVE  QueueEnd' /\ (processor_pc' = "done" => running' = {})
  <2>1. PICK e \in putting : e.sample = s /\ PutSample(e)
    BY <1>12 DEF TaskPut
  <2>2. e \in Entries /\ s \in running /\ e.sample # None
    BY <1>3, <2>1 DEF TypeInv, TypeOK, TaskTypes, Stamped, Samples, None
  <2>3. UNCHANGED << main_pc, processor_pc >> /\ processor_pc # "done"
    BY <1>1, <1>12, <2>2 DEF TaskPut
  <2> QED BY <1>1, <1>3, <2>1, <2>2, <2>3, QueueEndPut
<1>13. ASSUME NEW s \in Samples, TaskCancelled(s) \/ TaskFail(s)
       PROVE  QueueEnd' /\ (processor_pc' = "done" => running' = {})
  BY <1>1, <1>13 DEF TaskCancelled, TaskFail, QueueEnd
<1>14. CASE /\ UNCHANGED << queue, running >>
            /\ MainStop \/ main_pc' = main_pc
            /\ \/ processor_pc' = processor_pc
               \/ {processor_pc, processor_pc'} \cap {"final_drain", "done", "crashed"} = {}
  BY <1>1, <1>14 DEF QueueEnd, MainStop
<1> QED BY <1>5, <1>6, <1>7, <1>8, <1>9, <1>10, <1>11, <1>12, <1>13, <1>14, StreamFrames
        DEF StreamActions, RollouterStream, Places

LEMMA EndInvariant == Spec => []EndInv
  BY EndInvInit, EndInvNext, TypeInvariant, PTL DEF Spec

LEMMA HandEmptyInvariant == Spec => []HandEmpty
<1>1. Init => HandEmpty
  BY DEF Init, RollouterInit, HandEmpty
<1> QED BY <1>1, HandEmptyNext, PTL DEF Spec

(***************************************************************************)
(* The end signal is the last entry the Rollouter ever puts, unless its    *)
(* processor died.                                                         *)
(***************************************************************************)
THEOREM EndSignalCorrect == Spec => []EndSignalIsLast
<1>1. EndInv /\ HandEmpty => EndSignalIsLast
  <2> SUFFICES ASSUME EndInv, HandEmpty, main_pc # "stream", processor_pc = "done"
               PROVE  /\ running = {} /\ InHand = {} /\ InPending = {}
                      /\ \A i \in DOMAIN queue : queue[i].sample = None <=> i = Len(queue)
    BY DEF EndSignalIsLast
  <2>1. held = None /\ pending_queue = << >>
    BY DEF EndInv, DoneTaken, HandEmpty
  <2>2. InHand = {} /\ InPending = {}
    BY <2>1 DEF InHand, InPending
  <2> QED BY <2>2 DEF EndInv
<1> QED BY <1>1, EndInvariant, HandEmptyInvariant, PTL

-----------------------------------------------------------------------------
(* Conservation.                                                           *)

(***************************************************************************)
(* The elements of a sequence without repetitions after a get and a put.   *)
(***************************************************************************)
Elements(q) == {q[i] : i \in DOMAIN q}
NoRepeats(q) == \A i, j \in DOMAIN q : q[i] = q[j] => i = j

LEMMA ElementsTail ==
  ASSUME NEW T, NEW q \in Seq(T), q # << >>, NoRepeats(q)
  PROVE  /\ Head(q) \in Elements(q)
         /\ Elements(Tail(q)) = Elements(q) \ {Head(q)}
         /\ NoRepeats(Tail(q))
<1>1. /\ Len(q) \in Nat \ {0} /\ DOMAIN q = 1..Len(q) /\ Head(q) = q[1]
      /\ DOMAIN Tail(q) = 1..(Len(q) - 1)
      /\ \A i \in 1..(Len(q) - 1) : Tail(q)[i] = q[i + 1]
  BY TailEntries
<1>2. 1 \in DOMAIN q
  BY <1>1
<1>3. ASSUME NEW i \in DOMAIN Tail(q)
      PROVE  i + 1 \in DOMAIN q /\ i + 1 # 1 /\ Tail(q)[i] = q[i + 1]
  BY <1>1, <1>3
<1>4. ASSUME NEW i \in DOMAIN q, i # 1
      PROVE  i - 1 \in DOMAIN Tail(q) /\ Tail(q)[i - 1] = q[i]
  BY <1>1, <1>4
<1>5. Elements(Tail(q)) \subseteq Elements(q) \ {Head(q)}
  BY <1>1, <1>2, <1>3 DEF Elements, NoRepeats
<1>6. Elements(q) \ {Head(q)} \subseteq Elements(Tail(q))
  BY <1>1, <1>4 DEF Elements
<1>7. NoRepeats(Tail(q))
  <2> SUFFICES ASSUME NEW i \in DOMAIN Tail(q), NEW j \in DOMAIN Tail(q),
                      Tail(q)[i] = Tail(q)[j]
               PROVE  i = j
    BY DEF NoRepeats
  <2>1. i + 1 = j + 1
    BY <1>3 DEF NoRepeats
  <2>2. i \in Int /\ j \in Int
    BY <1>1
  <2> QED BY <2>1, <2>2
<1> QED BY <1>1, <1>2, <1>5, <1>6, <1>7 DEF Elements

LEMMA ElementsAppend ==
  ASSUME NEW T, NEW q \in Seq(T), NEW x \in T
  PROVE  /\ Elements(Append(q, x)) = Elements(q) \cup {x}
         /\ NoRepeats(q) /\ x \notin Elements(q) => NoRepeats(Append(q, x))
<1>1. /\ Len(q) \in Nat /\ DOMAIN q = 1..Len(q)
      /\ DOMAIN Append(q, x) = 1..(Len(q) + 1)
      /\ Append(q, x)[Len(q) + 1] = x
      /\ \A i \in 1..Len(q) : Append(q, x)[i] = q[i]
  BY AppendEntries
<1>2. DOMAIN Append(q, x) = DOMAIN q \cup {Len(q) + 1} /\ Len(q) + 1 \notin DOMAIN q
  BY <1>1
<1>3. \A i \in DOMAIN q : Append(q, x)[i] = q[i]
  BY <1>1
<1>4. Elements(Append(q, x)) = Elements(q) \cup {x}
  BY <1>1, <1>2, <1>3 DEF Elements
<1>5. ASSUME NoRepeats(q), x \notin Elements(q)
      PROVE  NoRepeats(Append(q, x))
  BY <1>1, <1>2, <1>3, <1>5 DEF NoRepeats, Elements
<1> QED BY <1>4, <1>5

(***************************************************************************)
(* Two sets with a bijection between them have as many elements.           *)
(***************************************************************************)
LEMMA BijectionCount ==
  ASSUME NEW S, NEW I, NEW f \in [S -> I], IsFiniteSet(S) \/ IsFiniteSet(I),
         \A y \in I : \E x \in S : f[x] = y,
         \A x, y \in S : f[x] = f[y] => x = y
  PROVE  IsFiniteSet(S) /\ IsFiniteSet(I) /\ Cardinality(I) = Cardinality(S)
<1>1. f \in Bijection(S, I)
  BY DEF Bijection, Injection, Surjection, IsInjective
<1>2. ExistsBijection(S, I)
  BY <1>1 DEF ExistsBijection
<1>3. ExistsBijection(I, S)
  BY <1>2, Fun_ExistsBijSymmetric
<1> QED BY <1>2, <1>3, FS_Bijection

(***************************************************************************)
(* The samples in the message queue after a get and after a put; the put   *)
(* may overwrite the oldest one.                                           *)
(***************************************************************************)
QueueNumbers == {queue[i].sample : i \in DOMAIN queue}
QueueDistinct == \A i, j \in DOMAIN queue : queue[i].sample = queue[j].sample => i = j

LEMMA NumbersGet ==
  ASSUME queue \in Seq(Entries), QueueDistinct, GetSample
  PROVE  /\ Head(queue) \in Entries /\ Head(queue).sample \in QueueNumbers
         /\ QueueNumbers' = QueueNumbers \ {Head(queue).sample}
         /\ QueueDistinct'
<1>1. queue # << >> /\ queue' = Tail(queue)
  BY DEF GetSample
<1>2. /\ Len(queue) \in Nat \ {0} /\ DOMAIN queue = 1..Len(queue) /\ Head(queue) = queue[1]
      /\ DOMAIN queue' = 1..(Len(queue) - 1)
      /\ \A i \in 1..(Len(queue) - 1) : queue'[i] = queue[i + 1]
  BY <1>1, TailEntries
<1>3. 1 \in DOMAIN queue
  BY <1>2
<1>4. ASSUME NEW i \in DOMAIN queue'
      PROVE  i + 1 \in DOMAIN queue /\ i + 1 # 1 /\ queue'[i] = queue[i + 1]
  BY <1>2, <1>4
<1>5. ASSUME NEW i \in DOMAIN queue, i # 1
      PROVE  i - 1 \in DOMAIN queue' /\ queue'[i - 1] = queue[i]
  BY <1>2, <1>5
<1>6. QueueNumbers' \subseteq QueueNumbers \ {Head(queue).sample}
  BY <1>2, <1>3, <1>4 DEF QueueNumbers, QueueDistinct
<1>7. QueueNumbers \ {Head(queue).sample} \subseteq QueueNumbers'
  BY <1>2, <1>5 DEF QueueNumbers
<1>8. QueueDistinct'
  <2> SUFFICES ASSUME NEW i \in DOMAIN queue', NEW j \in DOMAIN queue',
                      queue'[i].sample = queue'[j].sample
               PROVE  i = j
    BY DEF QueueDistinct
  <2>1. i + 1 = j + 1
    BY <1>4 DEF QueueDistinct
  <2>2. i \in Int /\ j \in Int
    BY <1>2
  <2> QED BY <2>1, <2>2
<1>9. Head(queue) \in Entries
  BY <1>1
<1> QED BY <1>2, <1>3, <1>6, <1>7, <1>8, <1>9 DEF QueueNumbers

LEMMA NumbersPut ==
  ASSUME queue \in Seq(Entries), QueueDistinct, NEW e \in Entries, PutSample(e),
         e.sample \notin QueueNumbers
  PROVE  /\ QueueDistinct'
         /\ \/ /\ QueueNumbers' = QueueNumbers \cup {e.sample}
               /\ dropped_samples' = dropped_samples
            \/ /\ dropped_samples' = dropped_samples + 1
               /\ \E s \in QueueNumbers :
                    QueueNumbers' = (QueueNumbers \ {s}) \cup {e.sample}
<1>1. CASE QueueFull
  <2>1. queue # << >> /\ queue' = Append(Tail(queue), e)
        /\ dropped_samples' = dropped_samples + 1
    BY <1>1, MaxQueueSizeAssumption DEF QueueFull, PutSample
  <2>2. /\ Len(queue) \in Nat \ {0} /\ DOMAIN queue = 1..Len(queue)
        /\ Tail(queue) \in Seq(Entries) /\ Len(Tail(queue)) = Len(queue) - 1
        /\ \A i \in 1..(Len(queue) - 1) : Tail(queue)[i] = queue[i + 1]
    BY <2>1, TailEntries
  <2>3. /\ DOMAIN queue' = 1..Len(queue) /\ queue'[Len(queue)] = e
        /\ \A i \in 1..(Len(queue) - 1) : queue'[i] = queue[i + 1]
    BY <2>1, <2>2, AppendEntries
  <2>4. 1 \in DOMAIN queue /\ Len(queue) \in DOMAIN queue'
    BY <2>2, <2>3
  <2>5. ASSUME NEW i \in DOMAIN queue', i # Len(queue)
        PROVE  i + 1 \in DOMAIN queue /\ i + 1 # 1 /\ queue'[i] = queue[i + 1]
    BY <2>2, <2>3, <2>5
  <2>6. ASSUME NEW i \in DOMAIN queue, i # 1
        PROVE  i - 1 \in DOMAIN queue' /\ queue'[i - 1] = queue[i]
    BY <2>2, <2>3, <2>6
  <2>7. QueueNumbers' \subseteq (QueueNumbers \ {queue[1].sample}) \cup {e.sample}
    BY <2>3, <2>4, <2>5 DEF QueueNumbers, QueueDistinct
  <2>8. (QueueNumbers \ {queue[1].sample}) \cup {e.sample} \subseteq QueueNumbers'
    BY <2>3, <2>4, <2>6 DEF QueueNumbers
  <2>9. QueueDistinct'
    <3> SUFFICES ASSUME NEW i \in DOMAIN queue', NEW j \in DOMAIN queue',
                        queue'[i].sample = queue'[j].sample
                 PROVE  i = j
      BY DEF QueueDistinct
    <3>1. ASSUME NEW k \in DOMAIN queue', k # Len(queue)
          PROVE  queue'[k].sample \in QueueNumbers
      BY <2>5, <3>1 DEF QueueNumbers
    <3>2. CASE i # Len(queue) /\ j # Len(queue)
      <4>1. i + 1 = j + 1
        BY <2>5, <3>2 DEF QueueDistinct
      <4>2. i \in Int /\ j \in Int
        BY <2>3
      <4> QED BY <4>1, <4>2
    <3> QED BY <2>3, <3>1, <3>2
  <2> QED BY <2>1, <2>4, <2>7, <2>8, <2>9 DEF QueueNumbers
<1>2. CASE ~QueueFull
  <2>1. queue' = Append(queue, e) /\ dropped_samples' = dropped_samples
    BY <1>2 DEF PutSample
  <2>2. /\ Len(queue) \in Nat /\ DOMAIN queue = 1..Len(queue)
        /\ DOMAIN queue' = 1..(Len(queue) + 1)
        /\ queue'[Len(queue) + 1] = e
        /\ \A i \in 1..Len(queue) : queue'[i] = queue[i]
    BY <2>1, AppendEntries
  <2>3. DOMAIN queue' = DOMAIN queue \cup {Len(queue) + 1} /\ Len(queue) + 1 \notin DOMAIN queue
    BY <2>2
  <2>4. \A i \in DOMAIN queue : queue'[i] = queue[i]
    BY <2>2
  <2>5. QueueNumbers' = QueueNumbers \cup {e.sample}
    BY <2>2, <2>3, <2>4 DEF QueueNumbers
  <2>6. QueueDistinct'
    BY <2>2, <2>3, <2>4 DEF QueueDistinct, QueueNumbers
  <2> QED BY <2>1, <2>5, <2>6
<1> QED BY <1>1, <1>2

(***************************************************************************)
(* No place holds a sample twice.                                          *)
(***************************************************************************)
OneEach(entries) == \A e, f \in entries : e.sample = f.sample => e = f

PlacesDistinct ==
  /\ QueueDistinct
  /\ NoRepeats(pending_queue)
  /\ NoRepeats(cancel_queue)
  /\ OneEach(batch)
  /\ OneEach(trained)
  /\ \A e \in batch \cup trained : e.sample # None

(***************************************************************************)
(* No two places hold the same sample.                                     *)
(***************************************************************************)
PlacesDisjoint ==
  /\ InPending \cap InCancelQueue = {}
  /\ (InPending \cup InCancelQueue) \cap InHand = {}
  /\ (InPending \cup InCancelQueue \cup InHand) \cap running = {}
  /\ (InPending \cup InCancelQueue \cup InHand \cup running) \cap InQueue = {}
  /\ (InPending \cup InCancelQueue \cup InHand \cup running \cup InQueue) \cap InBatch = {}
  /\ (InPending \cup InCancelQueue \cup InHand \cup running \cup InQueue \cup InBatch)
       \cap InTrained = {}
  /\ (InPending \cup InCancelQueue \cup InHand \cup running \cup InQueue \cup InBatch
        \cup InTrained) \cap failed_samples = {}

\* The samples that are nowhere any more.
Lost == FedSamples \ Located

(***************************************************************************)
(* A put overwrites a sample or, after the end of the stream, perhaps the  *)
(* end signal; nothing else loses anything.                                *)
(***************************************************************************)
Accounted ==
  /\ Located \subseteq FedSamples
  /\ Cardinality(Lost) <= dropped_samples
  /\ main_pc = "stream" => Cardinality(Lost) = dropped_samples

ConservationInv == PlacesDistinct /\ PlacesDisjoint /\ Accounted

LEMMA ConservationInvInit == Init => ConservationInv
<1> SUFFICES ASSUME Init PROVE ConservationInv
  OBVIOUS
<1>1. /\ DOMAIN queue = {} /\ DOMAIN pending_queue = {} /\ DOMAIN cancel_queue = {}
      /\ held = None /\ running = {} /\ batch = {} /\ trained = {} /\ failed_samples = {}
      /\ dropped_samples = 0 /\ fed = 0
  BY DEF Init, MQInit, RollouterInit
<1>2. PlacesDistinct
  BY <1>1 DEF PlacesDistinct, QueueDistinct, NoRepeats, OneEach
<1>3. /\ InQueue = {} /\ InPending = {} /\ InCancelQueue = {} /\ InHand = {}
      /\ InBatch = {} /\ InTrained = {}
  BY <1>1 DEF InQueue, InPending, InCancelQueue, InHand, InBatch, InTrained
<1>4. PlacesDisjoint /\ Located = {}
  BY <1>1, <1>3 DEF PlacesDisjoint, Located
<1>5. FedSamples = {}
  BY <1>1, RollouterAssumption DEF FedSamples
<1>6. Cardinality(Lost) = 0
  BY <1>4, <1>5, FS_EmptySet DEF Lost
<1> QED BY <1>1, <1>2, <1>4, <1>5, <1>6 DEF ConservationInv, Accounted

LEMMA LostFinite ==
  ASSUME TypeOK
  PROVE  IsFiniteSet(FedSamples) /\ IsFiniteSet(Lost) /\ Cardinality(Lost) \in Nat
<1> DEFINE last == IF fed > TotalRolloutSteps THEN TotalRolloutSteps ELSE fed
<1>0. last \in Int
  BY RollouterAssumption DEF TypeOK, ProcessorTypes
<1>1. IsFiniteSet(FedSamples)
  <2> HIDE DEF last
  <2>1. IsFiniteSet(1..last)
    BY <1>0, FS_Interval
  <2> QED BY <2>1 DEF FedSamples, last
<1>2. IsFiniteSet(Lost)
  BY <1>1, FS_Difference DEF Lost
<1> QED BY <1>1, <1>2, FS_CardinalityType

LEMMA AccountedKept ==
  ASSUME Accounted, Located' \subseteq FedSamples', Lost' = Lost,
         dropped_samples' = dropped_samples, main_pc' = "stream" => main_pc = "stream"
  PROVE  Accounted'
  BY DEF Accounted

LEMMA AccountedDropped ==
  ASSUME TypeOK, Accounted, Located' \subseteq FedSamples',
         dropped_samples' = dropped_samples + 1,
         \/ Lost' = Lost /\ main_pc' # "stream"
         \/ /\ \E d \in Located : Lost' = Lost \cup {d}
            /\ main_pc' = "stream" => main_pc = "stream"
  PROVE  Accounted'
<1>1. /\ IsFiniteSet(Lost) /\ Cardinality(Lost) \in Nat /\ dropped_samples \in Nat
  BY LostFinite DEF TypeOK, QueueTypes
<1>2. CASE Lost' = Lost /\ main_pc' # "stream"
  BY <1>1, <1>2 DEF Accounted
<1>3. ASSUME NEW d \in Located, Lost' = Lost \cup {d}, main_pc' = "stream" => main_pc = "stream"
      PROVE  Accounted'
  <2>1. d \notin Lost
    BY DEF Lost
  <2>2. Cardinality(Lost') = Cardinality(Lost) + 1
    BY <1>1, <1>3, <2>1, FS_AddElement
  <2> QED BY <1>1, <1>3, <2>2 DEF Accounted
<1> QED BY <1>2, <1>3

(***************************************************************************)
(* The steps of the feeder and the processor.                              *)
(***************************************************************************)
LEMMA FeederConserves ==
  ASSUME TypeInv, DoneLast, ConservationInv, Feeder, UNCHANGED << trainerVars, syncVars >>
  PROVE  ConservationInv'
<1>seq. pending_queue \in Seq(0..TotalRolloutSteps)
  BY DEF TypeInv, TypeOK, ProcessorTypes
<1>fed. fed \in 0..(TotalRolloutSteps + 1) /\ TotalRolloutSteps \in Nat \ {0}
  BY RollouterAssumption DEF TypeInv, TypeOK, ProcessorTypes
<1> HIDE DEF TypeInv
<1>1. PlacesDistinct /\ PlacesDisjoint /\ Accounted
  BY DEF ConservationInv
<1>2. UNCHANGED << queue, cancel_queue, held, running, batch, trained, failed_samples,
                   dropped_samples, main_pc >>
  BY DEF Feeder, FeedSample, FeedDone
<1>3. /\ InQueue' = InQueue /\ InCancelQueue' = InCancelQueue /\ InHand' = InHand
      /\ InBatch' = InBatch /\ InTrained' = InTrained /\ running' = running
      /\ failed_samples' = failed_samples
  BY <1>2 DEF InQueue, InCancelQueue, InHand, InBatch, InTrained
<1>4. ASSUME NoRepeats(pending_queue')
      PROVE  PlacesDistinct'
  BY <1>1, <1>2, <1>4 DEF PlacesDistinct, QueueDistinct, NoRepeats, OneEach
<1>5. CASE FeedSample
  <2>1. /\ fed + 1 \in 0..TotalRolloutSteps /\ fed + 1 # Done
        /\ pending_queue' = Append(pending_queue, fed + 1)
    BY <1>fed, <1>5 DEF FeedSample, Done
  <2>2. FedSamples = 1..fed /\ FedSamples' = 1..(fed + 1)
    BY <1>fed, <1>5 DEF FeedSample, FedSamples
  <2>3. FedSamples' = FedSamples \cup {fed + 1} /\ fed + 1 \notin FedSamples
    BY <1>fed, <2>2
  <2>4. fed + 1 \notin Located
    BY <1>1, <2>3 DEF Accounted
  <2>5. fed + 1 \notin Elements(pending_queue)
    BY <2>1, <2>4 DEF Located, InPending, Elements
  <2>6. NoRepeats(pending_queue') /\ Elements(pending_queue)' = Elements(pending_queue) \cup {fed + 1}
    BY <1>seq, <1>1, <2>1, <2>5, ElementsAppend DEF PlacesDistinct
  <2>7. InPending' = InPending \cup {fed + 1}
    BY <2>1, <2>6 DEF InPending, Elements
  <2>8. PlacesDisjoint'
    BY <1>1, <1>3, <2>4, <2>7 DEF PlacesDisjoint, Located
  <2>9. Located' = Located \cup {fed + 1}
    BY <1>3, <2>7 DEF Located
  <2>10. Lost' = Lost /\ Located' \subseteq FedSamples'
    BY <1>1, <2>3, <2>9 DEF Lost, Accounted
  <2>11. Accounted'
    BY <1>1, <1>2, <2>10, AccountedKept
  <2> QED BY <1>4, <2>6, <2>8, <2>11 DEF ConservationInv
<1>6. CASE FeedDone
  <2>1. Done \in 0..TotalRolloutSteps /\ pending_queue' = Append(pending_queue, Done)
    BY <1>fed, <1>6 DEF FeedDone, Done
  <2>2. FedSamples' = FedSamples
    BY <1>fed, <1>6 DEF FeedDone, FedSamples
  <2>3. fed # TotalRolloutSteps + 1
    BY <1>fed, <1>6 DEF FeedDone
  <2>4. Done \notin Elements(pending_queue)
    BY <2>3 DEF DoneLast, Elements
  <2>5. NoRepeats(pending_queue') /\ Elements(pending_queue)' = Elements(pending_queue) \cup {Done}
    <3>1. NoRepeats(pending_queue)
      BY <1>1 DEF PlacesDistinct
    <3> DEFINE Marks == 0..TotalRolloutSteps
    <3>2. pending_queue \in Seq(Marks) /\ Done \in Marks
      BY <1>seq, <2>1
    <3> HIDE DEF Marks
    <3>3. /\ Elements(pending_queue') = Elements(pending_queue) \cup {Done}
          /\ NoRepeats(pending_queue')
      BY <2>1, <2>4, <3>1, <3>2, ElementsAppend
    <3> QED BY <3>3 DEF Elements
  <2>6. InPending' = InPending
    BY <2>5 DEF InPending, Elements
  <2>7. PlacesDisjoint' /\ Located' = Located
    BY <1>1, <1>3, <2>6 DEF PlacesDisjoint, Located
  <2>8. Accounted'
    BY <1>1, <1>2, <2>2, <2>7, AccountedKept DEF Lost, Accounted
  <2> QED BY <1>4, <2>5, <2>7, <2>8 DEF ConservationInv
<1> QED BY <1>5, <1>6 DEF Feeder

LEMMA ProcessorConserves ==
  ASSUME TypeInv, HandEmpty, ConservationInv,
         \/ ProcessorTakeCancelled \/ ProcessorTakePending \/ ProcessorTakeDone
         \/ ProcessorSubmit,
         UNCHANGED << trainerVars, syncVars >>
  PROVE  ConservationInv'
<1>0. /\ pending_queue \in Seq(0..TotalRolloutSteps) /\ cancel_queue \in Seq(Samples)
      /\ HandFilled
  BY DEF TypeInv, TypeOK, ProcessorTypes, TaskTypes
<1> HIDE DEF TypeInv
<1>1. PlacesDistinct /\ PlacesDisjoint /\ Accounted
  BY DEF ConservationInv
<1>2. UNCHANGED << queue, fed, batch, trained, failed_samples, dropped_samples, main_pc >>
  BY SMTT(30) DEF ProcessorTakeCancelled, ProcessorTakePending, ProcessorTakeDone, ProcessorSubmit
<1>3. /\ InQueue' = InQueue /\ InBatch' = InBatch /\ InTrained' = InTrained
      /\ failed_samples' = failed_samples /\ FedSamples' = FedSamples
  BY <1>2 DEF InQueue, InBatch, InTrained, FedSamples
<1>4. ASSUME Located' = Located
      PROVE  Accounted'
  BY <1>1, <1>2, <1>3, <1>4, AccountedKept DEF Lost, Accounted
<1>5. ASSUME NoRepeats(pending_queue'), NoRepeats(cancel_queue')
      PROVE  PlacesDistinct'
  BY <1>1, <1>2, <1>5 DEF PlacesDistinct, QueueDistinct, OneEach
<1>6. NoRepeats(pending_queue) /\ NoRepeats(cancel_queue)
  BY <1>1 DEF PlacesDistinct
<1>7. CASE ProcessorTakeCancelled
  <2> DEFINE h == Head(cancel_queue)
  <2>1. /\ cancel_queue # << >> /\ cancel_queue' = Tail(cancel_queue)
        /\ processor_pc = "top" /\ held' = h
        /\ UNCHANGED << pending_queue, running >>
    BY <1>7 DEF ProcessorTakeCancelled
  <2>2. /\ h \in Elements(cancel_queue) /\ Elements(cancel_queue') = Elements(cancel_queue) \ {h}
        /\ NoRepeats(cancel_queue')
    BY <1>0, <1>6, <2>1, ElementsTail
  <2>3. h # None
    <3>1. h \in Samples
      BY <1>0, <2>1
    <3> QED BY <3>1 DEF Samples, None
  <2>4. /\ InCancelQueue' = InCancelQueue \ {h} /\ h \in InCancelQueue
        /\ InHand = {} /\ InHand' = {h} /\ InPending' = InPending
    BY <2>1, <2>2, <2>3 DEF InCancelQueue, InHand, InPending, Elements, HandEmpty
  <2> HIDE DEF h
  <2>5. PlacesDisjoint' /\ Located' = Located
    BY <1>1, <1>3, <2>1, <2>4 DEF PlacesDisjoint, Located
  <2> QED BY <1>4, <1>5, <1>6, <2>1, <2>2, <2>5 DEF ConservationInv
<1>8. CASE ProcessorTakePending
  <2> DEFINE h == Head(pending_queue)
  <2>1. /\ pending_queue # << >> /\ pending_queue' = Tail(pending_queue) /\ h # Done
        /\ processor_pc \in {"top", "get"} /\ held' = h
        /\ UNCHANGED << cancel_queue, running >>
    BY <1>8 DEF ProcessorTakePending, MayTakePending
  <2>2. /\ h \in Elements(pending_queue)
        /\ Elements(pending_queue') = Elements(pending_queue) \ {h}
        /\ NoRepeats(pending_queue')
    BY <1>0, <1>6, <2>1, ElementsTail
  <2>3. /\ InPending' = InPending \ {h} /\ h \in InPending
        /\ InHand = {} /\ InHand' = {h} /\ InCancelQueue' = InCancelQueue
    BY <2>1, <2>2 DEF InCancelQueue, InHand, InPending, Elements, HandEmpty, None, Done
  <2> HIDE DEF h
  <2>4. PlacesDisjoint' /\ Located' = Located
    BY <1>1, <1>3, <2>1, <2>3 DEF PlacesDisjoint, Located
  <2> QED BY <1>4, <1>5, <1>6, <2>1, <2>2, <2>4 DEF ConservationInv
<1>9. CASE ProcessorTakeDone
  <2>1. /\ pending_queue # << >> /\ pending_queue' = Tail(pending_queue)
        /\ Head(pending_queue) = Done
        /\ UNCHANGED << cancel_queue, running, held >>
    BY <1>9 DEF ProcessorTakeDone, MayTakePending
  <2>2. /\ Elements(pending_queue') = Elements(pending_queue) \ {Done}
        /\ NoRepeats(pending_queue')
    BY <1>0, <1>6, <2>1, ElementsTail
  <2>3. InPending' = InPending /\ InHand' = InHand /\ InCancelQueue' = InCancelQueue
    BY <2>1, <2>2 DEF InCancelQueue, InHand, InPending, Elements
  <2>4. PlacesDisjoint' /\ Located' = Located
    BY <1>1, <1>3, <2>1, <2>3 DEF PlacesDisjoint, Located
  <2> QED BY <1>4, <1>5, <1>6, <2>1, <2>2, <2>4 DEF ConservationInv
<1>10. CASE ProcessorSubmit
  <2>1. /\ held # None /\ held' = None /\ running' = running \cup {held}
        /\ UNCHANGED << pending_queue, cancel_queue >>
    BY <1>0, <1>10 DEF ProcessorSubmit, HandFilled
  <2>2. InHand = {held} /\ InHand' = {} /\ InPending' = InPending
        /\ InCancelQueue' = InCancelQueue
    BY <2>1 DEF InHand, InPending, InCancelQueue
  <2>3. PlacesDisjoint' /\ Located' = Located
    BY <1>1, <1>3, <2>1, <2>2 DEF PlacesDisjoint, Located
  <2> QED BY <1>4, <1>5, <1>6, <2>1, <2>3 DEF ConservationInv
<1> QED BY <1>7, <1>8, <1>9, <1>10

(***************************************************************************)
(* What a put does to the samples in the queue, and what it loses.         *)
(***************************************************************************)
LEMMA PutMovesSamples ==
  ASSUME TypeInv, QueueEnd, QueueDistinct, NEW e \in Entries, PutSample(e),
         e.sample \notin QueueNumbers
  PROVE  /\ QueueDistinct'
         /\ \/ /\ InQueue' = (InQueue \cup {e.sample}) \ {None}
               /\ dropped_samples' = dropped_samples
            \/ /\ InQueue' = (InQueue \cup {e.sample}) \ {None}
               /\ dropped_samples' = dropped_samples + 1 /\ main_pc # "stream"
            \/ /\ dropped_samples' = dropped_samples + 1
               /\ \E d \in InQueue :
                    InQueue' = ((InQueue \ {d}) \cup {e.sample}) \ {None}
<1>1. queue \in Seq(Entries)
  BY DEF TypeInv, TypeOK, QueueTypes
<1>2. InQueue = QueueNumbers \ {None} /\ InQueue' = QueueNumbers' \ {None}
  BY DEF InQueue, QueueNumbers
<1>3. main_pc = "stream" => None \notin QueueNumbers
  BY DEF QueueEnd, QueueNumbers
<1>4. /\ QueueDistinct'
      /\ \/ /\ QueueNumbers' = QueueNumbers \cup {e.sample}
            /\ dropped_samples' = dropped_samples
         \/ /\ dropped_samples' = dropped_samples + 1
            /\ \E s \in QueueNumbers :
                 QueueNumbers' = (QueueNumbers \ {s}) \cup {e.sample}
  BY <1>1, NumbersPut
<1>5. CASE QueueNumbers' = QueueNumbers \cup {e.sample} /\ dropped_samples' = dropped_samples
  BY <1>2, <1>4, <1>5
<1>6. ASSUME NEW d \in QueueNumbers, dropped_samples' = dropped_samples + 1,
             QueueNumbers' = (QueueNumbers \ {d}) \cup {e.sample}
      PROVE  \/ InQueue' = (InQueue \cup {e.sample}) \ {None} /\ main_pc # "stream"
             \/ \E x \in InQueue : InQueue' = ((InQueue \ {x}) \cup {e.sample}) \ {None}
  <2>1. CASE d = None
    BY <1>2, <1>3, <1>6, <2>1
  <2>2. CASE d # None
    <3>1. d \in InQueue /\ InQueue' = ((InQueue \ {d}) \cup {e.sample}) \ {None}
      BY <1>2, <1>6, <2>2
    <3> QED BY <3>1
  <2> QED BY <2>1, <2>2
<1> QED BY <1>4, <1>5, <1>6

(***************************************************************************)
(* The steps of the tasks and of the main coroutine.                       *)
(***************************************************************************)
LEMMA TaskPutConserves ==
  ASSUME TypeInv, QueueEnd, ConservationInv, NEW s \in Samples, TaskPut(s),
         UNCHANGED << trainerVars, syncVars >>
  PROVE  ConservationInv'
<1>0. TypeOK /\ Stamped \subseteq running /\ putting \subseteq Entries
  BY DEF TypeInv, TypeOK, TaskTypes, TaskStages
<1>1. PlacesDistinct /\ PlacesDisjoint /\ Accounted
  BY DEF ConservationInv
<1>2. PICK e \in putting : e.sample = s /\ PutSample(e)
  BY DEF TaskPut
<1>3. e \in Entries /\ s \in running /\ s # None
  BY <1>0, <1>2 DEF Stamped, Samples, None
<1>4. s \notin QueueNumbers
  BY <1>1, <1>3 DEF PlacesDisjoint, InQueue, QueueNumbers
<1>5. /\ running' = running \ {s}
      /\ UNCHANGED << fed, pending_queue, cancel_queue, held, batch, trained,
                      failed_samples, main_pc >>
  BY DEF TaskPut
<1>6. /\ InPending' = InPending /\ InCancelQueue' = InCancelQueue /\ InHand' = InHand
      /\ InBatch' = InBatch /\ InTrained' = InTrained /\ failed_samples' = failed_samples
      /\ FedSamples' = FedSamples
  BY <1>5 DEF InPending, InCancelQueue, InHand, InBatch, InTrained, FedSamples
<1>7. /\ QueueDistinct'
      /\ \/ /\ InQueue' = (InQueue \cup {s}) \ {None}
            /\ dropped_samples' = dropped_samples
         \/ /\ InQueue' = (InQueue \cup {s}) \ {None}
            /\ dropped_samples' = dropped_samples + 1 /\ main_pc # "stream"
         \/ /\ dropped_samples' = dropped_samples + 1
            /\ \E d \in InQueue : InQueue' = ((InQueue \ {d}) \cup {s}) \ {None}
  BY <1>1, <1>2, <1>3, <1>4, PutMovesSamples DEF PlacesDistinct
<1>8. PlacesDistinct'
  BY <1>1, <1>5, <1>7 DEF PlacesDistinct, NoRepeats, OneEach
<1>9. None \notin InQueue
  BY DEF InQueue
<1> HIDE DEF TypeInv, TypeOK
<1>10. CASE InQueue' = InQueue \cup {s}
  <2>1. PlacesDisjoint' /\ Located' = Located
    BY <1>1, <1>3, <1>5, <1>6, <1>10 DEF PlacesDisjoint, Located
  <2>2. Lost' = Lost /\ Located' \subseteq FedSamples'
    BY <1>1, <1>6, <2>1 DEF Lost, Accounted
  <2>3. CASE dropped_samples' = dropped_samples
    BY <1>1, <1>5, <1>8, <2>1, <2>2, <2>3, AccountedKept DEF ConservationInv
  <2>4. CASE dropped_samples' = dropped_samples + 1 /\ main_pc # "stream"
    BY <1>0, <1>1, <1>5, <1>8, <2>1, <2>2, <2>4, AccountedDropped DEF ConservationInv
  <2>5. ASSUME NEW d \in InQueue, InQueue' = ((InQueue \ {d}) \cup {s}) \ {None}
        PROVE  FALSE
    <3>1. d # s /\ d # None
      BY <1>1, <1>3, <2>5 DEF PlacesDisjoint, InQueue
    <3> QED BY <1>10, <2>5, <3>1
  <2> QED BY <1>7, <2>3, <2>4, <2>5
<1>11. ASSUME NEW d \in InQueue, InQueue' = (InQueue \ {d}) \cup {s},
              dropped_samples' = dropped_samples + 1
       PROVE  ConservationInv'
  <2>1. d # s /\ d \in Located
    BY <1>1, <1>3 DEF PlacesDisjoint, Located
  <2>2. PlacesDisjoint' /\ Located' = Located \ {d}
    BY <1>1, <1>3, <1>5, <1>6, <1>11, <2>1 DEF PlacesDisjoint, Located
  <2>3. Lost' = Lost \cup {d} /\ Located' \subseteq FedSamples'
    BY <1>1, <1>6, <2>1, <2>2 DEF Lost, Accounted
  <2>4. Accounted'
    BY <1>0, <1>1, <1>5, <1>11, <2>1, <2>3, AccountedDropped
  <2> QED BY <1>8, <2>2, <2>4 DEF ConservationInv
<1> QED BY <1>3, <1>7, <1>9, <1>10, <1>11

LEMMA TaskEndsConserve ==
  ASSUME TypeInv, ConservationInv, NEW s \in Samples, TaskCancelled(s) \/ TaskFail(s),
         UNCHANGED << trainerVars, syncVars >>
  PROVE  ConservationInv'
<1>0. /\ cancel_queue \in Seq(Samples)
      /\ interrupted \subseteq running /\ generating \subseteq running
  BY DEF TypeInv, TypeOK, TaskTypes
<1> HIDE DEF TypeInv
<1>1. PlacesDistinct /\ PlacesDisjoint /\ Accounted
  BY DEF ConservationInv
<1>2. /\ s \in running /\ running' = running \ {s}
      /\ UNCHANGED << queue, fed, pending_queue, held, batch, trained, dropped_samples,
                      main_pc >>
  BY <1>0 DEF TaskCancelled, TaskFail
<1>3. /\ InQueue' = InQueue /\ InPending' = InPending /\ InHand' = InHand
      /\ InBatch' = InBatch /\ InTrained' = InTrained /\ FedSamples' = FedSamples
  BY <1>2 DEF InQueue, InPending, InHand, InBatch, InTrained, FedSamples
<1>4. CASE TaskCancelled(s)
  <2>1. cancel_queue' = Append(cancel_queue, s) /\ failed_samples' = failed_samples
    BY <1>4 DEF TaskCancelled
  <2>2. s \notin Elements(cancel_queue) /\ NoRepeats(cancel_queue)
    BY <1>1, <1>2 DEF PlacesDisjoint, PlacesDistinct, InCancelQueue, Elements
  <2> HIDE DEF Samples
  <2>3. /\ Elements(cancel_queue') = Elements(cancel_queue) \cup {s}
        /\ NoRepeats(cancel_queue')
    BY <1>0, <2>1, <2>2, ElementsAppend
  <2>4. InCancelQueue' = InCancelQueue \cup {s}
    BY <2>3 DEF InCancelQueue, Elements
  <2>5. PlacesDisjoint' /\ Located' = Located
    BY <1>1, <1>2, <1>3, <2>1, <2>4 DEF PlacesDisjoint, Located
  <2>6. PlacesDistinct'
    BY <1>1, <1>2, <2>3 DEF PlacesDistinct, QueueDistinct, NoRepeats, OneEach
  <2>7. Accounted'
    BY <1>1, <1>2, <1>3, <2>5, AccountedKept DEF Lost, Accounted
  <2> QED BY <2>5, <2>6, <2>7 DEF ConservationInv
<1>5. CASE TaskFail(s)
  <2>1. cancel_queue' = cancel_queue /\ failed_samples' = failed_samples \cup {s}
    BY <1>5 DEF TaskFail
  <2>2. InCancelQueue' = InCancelQueue
    BY <2>1 DEF InCancelQueue
  <2>3. PlacesDisjoint' /\ Located' = Located
    BY <1>1, <1>2, <1>3, <2>1, <2>2 DEF PlacesDisjoint, Located
  <2>4. PlacesDistinct'
    BY <1>1, <1>2, <2>1 DEF PlacesDistinct, QueueDistinct, NoRepeats, OneEach
  <2>5. Accounted'
    BY <1>1, <1>2, <1>3, <2>3, AccountedKept DEF Lost, Accounted
  <2> QED BY <2>3, <2>4, <2>5 DEF ConservationInv
<1> QED BY <1>4, <1>5

LEMMA EndSignalConserves ==
  ASSUME TypeInv, QueueEnd, ConservationInv, MainSendEndSignal,
         UNCHANGED << trainerVars, syncVars >>
  PROVE  ConservationInv'
<1> DEFINE e == Entry(None, rollout_version)
<1>0. TypeOK /\ e \in Entries /\ e.sample = None
  BY RollouterAssumption DEF TypeInv, TypeOK, ControlTypes, Entry, Entries, None
<1>1. PlacesDistinct /\ PlacesDisjoint /\ Accounted
  BY DEF ConservationInv
<1>2. /\ PutSample(e) /\ main_pc = "stream" /\ main_pc' # "stream"
      /\ UNCHANGED << fed, pending_queue, cancel_queue, held, running, batch, trained,
                      failed_samples >>
  BY DEF MainSendEndSignal
<1> HIDE DEF e
<1>3. e.sample \notin QueueNumbers
  BY <1>0, <1>2 DEF QueueEnd, QueueNumbers
<1>4. /\ InPending' = InPending /\ InCancelQueue' = InCancelQueue /\ InHand' = InHand
      /\ InBatch' = InBatch /\ InTrained' = InTrained /\ failed_samples' = failed_samples
      /\ running' = running /\ FedSamples' = FedSamples
  BY <1>2 DEF InPending, InCancelQueue, InHand, InBatch, InTrained, FedSamples
<1>5. /\ QueueDistinct'
      /\ \/ /\ InQueue' = (InQueue \cup {e.sample}) \ {None}
            /\ dropped_samples' = dropped_samples
         \/ /\ dropped_samples' = dropped_samples + 1
            /\ \E d \in InQueue : InQueue' = ((InQueue \ {d}) \cup {e.sample}) \ {None}
  BY <1>0, <1>1, <1>2, <1>3, PutMovesSamples DEF PlacesDistinct
<1>6. PlacesDistinct'
  BY <1>1, <1>2, <1>5 DEF PlacesDistinct, NoRepeats, OneEach
<1>7. None \notin InQueue
  BY DEF InQueue
<1> HIDE DEF TypeInv, TypeOK
<1>8. CASE InQueue' = InQueue /\ dropped_samples' = dropped_samples
  <2>1. PlacesDisjoint' /\ Located' = Located
    BY <1>1, <1>4, <1>8 DEF PlacesDisjoint, Located
  <2>2. Accounted'
    BY <1>1, <1>2, <1>4, <1>8, <2>1, AccountedKept DEF Lost, Accounted
  <2> QED BY <1>6, <2>1, <2>2 DEF ConservationInv
<1>9. ASSUME NEW d \in InQueue, InQueue' = InQueue \ {d},
             dropped_samples' = dropped_samples + 1
      PROVE  ConservationInv'
  <2>1. d \in Located
    BY DEF Located
  <2>2. PlacesDisjoint' /\ Located' = Located \ {d}
    BY <1>1, <1>4, <1>9 DEF PlacesDisjoint, Located
  <2>3. Lost' = Lost \cup {d} /\ Located' \subseteq FedSamples'
    BY <1>1, <1>4, <2>1, <2>2 DEF Lost, Accounted
  <2>4. Accounted'
    BY <1>0, <1>1, <1>2, <1>9, <2>1, <2>3, AccountedDropped
  <2> QED BY <1>6, <2>2, <2>4 DEF ConservationInv
<1> QED BY <1>0, <1>5, <1>7, <1>8, <1>9

(***************************************************************************)
(* The steps of the Trainer.                                               *)
(***************************************************************************)
LEMMA TrainerConserves ==
  ASSUME TypeInv, ConservationInv, TrainerGetSample \/ TrainerGetEndSignal \/ TrainerUpdate
  PROVE  ConservationInv'
<1>0. queue \in Seq(Entries)
  BY DEF TypeInv, TypeOK, QueueTypes
<1> HIDE DEF TypeInv
<1>1. PlacesDistinct /\ PlacesDisjoint /\ Accounted
  BY DEF ConservationInv
<1>2. /\ UNCHANGED << fed, pending_queue, cancel_queue, held, running, failed_samples,
                      dropped_samples, main_pc >>
  BY DEF TrainerGetSample, TrainerGetEndSignal, TrainerUpdate, GetSample
<1>3. /\ InPending' = InPending /\ InCancelQueue' = InCancelQueue /\ InHand' = InHand
      /\ running' = running /\ failed_samples' = failed_samples /\ FedSamples' = FedSamples
  BY <1>2 DEF InPending, InCancelQueue, InHand, FedSamples
<1>4. ASSUME Located' = Located
      PROVE  Accounted'
  BY <1>1, <1>2, <1>3, <1>4, AccountedKept DEF Lost, Accounted
<1>5. NoRepeats(pending_queue)' /\ NoRepeats(cancel_queue)'
  BY <1>1, <1>2 DEF PlacesDistinct, NoRepeats
<1>6. InQueue = QueueNumbers \ {None} /\ InQueue' = QueueNumbers' \ {None}
  BY DEF InQueue, QueueNumbers
<1>7. CASE TrainerGetSample
  <2> DEFINE h == Head(queue)
  <2>1. /\ GetSample /\ h.sample # None /\ batch' = batch \cup {h} /\ trained' = trained
    BY <1>7 DEF TrainerGetSample
  <2>2. /\ h.sample \in QueueNumbers /\ QueueNumbers' = QueueNumbers \ {h.sample}
        /\ QueueDistinct'
    BY <1>0, <1>1, <2>1, NumbersGet DEF PlacesDistinct
  <2> HIDE DEF h
  <2>3. /\ InQueue' = InQueue \ {h.sample} /\ h.sample \in InQueue
        /\ InBatch' = InBatch \cup {h.sample} /\ InTrained' = InTrained
    BY <1>6, <2>1, <2>2 DEF InBatch, InTrained
  <2>4. h.sample \notin InBatch
    BY <1>1, <2>3 DEF PlacesDisjoint
  <2>5. PlacesDistinct'
    BY <1>1, <1>5, <2>1, <2>2, <2>4 DEF PlacesDistinct, OneEach, InBatch
  <2>6. PlacesDisjoint' /\ Located' = Located
    BY <1>1, <1>3, <2>3 DEF PlacesDisjoint, Located
  <2> QED BY <1>4, <2>5, <2>6 DEF ConservationInv
<1>8. CASE TrainerGetEndSignal
  <2>1. GetSample /\ Head(queue).sample = None /\ batch' = batch /\ trained' = trained
    BY <1>8 DEF TrainerGetEndSignal
  <2>2. QueueNumbers' = QueueNumbers \ {None} /\ QueueDistinct'
    BY <1>0, <1>1, <2>1, NumbersGet DEF PlacesDistinct
  <2>3. InQueue' = InQueue /\ InBatch' = InBatch /\ InTrained' = InTrained
    BY <1>6, <2>1, <2>2 DEF InBatch, InTrained
  <2>4. PlacesDistinct'
    BY <1>1, <1>5, <2>1, <2>2 DEF PlacesDistinct, OneEach
  <2>5. PlacesDisjoint' /\ Located' = Located
    BY <1>1, <1>3, <2>3 DEF PlacesDisjoint, Located
  <2> QED BY <1>4, <2>4, <2>5 DEF ConservationInv
<1>9. CASE TrainerUpdate
  <2>1. queue' = queue /\ batch' = {} /\ trained' = trained \cup batch
    BY <1>9 DEF TrainerUpdate
  <2>2. InQueue' = InQueue /\ InBatch' = {} /\ InTrained' = InTrained \cup InBatch
    BY <2>1 DEF InQueue, InBatch, InTrained
  <2>3. \A e \in batch, f \in trained : e.sample # f.sample
    BY <1>1 DEF PlacesDisjoint, InBatch, InTrained
  <2>4. PlacesDistinct'
    <3>1. OneEach(trained') /\ OneEach(batch')
      BY <1>1, <2>1, <2>3 DEF PlacesDistinct, OneEach
    <3>2. QueueDistinct' /\ \A e \in batch' \cup trained' : e.sample # None
      BY <1>1, <2>1 DEF PlacesDistinct, QueueDistinct
    <3> QED BY <1>5, <3>1, <3>2 DEF PlacesDistinct, OneEach
  <2>5. PlacesDisjoint' /\ Located' = Located
    BY <1>1, <1>3, <2>2 DEF PlacesDisjoint, Located
  <2> QED BY <1>4, <2>4, <2>5 DEF ConservationInv
<1> QED BY <1>7, <1>8, <1>9

LEMMA ConservationInvNext ==
  ASSUME TypeInv, EndInv, HandEmpty, ConservationInv, [Next]_vars
  PROVE  ConservationInv'
<1>1. DoneLast /\ QueueEnd
  BY DEF EndInv, QueueEnd
<1>2. CASE TrainerGetSample \/ TrainerGetEndSignal \/ TrainerUpdate
  BY <1>2, TrainerConserves
<1>3. ASSUME RollouterStream, UNCHANGED << trainerVars, syncVars >>
      PROVE  ConservationInv'
  <2>1. CASE Feeder
    BY <1>1, <1>3, <2>1, FeederConserves
  <2>2. CASE \/ ProcessorTakeCancelled \/ ProcessorTakePending \/ ProcessorTakeDone
             \/ ProcessorSubmit
    BY <1>3, <2>2, ProcessorConserves
  <2>3. CASE MainSendEndSignal
    BY <1>1, <1>3, <2>3, EndSignalConserves
  <2>4. ASSUME NEW s \in Samples, TaskPut(s)
        PROVE  ConservationInv'
    BY <1>1, <1>3, <2>4, TaskPutConserves
  <2>5. ASSUME NEW s \in Samples, TaskCancelled(s) \/ TaskFail(s)
        PROVE  ConservationInv'
    BY <1>3, <2>5, TaskEndsConserve
  <2> QED BY <1>3, <2>1, <2>2, <2>3, <2>4, <2>5 DEF RollouterStream
<1>4. CASE UNCHANGED << Places, dropped_samples >> /\ (MainStop \/ main_pc' = main_pc)
  <2>1. /\ UNCHANGED << queue, pending_queue, fed, cancel_queue, held, running,
                        failed_samples, batch, trained, dropped_samples >>
        /\ main_pc' = "stream" => main_pc = "stream"
    BY <1>4 DEF Places, MainStop
  <2>2. /\ InQueue' = InQueue /\ InPending' = InPending /\ InCancelQueue' = InCancelQueue
        /\ InHand' = InHand /\ InBatch' = InBatch /\ InTrained' = InTrained
        /\ running' = running /\ failed_samples' = failed_samples /\ FedSamples' = FedSamples
    BY <2>1 DEF InQueue, InPending, InCancelQueue, InHand, InBatch, InTrained, FedSamples
  <2>3. PlacesDistinct'
    BY <2>1 DEF ConservationInv, PlacesDistinct, QueueDistinct, NoRepeats, OneEach
  <2>4. PlacesDisjoint' /\ Located' = Located
    BY <2>2 DEF ConservationInv, PlacesDisjoint, Located
  <2>5. Accounted'
    BY <2>1, <2>2, <2>4, AccountedKept DEF ConservationInv, Lost, Accounted
  <2> QED BY <2>3, <2>4, <2>5 DEF ConservationInv
<1> QED BY <1>2, <1>3, <1>4, StreamFrames DEF StreamActions

LEMMA ConservationInvariant == Spec => []ConservationInv
  BY ConservationInvInit, ConservationInvNext, TypeInvariant, EndInvariant,
     HandEmptyInvariant, PTL DEF Spec

(***************************************************************************)
(* Counting: where nothing is twice, copies are as many as samples.        *)
(***************************************************************************)
LEMMA DisjointCount ==
  ASSUME NEW S, NEW T, IsFiniteSet(S), IsFiniteSet(T), S \cap T = {}
  PROVE  /\ IsFiniteSet(S \cup T)
         /\ Cardinality(S \cup T) = Cardinality(S) + Cardinality(T)
<1>1. Cardinality(S \cap T) = 0
  BY FS_EmptySet
<1>2. Cardinality(S) \in Nat /\ Cardinality(T) \in Nat
  BY FS_CardinalityType
<1>3. /\ IsFiniteSet(S \cup T)
      /\ Cardinality(S \cup T) = Cardinality(S) + Cardinality(T) - Cardinality(S \cap T)
  BY FS_Union
<1> QED BY <1>1, <1>2, <1>3

LEMMA QueueCount ==
  ASSUME queue \in Seq(Entries), QueueDistinct
  PROVE  IsFiniteSet(InQueue) /\ SamplesIn(queue) = Cardinality(InQueue)
<1> DEFINE S == {i \in DOMAIN queue : queue[i].sample # None}
           f == [i \in S |-> queue[i].sample]
<1>1. IsFiniteSet(S)
  <2>1. IsFiniteSet(1..Len(queue)) /\ DOMAIN queue = 1..Len(queue)
    BY FS_Interval
  <2> QED BY <2>1, FS_Subset
<1>2. f \in [S -> InQueue]
  BY DEF InQueue
<1>3. \A y \in InQueue : \E x \in S : f[x] = y
  BY DEF InQueue
<1>4. \A x, y \in S : f[x] = f[y] => x = y
  BY DEF QueueDistinct
<1>5. SamplesIn(queue) = Cardinality(S)
  BY DEF SamplesIn
<1> HIDE DEF S, f
<1>6. IsFiniteSet(S) \/ IsFiniteSet(InQueue)
  BY <1>1
<1>7. IsFiniteSet(InQueue) /\ Cardinality(InQueue) = Cardinality(S)
  BY <1>2, <1>3, <1>4, <1>6, BijectionCount
<1> QED BY <1>5, <1>7

LEMMA PendingCount ==
  ASSUME pending_queue \in Seq(0..TotalRolloutSteps), NoRepeats(pending_queue)
  PROVE  IsFiniteSet(InPending) /\ Len(pending_queue) - PendingDone = Cardinality(InPending)
<1> DEFINE D == {i \in DOMAIN pending_queue : pending_queue[i] = Done}
           S == {i \in DOMAIN pending_queue : pending_queue[i] # Done}
           f == [i \in S |-> pending_queue[i]]
<1>1. DOMAIN pending_queue = 1..Len(pending_queue) /\ Len(pending_queue) \in Nat
  OBVIOUS
<1>2. IsFiniteSet(DOMAIN pending_queue) /\ Cardinality(DOMAIN pending_queue) = Len(pending_queue)
  BY <1>1, FS_Interval
<1>3. IsFiniteSet(S) /\ IsFiniteSet(D)
  BY <1>2, FS_Subset
<1>4. S \cap D = {} /\ S \cup D = DOMAIN pending_queue
  OBVIOUS
<1>5. f \in [S -> InPending]
  BY DEF InPending
<1>6. \A y \in InPending : \E x \in S : f[x] = y
  BY DEF InPending
<1>7. \A x, y \in S : f[x] = f[y] => x = y
  BY DEF NoRepeats
<1>8. PendingDone = Cardinality(D)
  BY DEF PendingDone
<1> HIDE DEF S, D, f
<1>9. Cardinality(DOMAIN pending_queue) = Cardinality(S) + Cardinality(D)
  BY <1>3, <1>4, DisjointCount
<1>10. IsFiniteSet(InPending) /\ Cardinality(InPending) = Cardinality(S)
  BY <1>3, <1>5, <1>6, <1>7, BijectionCount
<1>11. Cardinality(S) \in Nat /\ Cardinality(D) \in Nat
  BY <1>3, FS_CardinalityType
<1> QED BY <1>2, <1>8, <1>9, <1>10, <1>11

LEMMA CancelCount ==
  ASSUME cancel_queue \in Seq(Samples), NoRepeats(cancel_queue)
  PROVE  IsFiniteSet(InCancelQueue) /\ Len(cancel_queue) = Cardinality(InCancelQueue)
<1> DEFINE S == DOMAIN cancel_queue
<1>1. IsFiniteSet(S) /\ Cardinality(S) = Len(cancel_queue)
  <2>1. S = 1..Len(cancel_queue) /\ Len(cancel_queue) \in Nat
    OBVIOUS
  <2> QED BY <2>1, FS_Interval
<1>2. /\ cancel_queue \in [S -> InCancelQueue]
      /\ \A y \in InCancelQueue : \E x \in S : cancel_queue[x] = y
  BY DEF InCancelQueue
<1>3. \A x, y \in S : cancel_queue[x] = cancel_queue[y] => x = y
  BY DEF NoRepeats
<1> DEFINE f == cancel_queue
<1>4. /\ f \in [S -> InCancelQueue]
      /\ \A y \in InCancelQueue : \E x \in S : f[x] = y
      /\ \A x, y \in S : f[x] = f[y] => x = y
  BY <1>2, <1>3
<1> HIDE DEF S, f
<1>5. IsFiniteSet(InCancelQueue) /\ Cardinality(InCancelQueue) = Cardinality(S)
  BY <1>1, <1>4, BijectionCount
<1> QED BY <1>1, <1>5

LEMMA EntriesCount ==
  ASSUME NEW entries, OneEach(entries), IsFiniteSet({e.sample : e \in entries})
  PROVE  /\ IsFiniteSet(entries)
         /\ Cardinality(entries) = Cardinality({e.sample : e \in entries})
<1> DEFINE f == [e \in entries |-> e.sample]
           I == {e.sample : e \in entries}
<1>1. f \in [entries -> I] /\ \A y \in I : \E e \in entries : f[e] = y
  OBVIOUS
<1>2. \A x, y \in entries : f[x] = f[y] => x = y
  BY DEF OneEach
<1>3. IsFiniteSet(I)
  OBVIOUS
<1> HIDE DEF f, I
<1>4. IsFiniteSet(entries) /\ Cardinality(I) = Cardinality(entries)
  BY <1>1, <1>2, <1>3, BijectionCount
<1> QED BY <1>4 DEF I

LEMMA CopiesCounted ==
  ASSUME TypeInv, ConservationInv
  PROVE  Copies = Cardinality(Located)
<1>1. PlacesDistinct /\ PlacesDisjoint /\ Located \subseteq FedSamples
  BY DEF ConservationInv, Accounted
<1>2. IsFiniteSet(FedSamples)
  BY LostFinite DEF TypeInv
<1>3. SamplesIn(queue) = Cardinality(InQueue)
  BY <1>1, QueueCount DEF TypeInv, TypeOK, QueueTypes, PlacesDistinct
<1>4. Len(pending_queue) - PendingDone = Cardinality(InPending)
  BY <1>1, PendingCount DEF TypeInv, TypeOK, ProcessorTypes, PlacesDistinct
<1>5. Len(cancel_queue) = Cardinality(InCancelQueue)
  BY <1>1, CancelCount DEF TypeInv, TypeOK, TaskTypes, PlacesDistinct
<1>6. /\ IsFiniteSet(InQueue) /\ IsFiniteSet(InPending) /\ IsFiniteSet(InCancelQueue)
      /\ IsFiniteSet(InHand) /\ IsFiniteSet(running) /\ IsFiniteSet(InBatch)
      /\ IsFiniteSet(InTrained) /\ IsFiniteSet(failed_samples)
  BY <1>1, <1>2, FS_Subset DEF Located
<1>7. Cardinality(batch) = Cardinality(InBatch)
  BY <1>1, <1>6, EntriesCount DEF PlacesDistinct, InBatch
<1>8. Cardinality(trained) = Cardinality(InTrained)
  BY <1>1, <1>6, EntriesCount DEF PlacesDistinct, InTrained
<1> HIDE DEF TypeInv
<1> DEFINE L2 == InPending \cup InCancelQueue
           L3 == L2 \cup InHand
           L4 == L3 \cup running
           L5 == L4 \cup InQueue
           L6 == L5 \cup InBatch
           L7 == L6 \cup InTrained
           L8 == L7 \cup failed_samples
<1>9. /\ InPending \cap InCancelQueue = {} /\ L2 \cap InHand = {} /\ L3 \cap running = {}
      /\ L4 \cap InQueue = {} /\ L5 \cap InBatch = {} /\ L6 \cap InTrained = {}
      /\ L7 \cap failed_samples = {}
  BY <1>1 DEF PlacesDisjoint
<1>10. L8 = Located
  BY DEF Located
<1>11. IsFiniteSet(L2) /\ Cardinality(L2) = Cardinality(InPending) + Cardinality(InCancelQueue)
  BY <1>6, <1>9, DisjointCount
<1> HIDE DEF L2
<1>12. IsFiniteSet(L3) /\ Cardinality(L3) = Cardinality(L2) + Cardinality(InHand)
  BY <1>6, <1>9, <1>11, DisjointCount
<1> HIDE DEF L3
<1>13. IsFiniteSet(L4) /\ Cardinality(L4) = Cardinality(L3) + Cardinality(running)
  BY <1>6, <1>9, <1>12, DisjointCount
<1> HIDE DEF L4
<1>14. IsFiniteSet(L5) /\ Cardinality(L5) = Cardinality(L4) + Cardinality(InQueue)
  BY <1>6, <1>9, <1>13, DisjointCount
<1> HIDE DEF L5
<1>15. IsFiniteSet(L6) /\ Cardinality(L6) = Cardinality(L5) + Cardinality(InBatch)
  BY <1>6, <1>9, <1>14, DisjointCount
<1> HIDE DEF L6
<1>16. IsFiniteSet(L7) /\ Cardinality(L7) = Cardinality(L6) + Cardinality(InTrained)
  BY <1>6, <1>9, <1>15, DisjointCount
<1> HIDE DEF L7
<1>17. Cardinality(L8) = Cardinality(L7) + Cardinality(failed_samples)
  BY <1>6, <1>9, <1>16, DisjointCount
<1> HIDE DEF L8
<1>18. /\ Cardinality(InQueue) \in Nat /\ Cardinality(InPending) \in Nat
       /\ Cardinality(InCancelQueue) \in Nat /\ Cardinality(InHand) \in Nat
       /\ Cardinality(running) \in Nat /\ Cardinality(InBatch) \in Nat
       /\ Cardinality(InTrained) \in Nat /\ Cardinality(failed_samples) \in Nat
  BY <1>6, FS_CardinalityType
<1>19. Copies = Cardinality(L8)
  BY <1>3, <1>4, <1>5, <1>7, <1>8, <1>11, <1>12, <1>13, <1>14, <1>15, <1>16, <1>17, <1>18
  DEF Copies
<1> QED BY <1>10, <1>19

(***************************************************************************)
(* Every sample that was fed is in exactly one place, in one copy, or one  *)
(* of those dropped_samples counts.                                        *)
(***************************************************************************)
THEOREM ConservationCorrect == Spec => []SampleConservation
<1>1. TypeInv /\ ConservationInv => SampleConservation
  BY CopiesCounted DEF ConservationInv, Accounted, Lost, SampleConservation
<1> QED BY <1>1, ConservationInvariant, TypeInvariant, PTL

=============================================================================
