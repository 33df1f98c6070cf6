----------------------------- MODULE Rollouter ------------------------------
(***************************************************************************)
(* The FullyAsyncRollouter actor (fully_async_rollouter.py) and the part   *)
(* of the rollout servers it relies on.                                    *)
(*                                                                         *)
(* The actor is one asyncio event loop that interleaves, at their awaits,  *)
(* the feeder, the processor, one task per sample in generation, the       *)
(* monitor, the main coroutine that waits for feeder and processor, and    *)
(* the handlers of the pause, update_param_version and resume calls.       *)
(* They share one asyncio.Lock and the condition built on it.              *)
(*                                                                         *)
(* Conventions.  A sample is its number in feeding order.  The asyncio     *)
(* lock is the FIFO lock_queue: its head owns the lock, the rest wait.  A  *)
(* coroutine that reaches `async with self.lock` joins the queue in the    *)
(* step that leads there, since nothing is awaited in between.             *)
(***************************************************************************)
EXTENDS MessageQueue, FiniteSets

CONSTANTS
  TotalRolloutSteps,      \* total_rollout_steps: samples the feeder makes
  PendingCapacity,        \* pending_queue's maxsize (128 in the code)
  MaxRequiredSamples,     \* max_required_samples, the staleness limit
  MaxConcurrentSamples,   \* max_concurrent_samples
  PartialRollout,         \* async_training.partial_rollout
  MaxTaskFailures         \* bound: generation tasks that raise

ASSUME RollouterAssumption ==
  /\ TotalRolloutSteps \in Nat \ {0}
  /\ PendingCapacity \in Nat \ {0}
  /\ MaxRequiredSamples \in Nat \ {0}
  /\ MaxQueueSize = MaxRequiredSamples
  /\ MaxConcurrentSamples \in 1..MaxRequiredSamples
  /\ PartialRollout \in BOOLEAN
  /\ MaxTaskFailures \in Nat

VARIABLES
  (* feeder *)
  fed,                  \* samples put in pending_queue so far
  pending_queue,        \* samples, then the Done mark
  (* processor *)
  processor_pc,         \* where the processor coroutine is
  held,                 \* sample it took and has not submitted yet, or None
  condition_wait,       \* it is inside condition.wait(), not notified yet
  done_tasks_bound,     \* its local variable done_tasks has been assigned
  (* tasks *)
  running,              \* samples with an unfinished task in active_tasks
  generating,           \* those of them a rollout server has admitted
  interrupted,          \* those a server answered with is_cancel
  putting,              \* entries on their way to the message queue
  finished,             \* finished tasks still in active_tasks
  finished_failed,      \* tasks that raised, still in active_tasks
  failed_samples,       \* history: samples whose task raised
  cancel_queue,         \* interrupted samples to submit again
  servers_paused,       \* the rollout servers refuse and cancel requests
  (* control *)
  lock_queue, paused, monitor_loop_trigger, monitor_pc, main_pc, rollouter_running,
  staleness_samples,    \* the freshness counter
  rollout_version,      \* FullyAsyncRollouter.current_param_version
  (* the one outstanding call of the ParameterSynchronizer *)
  rpc, rpc_version

feedVars == << fed, pending_queue >>
processorVars == << processor_pc, held, condition_wait, done_tasks_bound >>
taskVars == << running, generating, interrupted, putting, finished, finished_failed,
               failed_samples, cancel_queue >>
controlVars == << paused, monitor_loop_trigger, staleness_samples, rollout_version >>
driverVars == << monitor_pc, main_pc, rollouter_running >>
rpcVars == << rpc, rpc_version >>

rollouterVars == << feedVars, processorVars, taskVars, controlVars, driverVars,
                    rpcVars, lock_queue, servers_paused >>

None == 0          \* no sample, and the end signal in the message queue
Done == 0          \* the "DONE" mark in pending_queue
Samples == 1..TotalRolloutSteps

\* Variant: the sample keeps the version it was made with.
EntryUnstamped(sample, version) == [sample |-> sample, version |-> 0]

Entry(sample, version) == [sample |-> sample, version |-> version]

RollouterInit ==
  /\ fed = 0
  /\ pending_queue = << >>
  /\ processor_pc = "top"
  /\ held = None
  /\ condition_wait = FALSE
  /\ done_tasks_bound = FALSE
  /\ running = {}
  /\ generating = {}
  /\ interrupted = {}
  /\ putting = {}
  /\ finished = 0
  /\ finished_failed = 0
  /\ failed_samples = {}
  /\ cancel_queue = << >>
  /\ servers_paused = FALSE
  /\ lock_queue = << >>
  /\ paused = FALSE
  /\ monitor_loop_trigger = TRUE
  /\ monitor_pc = "sleep"
  /\ main_pc = "stream"
  /\ rollouter_running = TRUE
  /\ staleness_samples = 0
  /\ rollout_version = 0
  /\ rpc = "none"
  /\ rpc_version = 0

-----------------------------------------------------------------------------
(* The lock, the event loop and the freshness test.                        *)

Owns(who) == lock_queue # << >> /\ Head(lock_queue) = who
Waits(who) == \E i \in DOMAIN lock_queue : lock_queue[i] = who
Join(who) == lock_queue' = Append(lock_queue, who)
Release == lock_queue' = Tail(lock_queue)
ReleaseAndJoin(who) == lock_queue' = Append(Tail(lock_queue), who)

(***************************************************************************)
(* From the top of its loop to its next await the processor holds the      *)
(* event loop: _should_pause_generation calls ray.get, which blocks it.    *)
(***************************************************************************)
LoopFree == processor_pc # "top"

\* condition.notify_all(); the variant forgets to.
NotifyNobody == UNCHANGED condition_wait
NotifyAll == condition_wait' = FALSE

\* len(self.active_tasks)
ActiveTasks == Cardinality(running) + finished + finished_failed

\* Variants of the freshness test: one sample too late; only the queue is looked at.
ShouldPauseLate ==
  \/ Len(queue) >= MaxQueueSize
  \/ staleness_samples > MaxRequiredSamples
ShouldPauseQueueOnly == Len(queue) >= MaxQueueSize

ShouldPause ==
  \/ Len(queue) >= MaxQueueSize
  \/ staleness_samples >= MaxRequiredSamples

-----------------------------------------------------------------------------
(* _feed_samples                                                           *)

FeedSample ==
  /\ LoopFree
  /\ fed < TotalRolloutSteps
  /\ Len(pending_queue) < PendingCapacity
  /\ fed' = fed + 1
  /\ pending_queue' = Append(pending_queue, fed + 1)
  /\ UNCHANGED << mqVars, processorVars, taskVars, controlVars, driverVars, rpcVars,
                  lock_queue, servers_paused >>

(***************************************************************************)
(* After the last sample.  fed goes one past TotalRolloutSteps to say that *)
(* the feeder has returned.                                                *)
(***************************************************************************)
FeedDone ==
  /\ LoopFree
  /\ fed = TotalRolloutSteps
  /\ Len(pending_queue) < PendingCapacity
  /\ fed' = fed + 1
  /\ pending_queue' = Append(pending_queue, Done)
  /\ UNCHANGED << mqVars, processorVars, taskVars, controlVars, driverVars, rpcVars,
                  lock_queue, servers_paused >>

-----------------------------------------------------------------------------
(* _processor_worker                                                       *)

\* The test at the top of the loop fails: go and set paused.
ProcessorMustPause ==
  /\ processor_pc = "top"
  /\ paused \/ ShouldPause
  /\ processor_pc' = "set_pause"
  /\ Join("processor")
  /\ UNCHANGED << mqVars, feedVars, held, condition_wait, done_tasks_bound, taskVars,
                  controlVars, driverVars, rpcVars, servers_paused >>

\* Variant: the limit itself still admits a task.
AfterTakeLate(active) == IF active > MaxConcurrentSamples THEN "limit" ELSE "submit"

(***************************************************************************)
(* With a sample in hand: the loop that waits for a free slot, or, when    *)
(* there is one, the submission; both begin at the lock.                   *)
(***************************************************************************)
AfterTake(active) == IF active >= MaxConcurrentSamples THEN "limit" ELSE "submit"

\* Variant: the sample is looked at and not removed.
ProcessorPeekCancelled ==
  /\ processor_pc = "top"
  /\ ~paused /\ ~ShouldPause
  /\ cancel_queue # << >>
  /\ held' = Head(cancel_queue)
  /\ processor_pc' = AfterTake(ActiveTasks)
  /\ Join("processor")
  /\ UNCHANGED << mqVars, feedVars, condition_wait, done_tasks_bound, taskVars, controlVars,
                  driverVars, rpcVars, servers_paused >>

ProcessorTakeCancelled ==
  /\ processor_pc = "top"
  /\ ~paused /\ ~ShouldPause
  /\ cancel_queue # << >>
  /\ held' = Head(cancel_queue)
  /\ cancel_queue' = Tail(cancel_queue)
  /\ processor_pc' = AfterTake(ActiveTasks)
  /\ Join("processor")
  /\ UNCHANGED << mqVars, feedVars, condition_wait, done_tasks_bound, running, generating,
                  interrupted, putting, finished, finished_failed, failed_samples,
                  controlVars, driverVars, rpcVars, servers_paused >>

\* pending_queue.get() suspends on an empty queue.
ProcessorAwaitPending ==
  /\ processor_pc = "top"
  /\ ~paused /\ ~ShouldPause
  /\ cancel_queue = << >>
  /\ pending_queue = << >>
  /\ processor_pc' = "get"
  /\ UNCHANGED << mqVars, feedVars, held, condition_wait, done_tasks_bound, taskVars,
                  controlVars, driverVars, rpcVars, lock_queue, servers_paused >>

\* It can take from pending_queue: at once, or woken from the wait above.
MayTakePending ==
  /\ pending_queue # << >>
  /\ \/ processor_pc = "get"
     \/ processor_pc = "top" /\ ~paused /\ ~ShouldPause /\ cancel_queue = << >>

ProcessorTakePending ==
  /\ MayTakePending
  /\ Head(pending_queue) # Done
  /\ held' = Head(pending_queue)
  /\ pending_queue' = Tail(pending_queue)
  /\ staleness_samples' = staleness_samples + 1
  /\ processor_pc' = AfterTake(ActiveTasks)
  /\ Join("processor")
  /\ UNCHANGED << mqVars, fed, condition_wait, done_tasks_bound, taskVars, paused,
                  monitor_loop_trigger, rollout_version, driverVars, rpcVars, servers_paused >>

(***************************************************************************)
(* The Done mark raises staleness_samples as well; then the processor      *)
(* drains the active tasks, or returns when there are none.                *)
(***************************************************************************)
ProcessorTakeDone ==
  /\ MayTakePending
  /\ Head(pending_queue) = Done
  /\ pending_queue' = Tail(pending_queue)
  /\ staleness_samples' = staleness_samples + 1
  /\ IF ActiveTasks > 0
     THEN processor_pc' = "final_drain" /\ Join("processor")
     ELSE processor_pc' = "done" /\ UNCHANGED lock_queue
  /\ UNCHANGED << mqVars, fed, held, condition_wait, done_tasks_bound, taskVars, paused,
                  monitor_loop_trigger, rollout_version, driverVars, rpcVars, servers_paused >>

ReapLoops == {"drain", "limit", "final_drain"}

\* Variant: the final drain waits once, not until no task is left.
AfterReapOnce(loop, active) ==
  CASE loop = "drain"       -> IF active > 0 THEN "drain" ELSE "await_resume"
    [] loop = "limit"       -> AfterTake(active)
    [] loop = "final_drain" -> "done"

(***************************************************************************)
(* Where a reaping loop goes when `active` tasks are left, and whether     *)
(* that place begins at the lock.                                          *)
(***************************************************************************)
AfterReap(loop, active) ==
  CASE loop = "drain"       -> IF active > 0 THEN "drain" ELSE "await_resume"
    [] loop = "limit"       -> AfterTake(active)
    [] loop = "final_drain" -> IF active > 0 THEN "final_drain" ELSE "done"

\* `async with self.lock: self.paused = True`, then on to the drain loop.
ProcessorSetPause ==
  /\ LoopFree
  /\ processor_pc = "set_pause"
  /\ Owns("processor")
  /\ paused' = TRUE
  /\ processor_pc' = AfterReap("drain", ActiveTasks)
  /\ ReleaseAndJoin("processor")
  /\ UNCHANGED << mqVars, feedVars, held, condition_wait, done_tasks_bound, taskVars,
                  monitor_loop_trigger, staleness_samples, rollout_version, driverVars,
                  rpcVars, servers_paused >>

Crash ==
  /\ processor_pc' = "crashed"
  /\ Release

ContinueAfterReap(active) ==
  /\ processor_pc' = AfterReap(processor_pc, active)
  /\ IF AfterReap(processor_pc, active) = "done" THEN Release ELSE ReleaseAndJoin("processor")

(***************************************************************************)
(* The body of a reaping loop: asyncio.wait returns with the tasks that    *)
(* are finished (holding the lock until there is one) and leaves the       *)
(* others in active_tasks; awaiting a finished task re-raises what it      *)
(* raised, which ends the processor.                                       *)
(***************************************************************************)
ProcessorReap ==
  /\ LoopFree
  /\ processor_pc \in ReapLoops
  /\ Owns("processor")
  /\ finished + finished_failed > 0
  /\ finished' = 0
  /\ finished_failed' = 0
  /\ done_tasks_bound' = TRUE
  /\ IF finished_failed > 0 THEN Crash ELSE ContinueAfterReap(Cardinality(running))
  /\ UNCHANGED << mqVars, feedVars, held, condition_wait, running, generating, interrupted,
                  putting, failed_samples, cancel_queue, controlVars, driverVars, rpcVars,
                  servers_paused >>

(***************************************************************************)
(* The lock was waited for while pause() emptied active_tasks: the wait is *)
(* skipped and the loop reads done_tasks, which is unbound before the      *)
(* first wait of the coroutine (UnboundLocalError) and stale after it.     *)
(***************************************************************************)
ProcessorNothingToReap ==
  /\ LoopFree
  /\ processor_pc \in ReapLoops
  /\ Owns("processor")
  /\ ActiveTasks = 0
  /\ IF done_tasks_bound THEN ContinueAfterReap(0) ELSE Crash
  /\ UNCHANGED << mqVars, feedVars, held, condition_wait, done_tasks_bound, taskVars,
                  controlVars, driverVars, rpcVars, servers_paused >>

\* condition.wait(), after a drain or before a submission.
ProcessorWaitCondition ==
  /\ LoopFree
  /\ processor_pc \in {"await_resume", "submit"}
  /\ Owns("processor")
  /\ paused
  /\ condition_wait' = TRUE
  /\ Release
  /\ UNCHANGED << mqVars, feedVars, processor_pc, held, done_tasks_bound, taskVars,
                  controlVars, driverVars, rpcVars, servers_paused >>

\* Notified: condition.wait() takes the lock again, behind those who wait for it.
ProcessorWoken ==
  /\ LoopFree
  /\ processor_pc \in {"await_resume", "submit"}
  /\ ~condition_wait
  /\ ~Waits("processor")
  /\ Join("processor")
  /\ UNCHANGED << mqVars, feedVars, processorVars, taskVars, controlVars, driverVars,
                  rpcVars, servers_paused >>

ProcessorResumed ==
  /\ LoopFree
  /\ processor_pc = "await_resume"
  /\ Owns("processor")
  /\ ~paused
  /\ processor_pc' = "top"
  /\ Release
  /\ UNCHANGED << mqVars, feedVars, held, condition_wait, done_tasks_bound, taskVars,
                  controlVars, driverVars, rpcVars, servers_paused >>

ProcessorSubmit ==
  /\ LoopFree
  /\ processor_pc = "submit"
  /\ Owns("processor")
  /\ ~paused
  /\ running' = running \cup {held}
  /\ held' = None
  /\ processor_pc' = "top"
  /\ Release
  /\ UNCHANGED << mqVars, feedVars, condition_wait, done_tasks_bound, generating, interrupted,
                  putting, finished, finished_failed, failed_samples, cancel_queue,
                  controlVars, driverVars, rpcVars, servers_paused >>

Processor ==
  \/ ProcessorMustPause
  \/ ProcessorTakeCancelled
  \/ ProcessorAwaitPending
  \/ ProcessorTakePending
  \/ ProcessorTakeDone
  \/ ProcessorSetPause
  \/ ProcessorReap
  \/ ProcessorNothingToReap
  \/ ProcessorWaitCondition
  \/ ProcessorWoken
  \/ ProcessorResumed
  \/ ProcessorSubmit

-----------------------------------------------------------------------------
(* The rollout servers (fully async vLLM and SGLang servers), as one:      *)
(* while paused they answer a new request with an empty, cancelled result  *)
(* and cancel the ones they had admitted.                                  *)

\* Samples the servers are done with.
Stamped == {e.sample : e \in putting}

ServerAdmit(s) ==
  /\ s \in running \ (generating \cup interrupted \cup Stamped)
  /\ ~servers_paused
  /\ generating' = generating \cup {s}
  /\ UNCHANGED << mqVars, feedVars, processorVars, running, interrupted, putting,
                  finished, finished_failed, failed_samples, cancel_queue, controlVars,
                  driverVars, rpcVars, lock_queue, servers_paused >>

ServerInterrupt(s) ==
  /\ s \in running \ (interrupted \cup Stamped)
  /\ servers_paused
  /\ generating' = generating \ {s}
  /\ interrupted' = interrupted \cup {s}
  /\ UNCHANGED << mqVars, feedVars, processorVars, running, putting, finished,
                  finished_failed, failed_samples, cancel_queue, controlVars, driverVars,
                  rpcVars, lock_queue, servers_paused >>

-----------------------------------------------------------------------------
(* _process_single_sample_streaming                                        *)

\* Not cancelled: the sample gets the Rollouter's version and put_sample is called.
TaskStamp(s) ==
  /\ LoopFree
  /\ s \in generating
  /\ generating' = generating \ {s}
  /\ putting' = putting \cup {Entry(s, rollout_version)}
  /\ UNCHANGED << mqVars, feedVars, processorVars, running, interrupted, finished,
                  finished_failed, failed_samples, cancel_queue, controlVars, driverVars,
                  rpcVars, lock_queue, servers_paused >>

(***************************************************************************)
(* The message queue serves the call, whatever the Rollouter's event loop  *)
(* does.  The reply only bumps a statistic: while it travels the task is   *)
(* in active_tasks, as it still is once it is finished and not reaped.     *)
(***************************************************************************)
TaskPut(s) ==
  /\ \E e \in putting :
       /\ e.sample = s
       /\ PutSample(e)
       /\ putting' = putting \ {e}
  /\ running' = running \ {s}
  /\ finished' = finished + 1
  /\ UNCHANGED << feedVars, processorVars, generating, interrupted, finished_failed,
                  failed_samples, cancel_queue, controlVars, driverVars, rpcVars,
                  lock_queue, servers_paused >>

TaskCancelled(s) ==
  /\ LoopFree
  /\ s \in interrupted
  /\ cancel_queue' = Append(cancel_queue, s)
  /\ running' = running \ {s}
  /\ interrupted' = interrupted \ {s}
  /\ finished' = finished + 1
  /\ UNCHANGED << mqVars, feedVars, processorVars, generating, putting, finished_failed,
                  failed_samples, controlVars, driverVars, rpcVars, lock_queue, servers_paused >>

\* The agent loop or the reward raised: the sample is gone.
TaskFail(s) ==
  /\ LoopFree
  /\ s \in generating
  /\ Cardinality(failed_samples) < MaxTaskFailures
  /\ running' = running \ {s}
  /\ generating' = generating \ {s}
  /\ finished_failed' = finished_failed + 1
  /\ failed_samples' = failed_samples \cup {s}
  /\ UNCHANGED << mqVars, feedVars, processorVars, interrupted, putting, finished,
                  cancel_queue, controlVars, driverVars, rpcVars, lock_queue, servers_paused >>

-----------------------------------------------------------------------------
(* _async_monitor_loop                                                     *)

(***************************************************************************)
(* After a sleep: the trigger and the freshness test are read before the   *)
(* lock is asked for.  A round that finds nothing to do is a stutter.      *)
(***************************************************************************)
MonitorCheck ==
  /\ LoopFree
  /\ monitor_pc = "sleep"
  /\ monitor_loop_trigger
  /\ ~ShouldPause
  /\ monitor_pc' = "wake"
  /\ Join("monitor")
  /\ UNCHANGED << mqVars, feedVars, processorVars, taskVars, controlVars, main_pc,
                  rollouter_running, rpcVars, servers_paused >>

MonitorResume ==
  /\ LoopFree
  /\ monitor_pc = "wake"
  /\ Owns("monitor")
  /\ paused' = FALSE
  /\ NotifyAll
  /\ monitor_pc' = "sleep"
  /\ Release
  /\ UNCHANGED << mqVars, feedVars, processor_pc, held, done_tasks_bound, taskVars,
                  monitor_loop_trigger, staleness_samples, rollout_version, main_pc,
                  rollouter_running, rpcVars, servers_paused >>

MonitorStop ==
  /\ LoopFree
  /\ monitor_pc = "sleep"
  /\ ~rollouter_running
  /\ monitor_pc' = "stopped"
  /\ UNCHANGED << mqVars, feedVars, processorVars, taskVars, controlVars, main_pc,
                  rollouter_running, rpcVars, lock_queue, servers_paused >>

-----------------------------------------------------------------------------
(* _streaming_generation_main, after the processor has ended either way    *)

MainSendEndSignal ==
  /\ LoopFree
  /\ main_pc = "stream"
  /\ processor_pc \in {"done", "crashed"}
  /\ PutSample(Entry(None, rollout_version))
  /\ main_pc' = "stop"
  /\ Join("main")
  /\ UNCHANGED << feedVars, processorVars, taskVars, controlVars, monitor_pc,
                  rollouter_running, rpcVars, servers_paused >>

MainStop ==
  /\ LoopFree
  /\ main_pc = "stop"
  /\ Owns("main")
  /\ rollouter_running' = FALSE
  /\ main_pc' = "over"
  /\ Release
  /\ UNCHANGED << mqVars, feedVars, processorVars, taskVars, controlVars, monitor_pc,
                  rpcVars, servers_paused >>

-----------------------------------------------------------------------------
(* The calls of the ParameterSynchronizer: pause, update_param_version and *)
(* resume.  rpc names the call that is outstanding.                        *)

RpcArrive ==
  /\ LoopFree
  /\ rpc \in {"pause", "update", "resume"}
  /\ ~Waits("rpc")
  /\ Join("rpc")
  /\ UNCHANGED << mqVars, feedVars, processorVars, taskVars, controlVars, driverVars,
                  rpcVars, servers_paused >>

PauseBegin ==
  /\ LoopFree
  /\ rpc = "pause"
  /\ Owns("rpc")
  /\ paused' = TRUE
  /\ servers_paused' = PartialRollout
  /\ rpc' = "gather"
  /\ UNCHANGED << mqVars, feedVars, processorVars, taskVars, monitor_loop_trigger,
                  staleness_samples, rollout_version, driverVars, rpc_version, lock_queue >>

(***************************************************************************)
(* gather(return_exceptions=True) has every task; the lock was held all    *)
(* along.  The monitor is told to stand back only here.                    *)
(***************************************************************************)
PauseEnd ==
  /\ LoopFree
  /\ rpc = "gather"
  /\ Owns("rpc")
  /\ running = {}
  /\ finished' = 0
  /\ finished_failed' = 0
  /\ monitor_loop_trigger' = FALSE
  /\ rpc' = "none"
  /\ Release
  /\ UNCHANGED << mqVars, feedVars, processorVars, running, generating, interrupted, putting,
                  failed_samples, cancel_queue, paused, staleness_samples, rollout_version,
                  driverVars, rpc_version, servers_paused >>

\* Variants of the recount: the queue is left out; nothing is recounted.
RecountedActive == ActiveTasks + Len(cancel_queue)
NotRecounted == staleness_samples

\* The new value of staleness_samples: what is generated or in generation.
RecountedSamples == ActiveTasks + Len(cancel_queue) + Len(queue)

UpdateParamVersion ==
  /\ LoopFree
  /\ rpc = "update"
  /\ Owns("rpc")
  /\ rollout_version' = rpc_version
  /\ staleness_samples' = RecountedSamples
  /\ PutValidate(rpc_version)
  /\ rpc' = "resume"
  /\ Release
  /\ UNCHANGED << feedVars, processorVars, taskVars, paused, monitor_loop_trigger,
                  driverVars, rpc_version, servers_paused >>

Resume ==
  /\ LoopFree
  /\ rpc = "resume"
  /\ Owns("rpc")
  /\ servers_paused' = FALSE
  /\ paused' = FALSE
  /\ monitor_loop_trigger' = TRUE
  /\ NotifyAll
  /\ rpc' = "none"
  /\ Release
  /\ UNCHANGED << mqVars, feedVars, processor_pc, held, done_tasks_bound, taskVars,
                  staleness_samples, rollout_version, driverVars, rpc_version >>

-----------------------------------------------------------------------------
Feeder == FeedSample \/ FeedDone
Task(s) == TaskStamp(s) \/ TaskPut(s) \/ TaskCancelled(s) \/ TaskFail(s)
Server(s) == ServerAdmit(s) \/ ServerInterrupt(s)
Monitor == MonitorCheck \/ MonitorResume \/ MonitorStop
Main == MainSendEndSignal \/ MainStop
Handlers == RpcArrive \/ PauseBegin \/ PauseEnd \/ UpdateParamVersion \/ Resume

RollouterNext ==
  \/ Feeder
  \/ Processor
  \/ \E s \in Samples : Task(s) \/ Server(s)
  \/ Monitor
  \/ Main
  \/ Handlers

=============================================================================
