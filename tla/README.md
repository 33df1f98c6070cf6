# RL post-training in TLA+

Specifications, model-checking runs and proofs for the reinforcement-learning
trainers of this repository: the fully asynchronous one
(`verl/experimental/fully_async_policy/`), the synchronous one
(`verl/trainer/ppo/`) and the one-step-off one, with the checkpoints, weight
transfer, data plane and rollout services they stand on. Paths below are under
`src/verl/`.

## The system

The repository fine-tunes language models: supervised trainers (`src/sft/`), a
copy of the verl reinforcement-learning framework with the PSFT/RPSFT losses as
a recipe, and evaluation scripts. Much of it is numerical. The parts with state,
protocols or index arithmetic of their own:

| Component | State | Operations | Interacts with |
|---|---|---|---|
| **MessageQueue** actor (`message_queue.py`) | deque of samples, counters, version, validation records, `running` | `put_sample`, `get_sample` (waits on a condition), `clear_queue`, `shutdown`, `put_validate`, `get_validate`, `update_param_version` | Rollouter puts, Trainer gets, synchronizer sets the version |
| **FullyAsyncRollouter** actor | `pending_queue`, `cancel_queue`, `active_tasks`, `paused`, `monitor_loop_trigger`, `staleness_samples`, one lock with a condition | feeder, processor, one task per sample, monitor, main coroutine, handlers `pause`, `update_param_version`, `resume` | rollout servers, message queue, synchronizer |
| **FullyAsyncTrainer** actor | collected samples, `local_trigger_step`, `current_param_version` | `fit`, `fit_step`, parameter-sync trigger, checkpoints | message queue, synchronizer, disk |
| **ParameterSynchronizer** actor (`param_sync.py`) | `current_version`, the last `update` and `resume` | `sync_weights`, `wait_last_valid` | all of the above |
| **Agent loops and servers** (`agent_loop/`, `vllm_rollout/`) | per request: cancel event, generation; per loop: prompt, mask, state; per worker: cancellation event | generate, cancel, resume, call a tool, restore a partial output, score | Rollouter, tool pool, reward manager |
| **Tool pool** (`tools/sandbox_fusion_tools.py`) | semaphore in one actor | `acquire`, `release`, `execute` | agent loops |
| **Rate-limited reward** (`reward_manager/limited.py`) | in each reward loop process: two token buckets, a semaphore | `run_single` | agent loops |
| **RayPPOTrainer** (`trainer/ppo/ray_trainer.py`) | `global_steps`, dataloader, the batch | `fit`: generate, balance, log-probabilities, values, advantages, updates, save, weight transfer, validation | worker groups, replicas, disk |
| **OneStepOffRayTrainer** | the same and a look-ahead task | `fit_step`, `_async_gen_next_batch` | rollout workers of its own |
| **Checkpoints** (`checkpoint_manager.py`, `fsdp_checkpoint_manager.py`) | list of saved paths; shards, `data.pt` and tracker on the disk | save, retention, load | trainers, ranks |
| **NCCL checkpoint engine** (`nccl_checkpoint_engine.py`) | two buffers on each side, PUB/SUB subscription | `send_weights`, `receive_weights` | trainer, rollout workers |
| **Data plane** (`protocol.py`, `decorator.py`, `seqlen_balancing.py`, `core_algos.py`) | none: pure functions of a batch | repeat, pad, chunk, collect, partition, micro-batch, advantages, loss aggregation | trainer, workers |

### What is hard

* Fully async: the monitor tests before it locks; the processor takes a sample
  and submits it later; `pause()` and the processor both empty `active_tasks`;
  freshness is a counter recounted from three other pieces of state, and decides
  who may generate and who will be woken; synchronizations overlap training.
* Partial rollout: an answer can race its cancellation; `pause()` reaches servers
  and workers in any order; an interrupted loop goes on elsewhere, later, under
  other weights, with a tool call or a score in between; the monitor may let
  samples through while the weights are being changed.
* Checkpoints: several files of several ranks, retention and tracker are written
  one after the other, and a crash may fall anywhere.
* Weight transfer: buffers are swapped around a broadcast in a thread, and
  metadata is dropped for a subscriber that comes up late.
* Data plane: rows are permuted, copied, cut into micro-batches and collected,
  and each result must come back to its row; ranks must agree on their number of
  micro-batches or they wait for each other.

### What makes it correct

* Queue and Rollouter: every sample accounted for, in order, within the limits of
  concurrency and staleness; no lost wake-up; pauses and training end.
* Partial rollout: a response put together from fragments is the text the policy
  would have written; limits hold across cancels; each response is scored once;
  no weights change under a response that is growing.
* Checkpoints: what the tracker names can be resumed from; batches are neither
  skipped nor repeated; retention keeps its limit.
* Synchronous training: every batch is on policy; device memory is used in turns;
  weights arrive whole; advantages do not depend on the order of the rows.

## Modules

| Module | Content |
|---|---|
| `MessageQueue`, `MessageQueueClients` | the queue actor's methods; the actor with racing consumers, `clear_queue`, `shutdown`, and its properties |
| `SampleStream` | abstract: an ordered stream that may lose its oldest samples |
| `Rollouter` | the Rollouter's coroutines and handlers, its tasks and one abstract server |
| `FullyAsync` | Rollouter, queue, Trainer and synchronizer composed; `Spec`, `FairSpec` |
| `FullyAsyncProperties` | types, safety, liveness, and the statements the code does not keep |
| `LLMServer` | requests of the partial rollout servers, their cancel events and pause |
| `ToolPool`, `RewardLimiter` | the pool of tool calls; token buckets, semaphore and timeout of the reward |
| `AgentLoops` | composes these three: the single-turn and the tool loop, workers, pause and resume |
| `AgentLoopsProperties`, `PartialGeneration` | its properties; abstract: responses that grow and are scored once |
| `Checkpoint` | save sequence, retention, tracker, crash and load |
| `FullyAsyncCheckpoint` | the fully asynchronous trainer's use of it |
| `WeightSync` | the double-buffered NCCL transfer |
| `SeqlenBalancing`, `DataProto`, `CoreAlgos` | Karmarkar-Karp and micro-batches; batch container, dispatch and collect; advantage estimators and loss aggregation |
| `PPOTrainer`, `PPOTrainerProperties` | composes these five: `RayPPOTrainer.fit`, with crashes and restarts |
| `OneStepOff` | the one-step-off trainer over the same parts |
| `MCMessageQueue`, `MCFullyAsync`, `MCFullyAsyncCheckpoint`, `MCPPOTrainer`, `MCAgentLoops` | instances for TLC |
| `MessageQueueClientsProofs` | proofs: the message queue and its refinement |
| `FullyAsyncProofs`, `FullyAsyncLagProofs` | proofs: counters and wake-ups, the stream of samples, its end signal and records; the age of samples, with synchronous training |
| `AgentLoopsProofs` | proofs: pool, limiter, agent loops and the refinement of `PartialGeneration` |
| `SeqlenBalancingProofs` | proofs: partitions, micro-batches and dispatch lose and mix no row |
| `PPOTrainerProofs`, `PPOTrainerOrderProofs` | proofs: checkpoints; the transfer's buffers and its progress, the order of training, the rows of a batch |
| `OneStepOffProofs` | proofs: the look-ahead of the one-step-off trainer |

Operators named `...Late`, `...Once`, `...Uncounted` and so on, each marked
*Variant* and placed before the operator it varies, are plausible mistakes; they
are used to show that the properties can fail and belong to no specification.

### How the models correspond to the code

**Fully asynchronous training**

* A sample is its number in feeding order; an entry of the message queue is the
  sample and the version stamped on it, and `None` is the end signal.
* `processor_pc` names the place of the processor between two awaits: `top`
  (loop test), `get` (suspended in `pending_queue.get()`), `set_pause`, `drain`,
  `limit`, `final_drain` (the three reaping loops), `await_resume` and `submit`
  (under the lock, waiting for `paused` to clear), `done`, `crashed`.
* `lock_queue` is the asyncio lock: its head owns it, the rest wait in FIFO
  order. `condition.wait()` is `ProcessorWaitCondition` (releases) and
  `ProcessorWoken` (joins again). The monitor's own locked test of `running` at
  the top of its loop is not a step of its own: it changes nothing and only
  delays the monitor, which may sleep as long as it likes in any case.
* `_should_pause_generation` blocks the event loop in `ray.get`; `LoopFree` keeps
  the Rollouter's other coroutines still from the top of the processor's loop to
  its next await. Queue, Trainer, synchronizer and servers move on.
* `rpc` is the one call of the synchronizer that is outstanding. Ray delivers
  `resume` after `update_param_version`, whose result it takes as an argument.
* `put_sample` and its reply are one step (`TaskPut`), separate from the stamp
  (`TaskStamp`); the reply changes only a statistic. `update_param_version`
  awaits the queue's size in the middle of its recount: the step stands for the
  moment the queue answers, since the lock is held and a task that finishes
  meanwhile stays in `active_tasks`. Validation inside it is its record.
* `active_tasks` is `running`, plus the tasks that are finished but reaped by
  nobody (`finished`, `finished_failed`). A reaping step takes all that are
  finished, as `asyncio.wait` does.
* History variables: `trained`, `failed_samples`, `delivered`.
* Left out: statistics and logging, numeric steps, checkpoints (they are in
  `FullyAsyncCheckpoint`), `parallel_validate_and_rollout`,
  `_compute_old_log_prob`'s CPU copies. The transfer of weights is commented out
  in `sync_weights`; its place is the `transfer` state. The behaviours begin where
  the task runner calls both `fit` methods, after the initial synchronization.

**Partial rollout**

* A token is its place in the transcript of its completion: the text the policy
  would write undisturbed, with the tool's answers in it. The engine continues a
  prompt behind its last token, up to the end of the turn.
* A request is `sent`, `generating`, `answered`; `generate_for_partial` and
  `cancel` are one step each where the code holds the server's lock and does not
  await. `loop_pc` is the place of a loop between its awaits, `agent_state` the
  code's own state. The cancels of a pause are delivered one by one, in any order.
* Time goes in ticks, and the tokens of a bucket are counted in what it gains in
  one, so that a wait is a whole number of ticks at any rate. The reward function
  and the tool return, fail or time out.
* `_compute_score` picks any of the `NumRewardWorkers` reward loop processes
  (`reward_loop.py:262-279`; `random.choice`). Buckets and semaphore are attributes
  of the class in a process: `tokens`, `waiters` and `passed` are per process. The
  tool pool is one named actor for all loops.
* The Rollouter is reduced to what the loops see of it; `FullyAsync` has the other
  half, with one abstract server in the place of this. A sample is submitted when
  `paused` is false and nobody holds the lock, which `pause()` and `resume()` do
  while they await their calls and the samples (`cancelling`, `resuming`). In
  between, `transfer` is the time until `update_param_version` and `updated` that
  until `resume`; `MonitorResume` is the monitor that had found its trigger set
  before `pause()` and gets the lock after it (`fully_async_rollouter.py:727-731`).
  A sample it lets through is stamped with the old version and meets cancelled
  workers and paused servers until `resume()` reaches them. The Rollouter's own
  pauses, for stale samples, only make submissions later and are left out.
* History variables: `passed`, what a bucket of the documented burst and rate has
  left after the requests let through; `written`, the versions under which the
  tokens of a response were generated; `strays`, the loops started in a
  `transfer`; `cut`, the length at the last cancelled answer; `grown`, the
  responses that have grown since their sample was submitted.

**Checkpoints and the synchronous trainer**

* Weights are the list of the updates applied to them, each a batch number and the
  incarnation of the job that applied it; a batch number is its place in the
  dataloader's stream. So "no batch skipped or repeated" can be read off the
  weights.
* A file is missing, torn (opened and not closed) or written. The three files of a
  rank are one shard. The disk survives a crash, everything else is lost; the
  job then starts again with `resume_mode` `auto`.
* `pc` is the phase of `fit`; remote calls that change state on several ranks (a
  save, a transfer) are steps of each rank, the others are one step.
* A byte of a weight is its index and version; a broadcast moves the bytes when it
  completes, the latest moment it may.
* Log-probabilities and values are distinct functions of a row, so that a result
  at the wrong row is seen. Python's sort is an insertion that leaves equal elements
  in place (`SortedBy`); the loops of the data plane are recursive functions, which
  TLC evaluates and the proofs can use. Advantages are integers or exact fractions; gamma is 1;
  the division by the standard deviation and the whitening are left out.

**The one-step-off trainer**

* `batch_data_future` is the look-ahead task. Its first part, up to the generation
  call, runs at the `sleep(0)` after it is created: it takes the next batch of the
  dataloader before the training of the current one goes on. It ends in any later
  phase. `_fit_update_weights` is `pass`, and so is its definition.

## Runs

| Run | Instance | Shows |
|---|---|---|
| `message_queue` | capacity 2, 2 consumers, 6 puts | order, freshness, wake-ups, shutdown, refinement of `SampleStream` |
| `partial` | 7 samples, batches of 2, threshold 0.5 (limit 3), 2 concurrent, partial rollout, `test_freq` 2 | conservation, counters, bounds and lag through pauses, interruption and resubmission; end signal last, validation records read; 668,930 states |
| `whole_live` | 8 samples, batches of 2, 2 local steps per version, threshold 0 (limit 4), whole samples, one failing task | synchronous training, conservation; pauses and training end; 27,557 states |
| `ppo_resume` | the configurations below, 2 ranks, 2 receivers, 2 restarts | checkpoints, order of the batches, transfer, data plane, look-ahead; 228,734 states |
| `agent_serving` | one sample of two completions, one worker, two servers, two reward loop processes, one pause | partial rollout, limits, refinement of `PartialGeneration`, liveness; 369,043 states |
| `checkpoint_self_delete` | two local steps per version, retention limit 1 | **violated**: retention deletes the checkpoint just written |
| `monitor_race` | 4 samples, batches of 1, threshold 1 (limit 2), 2 concurrent, whole samples | **violated**: the monitor undoes a pause |
| `drain_crash` | as `monitor_race` | **violated**: the processor dies of an unbound `done_tasks` |
| `partial_hang` | as `monitor_race`, partial rollout | **violated**: Rollouter and Trainer wait for each other |
| `reward_limits` | as `agent_serving` | **violated**: two reward loop processes exceed the documented global limit |
| `loss_invariance` | one step, two ranks, responses of different lengths | **violated**: `seq-mean-token-sum-norm` depends on the number of ranks |
| `one_step_policy` | three steps, no failure | **violated**: the rollout keeps the initial weights |

`ppo_resume` lets `Init` pick a configuration:

* *resume*: three or four steps over two epochs of two batches, retention limits
  none, 1 and 2, saving each step, or every second step with critic warm-up and an
  expiring instance;
* *transfer*: the NCCL engine with six weights of 1 to 3 bytes in buckets of 3, so
  that buckets are full, partly full and flushed early, and both buffers are used
  twice;
* *data*: one step of two prompts with two responses each, every combination of
  three response lengths (one with a tool observation) for three ways of balancing
  and for GAE, and every vector of rewards for nine other estimators; meshes with
  tensor and with pipeline parallelism;
* *one step off*: three or four steps with exactly the data they need, limits 1
  and 2, saving each or every second step.

**Bounds.** `TotalRolloutSteps` bounds a behaviour; 7 samples in batches of two
with a limit of 3 give four versions, several pauses, overruns of the queue and a
sample left over at the end. `PendingCapacity` 1 makes the feeder wait, which 128
would not here. `MaxTaskFailures` bounds tasks that raise. `StalenessPercent` is the
threshold as an integer; `MCFullyAsync` computes the limits as
`set_max_required_samples` does, rounding included. The abstract server of `partial`
may let a request finish although it is told to pause, so that whole samples are
among its behaviours. `Steps` and `MaxRestarts` bound the jobs: two crashes reach a job that
resumes from a checkpoint of a resumed job and one that finds the torn tracker of
an earlier life; three folders with a limit of two make retention work. `Length`
5 with a tool's answer at 3 or 4 and `ResponseLength` 4 reach an answer that fits,
one that does not, a cut response and a cancel before, in and behind each;
`MaxPauses` 1 suffices for a cancel at any place, and `RateLimit`, `MaxConcurrent`
and the bursts are 1 so that two completions contend; a reward needs more tokens
than a burst holds. The action constraint `Assigned` of
`MCAgentLoops` keeps the instance small: servers and reward workers are alike until
they are used, so what the first response uses first has the number 1; and loops with
tools, which stay on the server they begin on, have one server each and one reward
worker together, so that their rewards contend. The single-turn loops of the same
instance share servers and take any reward worker. The proofs have no such constraint.

**Fairness.** `FullyAsync!FairSpec` is weak fairness of each coroutine, of each
sample's task and server, of the handlers and of the other two actors: asyncio and
the FIFO lock run every coroutine that can go on, generation is bounded by
`max_tokens`, Ray delivers calls, and the monitor's sleep is finite.
`AgentLoops!FairSpec` is weak fairness of each loop, request, tool call, reward and
delivered cancel, and of the clock; nothing obliges the trainer to pause, or the
monitor to wait for the lock when it does. The
message queue's clients are weakly fair in `message_queue`. `PPOTrainer` and
`OneStepOff` assume none: crashes may be endless.

**Deadlock** is checked in `whole_live`. In `partial` it is not: with partial
rollout the system really can stop, which is what `partial_hang` shows. In
`message_queue` and `agent_serving` everything stops when the work is done;
liveness shows that it is not before. In `ppo_resume` jobs end or fail, and a
transfer with a late subscriber hangs (`TransferNeverStuck` says that it hangs for
no other reason).

### What the runs found

* `monitor_race` - the monitor passes its two tests, `pause()` takes the lock,
  and when it releases it the waiting monitor clears `paused` and the processor
  submits during the transfer. The bounds hold nevertheless, and the stray
  sample carries the version it was finished under. With partial rollout the
  stray sample meets paused servers: it is stamped with the old version and its
  first token may come after `resume()`, under the next one, which is why
  `ResponsesContiguous` allows a stray loop one version more than its stamp says.
* `drain_crash` - the processor waits for the lock in a reaping loop while
  `pause()` clears `active_tasks`; the loop then reads `done_tasks` before its
  first assignment. Later in a run `done_tasks` is stale but bound, and awaiting
  a finished task again is harmless.
* `partial_hang` - a cancelled sample is counted by the recount in the cancel
  queue and in its unreaped task, so the counter can stay at the limit with
  nothing left to bring it down.
* `checkpoint_self_delete` - with `trigger_parameter_sync_step > 1` a parameter
  version is saved after each of its steps; the list of saved paths then holds the
  same folder twice, and retention deletes the folder the tracker names.
* `one_step_policy` - `_fit_update_weights` is `pass`, so the third batch is
  generated by weights two updates old, the fourth three, and a resumed job
  generates with the base model.
* `reward_limits` - the documentation of `limited.py` (195-197, 336) calls the limits
  global across workers; each reward loop process has its own, so
  `reward_model.num_workers` of them (8 by default) let through as many times the
  limit. What holds, in each process, is `LimitsRespected`.
* `loss_invariance` - the docstring of `agg_loss` (`core_algos.py:1035`) promises a
  loss that does not depend on the parallelism; `seq-mean-token-sum-norm` has no
  factor `dp_size`. The other modes keep the promise (`MicroBatchesCover`).
* What is generated ahead can exceed `max_required_samples` by one sample (the
  one in the processor's hand when the recount runs), so the message queue, whose
  capacity is that limit, can drop a sample at a positive threshold.
  `OutstandingBound` and `FreshnessCounter` are therefore stated with that one.
* A sample can be trained on more versions after its own than the limit on what is
  outstanding suggests: with whole samples, one that the monitor lets through
  during a transfer is finished by the next pause, one version later, and waits
  behind the queue's others. `VersionLagBound` counts two versions before the queue
  (one with partial rollout) and those that the queue holds.

Properties state the following behaviour as it is, and it may surprise:

* A retention limit of one gives up resumability during a save
  (`TrackedCheckpointResumable`); a crash while the tracker is rewritten leaves it
  empty and the job cannot resume by itself.
* A critic warm-up step ends without the weight transfer that wakes the colocated
  replicas (`SharedInTurns`), and is not saved.
* A one-step-off job that resumes skips the batch that was in flight. Resumed in
  its first epoch, it runs out of data for lack of it before its last step, where it
  fails unpacking `None`; epochs are counted afresh after a resume, so a job resumed
  later has data to spare (`LookAheadInOrder`).
* A tool call whose text a cancel has split is not recognised (`ResponsesContiguous`).

Some behaviour that the models have is asserted by no property, neither as right nor
as wrong:

* a subscription that comes up late loses metadata and hangs the transfer:
  `TransferNeverStuck` excludes it (`dropped = {}`) and `WeightsDelivered` speaks of
  what is delivered;
* REINFORCE++ resets its return at a tool observation, so that only the last turn is
  credited: `AdvantagesFollowTheRows` fixes the tokens behind the last observation,
  which both readings credit;
* `fit` of the asynchronous trainer ends with a call that passes `global_steps=`
  (`fully_async_trainer.py:379`) to a method that does not accept it (651): with
  updates left to synchronize, `TrainerFinish` leads to `failed` and the final
  synchronization and checkpoint are not done;
* a micro-batch may exceed `max_token_len`, which `seqlen_balancing.py:362` documents
  as its largest number of tokens: the number of micro-batches is computed from the
  sum of the lengths, and no partition into so many need fit;
* samples cancelled by a pause during the final drain stay in the cancel queue.

Seen while reading, outside the models: the optimal token baselines are called
with `config` and without `old_log_probs` (`ray_trainer.py:216`); the greedy
responses of ReMax are generated after `sleep_replicas` (1404);
`_launch_individual_rewards` repeats a batch that is repeated already; with `enable_global_rate_limit=False` the execution
pool fails at its first call; a paused vLLM server that returns early leaves its
entries behind.

## Proofs

`tlapm` checks every step, for all values of the constants under the
assumptions the modules name:

* positive sizes, a queue capacity equal to the staleness limit, a concurrency
  limit within it, fewer consumers than slots of the queue actor
  (`max_concurrency`);
* synchronous and one-step-off trainer: distinct roles with the actor among them,
  steps that are naturals, epochs of at least one batch, an integer
  `critic_warmup`, number of steps and number of epochs, at least one receiver (the
  rollout has a replica), no weight larger than the bucket
  (`nccl_checkpoint_engine.py` asserts it);
* the rows of a batch (`PPOTrainerDataAssumption`): every data parallel rank has
  workers, one of them answers, and those that do are numbered like the ranks, which
  is how the workers lay out their device meshes (`fsdp_workers.py:628`); a batch
  has `n` responses to each prompt and divides into equal chunks, which
  `DataProto.chunk` asserts (`protocol.py:885`), for the prefix grouper into groups
  as `_balance_batch` demands (`ray_trainer.py:1108`). With `keep_minibatch` the
  mini-batch size divides the batch: otherwise the loop at `ray_trainer.py:1128`
  drops the rows of the tail. No caller in the repository sets that option;
* agent loops: a completion belongs to one sample; two tool answers are never
  adjacent in a transcript and none stands at its start, since the policy writes
  the call that each answers; buckets are the two `run_single` knows, and requests
  and bursts are positive.

**Message queue.** `FreshestRun` is inductive with the types. From it follow the
delivery order (what is delivered lies before what is queued) and the refinement
of `SampleStream`, whose `next` is `total_produced - Len(queue) + 1` and whose
`received` is `delivered`: a put into a full queue is a `Send` that skips one, a
get is a `Deliver` of exactly `next` (this is where `FreshestRun` is needed: the
head of the queue is the sample `next` names), `clear_queue` is a `Purge`.

**Composition.** `Frames` states which actions touch which variables, so each
proof looks at the actions that can disturb its invariant.

* `TypeCorrect`: the types are inductive together with `TaskStages` (a task is in
  one stage) and `HandFilled` (what is submitted is a sample).
* `WakeupNeverLost`: by the actions that write `paused` or the wait.
* `HandshakeCorrect`: the strengthening relates the versions to the
  synchronizer's place and to the outstanding call.
* `ConcurrencyCorrect`: the bound is not inductive, since a submission adds a
  task; the strengthening says that there is room whenever the processor is at
  `submit`. That only it adds tasks, and everybody else removes them, is the
  argument why testing the limit outside the lock is enough.
* `FreshnessCorrect`, `OutstandingCorrect`: `FreshnessInv` says that the
  processor's hand is empty when it takes a sample, that the counter is at most
  one behind, and that while it waits for `pending_queue`, with the freshness
  test behind it, there is room for one more. A move between containers adds
  nothing (`MovesAddNothing`); taking a sample raises both sides
  (`FreshnessTakePending`); the recount misses only the hand
  (`FreshnessRecount`).

**The stream of samples** (the second half of `FullyAsyncProofs`)

* `RecordsRead`: a step reads one record, so at most one is outstanding after it;
  a synchronization adds one between `wait_last_valid` and the next read.
* `EndSignalCorrect`: the `Done` mark is the last thing fed (`DoneLast`), so the
  processor that has taken it has nothing before it for good (`DoneTaken`), and
  returns with no task left; only then is the end signal put (`EndInv`).
* `ConservationCorrect`: `ConservationInv` says that no place holds a sample twice
  (`PlacesDistinct`), no two places share one (`PlacesDisjoint`), and the samples in
  no place are as many as `dropped_samples` counts (`Accounted`). A step moves a
  sample from one place to the next; a put into the full queue also loses the
  oldest.

**The age of samples** (`FullyAsyncLagProofs`)

* `LagBounded`: the lag is counted from the version on the sample's entry, which is
  stamped when its generation ends. `PuttingVersions` says that a finished sample on its way to the
  queue is of the current version, or of the one before and the next pause, which
  waits for it, has not gathered the tasks yet. `LagInv` counts positions: the
  entry at place *i* of the queue will be the `Used + i`th sample the Trainer uses,
  or an earlier one, and this number is at most that at which its version has to be
  in the queue (`QueuedBy`) and the capacity of the queue.
* `SynchronousCorrect`: with a limit of `SamplesPerVersion`, the counter is exact;
  what is outstanding together with what the Trainer has used of its version is
  at most a version (`SyncCounts`), so the processor cannot go on before the
  synchronization, and all samples in hand carry that version (`SyncVersions`).

**Partial rollout** (`AgentLoopsProofs`, for `AgentLoops!Spec`). `Inv` joins three
invariants:

* `PoolInv` - for all loops together: a permit is with the semaphore, a running call or on its way back;
  the queue of calls has no call twice, and all of them wait.
* `LimiterInv` - in each reward loop process: for requests within the burst, what has passed is exactly what
  was charged. A larger one is charged before it sleeps, so the bucket is
  overdrawn; the sleepers of such a bucket then wake at least one refill of a
  request apart, and each wakes when the documented bucket has enough for it.
  A free permit of the semaphore means that nobody waits.
* `LoopsInv` - the response is the first tokens of the transcript with the tool's
  answers masked (`TranscriptInv`); a request continues exactly that response, and
  its answer is either final at the end of a turn or broken off within one, which
  only happens once there was a pause (`RequestInv`); where a loop goes on, there
  is something to go on with (`Continues`), where it is postprocessed or scored, it
  is whole or cut at `response_length` (`Whole`), and it is scored once with its
  output (`ControlFlowInv`). A loop at work writes under the version of its stamp, or
  under the one after it if it was started in a transfer and that version has come
  (`VersionsInv`). Between the end of `pause()` and `resume()` all workers are
  cancelled and all servers paused (`AllTold` in `PauseInv`), so a loop that the
  monitor lets through is answered with nothing, and nobody's response grows
  (`FrozenInv`). This is what keeps the weights from changing under a response,
  although samples are being worked on while they do.

`LimitsCorrect`, `TypeCorrect` and `ResponsesCorrect` are parts of it.
`PartialGenerationCorrect` is step by step: appending an answer is `Extend`, also
when the response is cut; a reward's result is `Score`; the submission, the interruption and
the end of a sample are `Start`, `Interrupt` and `Finish`, where `ControlFlowInv` tells the
last two apart; the new version is `Update`, whose guard that no response has grown
is `FrozenInv`; everything else stutters.

**Synchronous trainer and checkpoints** (`PPOTrainerProofs`, for `PPOTrainer!Spec`,
any number of ranks, any limits and any number of crashes). `IInv` adds to the
types:

* `SavesThisStep` - a save in progress is that of the current step, and a job that
  is still loading has an empty list of saved paths;
* `RanksAgree` - all ranks of a role have the same updates, hence shards that
  belong together;
* `SaveProgress` - a rank at the barrier has a whole shard of the weights in
  memory, and the roles the save is through with have all of theirs;
* `PathsIncrease` - the list of saved paths increases and stays below the current
  step until the role is registered. This is where the argument would fail for
  the asynchronous trainer, which saves a version twice;
* `TrackedSafe` - the tracked folder is older than the save in progress and, of a
  role not registered yet, last in the list, so retention with a limit of at least
  two deletes others first;
* `FailedJob` - a job fails to load only for a torn tracker or the limit of one.

`DropOldestEffect` states what retention does to list and disk. `TypeCorrect`,
`TrackedResumable`, `TrackerSound` and `RetentionCorrect` follow; the last adds
that the folders written in this life and still on the disk are those in the list,
of each role, and that of the save in progress. The actions of generation, transfer
and the data plane are `Quiet` and leave what `IInv` speaks about alone.

**Order of training** (`PPOTrainerOrderProofs`, for the same specification)

* `DeliveredCorrect`: `SyncInv` says that at most one broadcast is under way, its
  bytes lie in the buffer the sender does not fill and will land in the one a
  receiver does not read, the metadata in a mailbox is that of this broadcast, and
  it continues what the receiver has got (`WireInv`, `Flying`). Each bucket holds
  whole weights, numbered on from the one before (`Holds`).
* `NeverStuckCorrect`: only for a transfer of which no metadata has been dropped; the
  one with a late subscriber can hang. `TransferNeverStuck` names the steps that are open to the
  sender and to each receiver by their guards (ENABLED itself is out of the
  prover's reach). Either a broadcast has not completed, and it can complete or a rank
  can still join; or the sender has more to fill; or it is through and some
  receiver is behind it with a bucket, or the end of the list, to read.
* `TurnsCorrect`: by phase of `fit`; a warm-up step leaves the replicas asleep.
* `OrderCorrect`: step number, dataloader and updates go on together
  (`StepsInLine`, `WeightsInLine`), a complete checkpoint stores the three as they
  were at its step (`DiskInLine`), and the replicas' weights are the actor's when a
  step generates (`PolicyInv`), for which a finished transfer has to be complete.

**The rows of a batch** (`SeqlenBalancingProofs`, and `RowsCorrect` in
`PPOTrainerOrderProofs`). The algorithms are loops, so the proofs are by induction;
`SetInduction` and `Recursion` state it of sets of numbers, since the library's
induction theorems take an operator and cannot be used. A sequence `Lists` a set
when it has each element once; `Splits` says the same of the parts of a batch. Every
algorithm turns lists into lists:

* sorting permutes (`InsertedPermutes`), concatenation lists the union
  (`FlattenLists`), chunks put together are the batch (`ConcatOfChunks`);
* the differencing method keeps every item in one State of the heap and every State
  with one part for each rank, the parts of equal length where that is asked
  (`HeapOver`, `MergeHeap`). A merge pops two States and pushes one, so the
  last one has all the items (`KarmarkarKarp`, `PartitionsSplit`). The heap's order
  is only needed to be one (`SetOrder`, `StateOrder`): what the code pops exists.
  That no partition is empty, which the code asserts, is not claimed;
* mini-batches, prompts and micro-batches are such partitions, shifted, expanded or
  put in another order (`MinibatchesSplit`, `GroupsSplit`, `MiddleHeavy`,
  `EndsLighter`); `get_reverse_idx` inverts the order, so `restore_dynamic_batch`
  gives each row its own result (`MicroBatchesRestore`);
* the workers of a mesh that answer are those of ranks 0, 1, ... in this order, so
  what they compute of their chunks is in the order of the rows
  (`CollectDispatched`).

`DataInv` carries this through a step of training: the rows in hand are the
generated ones in some order with the `uid` of their prompt, in the order of
generation until they are balanced (`RowsInv`); an answer of a worker is that for
its chunk (`AnswersInv`), so what is collected from all of them is of the whole
batch; padding, dispatch and unpadding give validation back its rows
(`ValidatedInv`).

**Look-ahead** (`OneStepOffProofs`, for `OneStepOff!OneStepSpec`)

* `LookAheadCorrect`: while a batch is in training, the dataloader is at that batch,
  or at the next if the task has taken one (`TaskInv`); a step trains on it and
  leaves it last in the weights of every role that is updated in each step
  (`WeightsInv`). What the tracker names are the weights of that step together with
  that place of the dataloader (`TrackedInv`, which `SavedSoFar` builds up over a
  save): the next life goes on one batch further than the weights, but not after the
  last step, nor where the task had met the end of the data. Only steps beyond the
  tracked one are written, so no later life mixes its shards with those it may
  resume from (`TrackerBehind`, `ShardsKept`). The task meets the end of the data
  where a whole number of epochs is behind it (`PassInv`), in the first life not
  before the steps are done (`FirstLifeInv`). TLC checked this invariant on the
  instance of `ppo_resume` and further lengths of training before it was proved.

**Only model-checked**

* liveness (`TrainingEnds`, `GenerationResumes`, `ShutdownReleases`,
  `PausesEndAndSamplesFinish`), which depends on fairness;
* `MicroBatchesCover`, whose first half (each row of a chunk in one micro-batch) is the
  lemma `MicroBatchesSplit`, but whose losses are sums of fractions;
* `AdvantagesFollowTheRows`: the estimators sum over groups of rows, in integers and
  fractions, and are compared with each other and with GAE over the policy's tokens.

## Not modelled

`PROJECT.json` lists every component with its status. In short:

* the HCCL and NIXL engines, the Megatron and SFT checkpoint handlers, and the
  SGLang server, which have the shape of what is modelled and other libraries
  underneath;
* the Rollouter's own dataloader checkpoint, which by its comment loses the
  samples in flight;
* the transfer-queue trainer and the VLA training, whose other half is a service
  or a simulator that is not in the repository;
* losses, model definitions, kernels, supervised trainers, evaluation and data
  preparation: floating-point numerics and scripts without a protocol;
* in the modelled components: the reference policy, reward-model workers,
  rollout correction, asynchronous rewards, profiling, logging and the statistics.

## Plan

Done: the message queue and the fully asynchronous composition; checkpoints in
both trainers; partial servers, agent loops, tool pool and reward limiter; the
NCCL transfer; the synchronous trainer with its data plane; the one-step-off
trainer; proofs of the safety properties, but for the two listed as only
model-checked. Left, in this order:

1. The advantages of a permuted batch, from the lemmas on lists: a sum over a group
   does not depend on the order of its rows.
2. That partial rollout implements the abstract server of `Rollouter`, by a
   mapping of completions to samples.
3. The Rollouter's checkpoint with the queue's samples lost, and the HCCL and NIXL
   engines as further implementations of the delivery of weights.
