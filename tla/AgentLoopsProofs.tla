--------------------------- MODULE AgentLoopsProofs ---------------------------
(***************************************************************************)
(* Proofs about partial rollout, for any number of samples, responses,     *)
(* servers and workers, any limits and any transcripts: the pool's limit   *)
(* holds for all the loops together, the reward limits in each of the      *)
(* reward loop processes, a response put together from fragments is the    *)
(* policy's transcript, and the whole implements PartialGeneration.        *)
(***************************************************************************)
EXTENDS AgentLoopsProperties, FiniteSetTheorems, SequenceTheorems, TLAPS

USE DEF serverVars, poolVars, limiterVars, loopVars, workerVars, managerVars, controlVars

\* the steps of the Rollouter and its monitor
ControlStep == Pause \/ Synchronization \/ MonitorResume

LEMMA NextSteps ==
  ASSUME [Next]_vars
  PROVE  \/ \E s \in Samples : SampleStep(s)
         \/ \E c \in Completions : LoopStep(c)
         \/ \E c \in Completions : ServerSteps(c)
         \/ \E c \in Completions : ToolRuns(c)
         \/ \E c \in Completions : RewardSteps(c)
         \/ PoolSteps \/ TimePasses \/ ControlStep \/ UNCHANGED vars
  BY DEF Next, CompletionStep, ControlStep

-----------------------------------------------------------------------------
(* The pool of tool calls: a permit is with the semaphore, with a running  *)
(* call, or on its way back.  The calls that wait for one are in acquires. *)

ToolCalls == {"none", "acquiring", "running", "answered"}

PoolInv ==
  /\ tool_call \in [Completions -> ToolCalls]
  /\ acquires \in Seq(Completions)
  /\ permits \in Nat /\ releases \in Nat
  /\ \A i \in 1..Len(acquires) : tool_call[acquires[i]] = "acquiring"
  /\ \A i, j \in 1..Len(acquires) : acquires[i] = acquires[j] => i = j
  /\ IsFiniteSet(RunningTools)
  /\ Cardinality(RunningTools) + releases + permits = RateLimit

LEMMA SameRunning ==
  ASSUME \A c \in Completions : tool_call'[c] = "running" <=> tool_call[c] = "running"
  PROVE  RunningTools' = RunningTools
  BY DEF RunningTools

LEMMA CallersAre == Callers = Completions /\ Requesters = Completions
  BY AgentLoopsAssumption

LEMMA ExecuteStep ==
  ASSUME PoolInv, NEW c \in Completions, execute(c)
  PROVE  PoolInv'
<1>1. /\ tool_call[c] = "none" /\ tool_call' = [tool_call EXCEPT ![c] = "acquiring"]
      /\ acquires' = Append(acquires, c) /\ UNCHANGED << permits, releases >>
  BY DEF execute
<1>2. tool_call \in [Completions -> ToolCalls] /\ acquires \in Seq(Completions)
  BY DEF PoolInv
<1>3. /\ acquires' \in Seq(Completions) /\ Len(acquires') = Len(acquires) + 1
      /\ Len(acquires) \in Nat /\ acquires'[Len(acquires) + 1] = c
      /\ \A i \in 1..Len(acquires) : acquires'[i] = acquires[i] /\ acquires[i] \in Completions
  BY <1>1, <1>2
<1>4. tool_call'[c] = "acquiring" /\ \A d \in Completions : d # c => tool_call'[d] = tool_call[d]
  BY <1>1, <1>2
<1>5. \A i \in 1..Len(acquires) : acquires[i] # c
  BY <1>1 DEF PoolInv
<1>6. RunningTools' = RunningTools
  BY <1>1, <1>4, SameRunning
<1>7. \A i \in 1..Len(acquires') : tool_call'[acquires'[i]] = "acquiring"
  <2> SUFFICES ASSUME NEW i \in 1..Len(acquires')
               PROVE  tool_call'[acquires'[i]] = "acquiring"
    OBVIOUS
  <2>1. CASE i = Len(acquires) + 1
    BY <1>3, <1>4, <2>1
  <2>2. CASE i \in 1..Len(acquires)
    BY <1>3, <1>4, <1>5, <2>2 DEF PoolInv
  <2> QED
    BY <1>3, <2>1, <2>2
<1>8. \A i, j \in 1..Len(acquires') : acquires'[i] = acquires'[j] => i = j
  <2> SUFFICES ASSUME NEW i \in 1..Len(acquires'), NEW j \in 1..Len(acquires'),
                      acquires'[i] = acquires'[j]
               PROVE  i = j
    OBVIOUS
  <2>1. CASE i \in 1..Len(acquires) /\ j \in 1..Len(acquires)
    BY <1>3, <2>1 DEF PoolInv
  <2>2. CASE i = Len(acquires) + 1 \/ j = Len(acquires) + 1
    BY <1>3, <1>5, <2>2
  <2> QED
    BY <1>3, <2>1, <2>2
<1>9. tool_call' \in [Completions -> ToolCalls]
  BY <1>1, <1>2 DEF ToolCalls
<1> QED
  BY <1>1, <1>3, <1>6, <1>7, <1>8, <1>9 DEF PoolInv

LEMMA AcquireStep ==
  ASSUME PoolInv, acquire
  PROVE  PoolInv'
<1>1. /\ acquires # << >> /\ permits > 0 /\ permits' = permits - 1
      /\ tool_call' = [tool_call EXCEPT ![Head(acquires)] = "running"]
      /\ acquires' = Tail(acquires) /\ releases' = releases
  BY DEF acquire
<1>2. /\ tool_call \in [Completions -> ToolCalls] /\ acquires \in Seq(Completions)
      /\ permits \in Nat /\ releases \in Nat
  BY DEF PoolInv
<1>3. /\ acquires' \in Seq(Completions) /\ Len(acquires') = Len(acquires) - 1 /\ Len(acquires) \in Nat
      /\ Len(acquires) >= 1
      /\ \A i \in 1..Len(acquires') : acquires'[i] = acquires[i + 1] /\ i + 1 \in 1..Len(acquires)
  BY <1>1, <1>2
<1>4. PICK c \in Completions : c = acquires[1] /\ c = Head(acquires)
  BY <1>1, <1>2, <1>3
<1>5. tool_call[c] = "acquiring" /\ 1 \in 1..Len(acquires)
  <2>1. /\ \A i \in 1..Len(acquires) : tool_call[acquires[i]] = "acquiring"
        /\ 1 \in 1..Len(acquires)
    BY <1>3 DEF PoolInv
  <2> QED BY <2>1, <1>4
<1>6. tool_call'[c] = "running" /\ \A d \in Completions : d # c => tool_call'[d] = tool_call[d]
  BY <1>1, <1>2, <1>4
<1>7. \A i \in 1..Len(acquires') : acquires'[i] # c
  BY <1>3, <1>4, <1>5 DEF PoolInv
<1>8. \A i \in 1..Len(acquires') : tool_call'[acquires'[i]] = "acquiring"
  <2> SUFFICES ASSUME NEW i \in 1..Len(acquires')
               PROVE  tool_call'[acquires'[i]] = "acquiring"
    OBVIOUS
  <2>1. acquires'[i] = acquires[i + 1] /\ i + 1 \in 1..Len(acquires) /\ acquires'[i] \in Completions
    BY <1>3
  <2>2. tool_call[acquires[i + 1]] = "acquiring"
    BY <2>1 DEF PoolInv
  <2> QED
    BY <1>6, <1>7, <2>1, <2>2
<1>9. \A i, j \in 1..Len(acquires') : acquires'[i] = acquires'[j] => i = j
  <2> SUFFICES ASSUME NEW i \in 1..Len(acquires'), NEW j \in 1..Len(acquires'),
                      acquires'[i] = acquires'[j]
               PROVE  i = j
    OBVIOUS
  <2>1. i + 1 = j + 1
    BY <1>3 DEF PoolInv
  <2> QED
    BY <1>3, <2>1
<1>10. RunningTools' = RunningTools \cup {c} /\ c \notin RunningTools
  BY <1>5, <1>6 DEF RunningTools
<1>11. IsFiniteSet(RunningTools') /\ Cardinality(RunningTools') = Cardinality(RunningTools) + 1
  BY <1>10, FS_AddElement DEF PoolInv
<1>12. Cardinality(RunningTools) \in Nat
  BY FS_CardinalityType DEF PoolInv
<1>13. Cardinality(RunningTools') + releases' + permits' = RateLimit /\ permits' \in Nat
  <2>1. Cardinality(RunningTools) + releases + permits = RateLimit
    BY DEF PoolInv
  <2> QED
    BY <1>1, <1>2, <1>11, <1>12, <2>1
<1>14. tool_call' \in [Completions -> ToolCalls]
  BY <1>1, <1>2 DEF ToolCalls
<1> QED
  BY <1>1, <1>2, <1>3, <1>8, <1>9, <1>11, <1>13, <1>14 DEF PoolInv

\* a call that is over, or whose answer is taken
LEMMA NotAcquiring ==
  ASSUME PoolInv, NEW c \in Completions, NEW state \in ToolCalls \ {"acquiring"},
         tool_call[c] # "acquiring", tool_call' = [tool_call EXCEPT ![c] = state],
         UNCHANGED acquires
  PROVE  /\ tool_call' \in [Completions -> ToolCalls] /\ acquires' \in Seq(Completions)
         /\ \A i \in 1..Len(acquires') : tool_call'[acquires'[i]] = "acquiring"
         /\ \A i, j \in 1..Len(acquires') : acquires'[i] = acquires'[j] => i = j
<1>1. tool_call \in [Completions -> ToolCalls] /\ acquires \in Seq(Completions)
  BY DEF PoolInv
<1>2. \A i \in 1..Len(acquires) : acquires[i] \in Completions /\ acquires[i] # c
  BY <1>1 DEF PoolInv
<1> QED
  BY <1>1, <1>2 DEF PoolInv

LEMMA ExecutionStep ==
  ASSUME PoolInv, NEW c \in Completions, Execution(c)
  PROVE  PoolInv'
<1>1. /\ tool_call[c] = "running" /\ tool_call' = [tool_call EXCEPT ![c] = "answered"]
      /\ releases' = releases + 1 /\ UNCHANGED << acquires, permits >>
  BY DEF Execution
<1>2. /\ tool_call \in [Completions -> ToolCalls] /\ permits \in Nat /\ releases \in Nat
      /\ "answered" \in ToolCalls \ {"acquiring"}
  BY DEF PoolInv, ToolCalls
<1>3. RunningTools' = RunningTools \ {c} /\ c \in RunningTools
  BY <1>1, <1>2 DEF RunningTools
<1>4. IsFiniteSet(RunningTools') /\ Cardinality(RunningTools') = Cardinality(RunningTools) - 1
  BY <1>3, FS_RemoveElement DEF PoolInv
<1>5. Cardinality(RunningTools) \in Nat
  BY FS_CardinalityType DEF PoolInv
<1>6. Cardinality(RunningTools') + releases' + permits' = RateLimit /\ releases' \in Nat
  <2>1. Cardinality(RunningTools) + releases + permits = RateLimit
    BY DEF PoolInv
  <2> QED
    BY <1>1, <1>2, <1>4, <1>5, <2>1
<1>7. /\ tool_call' \in [Completions -> ToolCalls] /\ acquires' \in Seq(Completions)
      /\ \A i \in 1..Len(acquires') : tool_call'[acquires'[i]] = "acquiring"
      /\ \A i, j \in 1..Len(acquires') : acquires'[i] = acquires'[j] => i = j
  BY <1>1, <1>2, NotAcquiring
<1> QED
  BY <1>1, <1>2, <1>4, <1>6, <1>7 DEF PoolInv

LEMMA TakeAnswerStep ==
  ASSUME PoolInv, NEW c \in Completions, TakeAnswer(c)
  PROVE  PoolInv'
<1>1. /\ tool_call[c] = "answered" /\ tool_call' = [tool_call EXCEPT ![c] = "none"]
      /\ UNCHANGED << acquires, permits, releases >>
  BY DEF TakeAnswer
<1>2. /\ tool_call \in [Completions -> ToolCalls] /\ "none" \in ToolCalls \ {"acquiring"}
  BY DEF PoolInv, ToolCalls
<1>3. RunningTools' = RunningTools
  BY <1>1, <1>2 DEF RunningTools
<1>4. /\ tool_call' \in [Completions -> ToolCalls] /\ acquires' \in Seq(Completions)
      /\ \A i \in 1..Len(acquires') : tool_call'[acquires'[i]] = "acquiring"
      /\ \A i, j \in 1..Len(acquires') : acquires'[i] = acquires'[j] => i = j
  BY <1>1, <1>2, NotAcquiring
<1> QED
  BY <1>1, <1>3, <1>4 DEF PoolInv

LEMMA ReleaseStep ==
  ASSUME PoolInv, release
  PROVE  PoolInv'
<1>1. /\ releases > 0 /\ releases' = releases - 1 /\ permits' = permits + 1
      /\ UNCHANGED << tool_call, acquires >>
  BY DEF release
<1>2. RunningTools' = RunningTools
  BY <1>1 DEF RunningTools
<1>3. Cardinality(RunningTools) \in Nat
  BY FS_CardinalityType DEF PoolInv
<1>4. Cardinality(RunningTools') + releases' + permits' = RateLimit /\ releases' \in Nat /\ permits' \in Nat
  BY <1>1, <1>2, <1>3 DEF PoolInv
<1> QED
  BY <1>1, <1>2, <1>4 DEF PoolInv

LEMMA PoolFrame == PoolInv /\ UNCHANGED poolVars => PoolInv'
  BY DEF PoolInv, RunningTools

LEMMA PoolInitial == Init => PoolInv
<1> SUFFICES ASSUME Init PROVE PoolInv
  OBVIOUS
<1>1. /\ tool_call = [c \in Completions |-> "none"] /\ acquires = << >>
      /\ permits = RateLimit /\ releases = 0
  BY CallersAre DEF Init, PoolInit
<1>2. RunningTools = {}
  BY <1>1 DEF RunningTools
<1>3. RateLimit \in Nat
  BY ToolPoolAssumption
<1> QED
  BY <1>1, <1>2, <1>3, FS_EmptySet DEF PoolInv, ToolCalls

LEMMA PoolStep ==
  ASSUME PoolInv, [Next]_vars
  PROVE  PoolInv'
<1>1. CASE \E c \in Completions : LoopStep(c)
  <2>1. PICK c \in Completions : LoopStep(c)
    BY <1>1
  <2>2. CASE CallTool(c)
    BY <2>2, ExecuteStep DEF CallTool
  <2>3. CASE _handle_processing_tools_state(c)
    BY <2>3, TakeAnswerStep DEF _handle_processing_tools_state
  <2>4. CASE ~CallTool(c) /\ ~_handle_processing_tools_state(c)
    <3>1. UNCHANGED poolVars
      BY <2>1, <2>4 DEF LoopStep, SingleTurn, Cancelled, _handle_pending_state, Generate,
                        HandleAnswer, _compute_score, Completed
    <3> QED
      BY <3>1, PoolFrame
  <2> QED
    BY <2>2, <2>3, <2>4
<1>2. CASE \E c \in Completions : ToolRuns(c)
  BY <1>2, ExecutionStep DEF ToolRuns
<1>3. CASE PoolSteps
  BY <1>3, AcquireStep, ReleaseStep DEF PoolSteps
<1>4. CASE \/ \E s \in Samples : SampleStep(s)
           \/ \E c \in Completions : ServerSteps(c) \/ RewardSteps(c)
           \/ TimePasses \/ ControlStep \/ UNCHANGED vars
  <2>1. UNCHANGED poolVars
    BY <1>4 DEF SampleStep, generate_single_sample_async, generate_sequences_no_post, ServerSteps,
                restOfServer, RewardSteps, restOfLimiter, TimePasses, ControlStep, Synchronization,
                Delivery, MonitorResume, Pause, DeliverToServer, DeliverToWorker, AllReturned,
                UpdateParamVersion, Resume, Resumed, vars
  <2> QED
    BY <2>1, PoolFrame
<1> QED
  BY <1>1, <1>2, <1>3, <1>4, NextSteps

-----------------------------------------------------------------------------
(* The reward limiters.  In a bucket that a request overdraws, the         *)
(* requests sleep one behind the other, a whole refill apart, and the      *)
(* first wakes when the bucket has been refilled for it.                   *)

Layers == 1..Len(Buckets)
Jobs ==
  {NoJob, Scored} \cup { Queued(w) : w \in RewardWorkers } \cup { Calling(w) : w \in RewardWorkers }
    \cup { Acquiring(w, i) : w \in RewardWorkers, i \in 1..(Len(Buckets) + 1) }
    \cup [at : {"sleep"}, worker : RewardWorkers, layer : Layers, wait : Nat, reserved : BOOLEAN]

SleepsAt(c, w, b) == At(c, "sleep") /\ Process(c) = w /\ Bucket(c) = b
Wait(c) == reward_job[c].wait

BucketInv(w, b) ==
  /\ tokens[w][b] <= Burst[b]
  /\ passed[w][b] >= 0
  /\ Need[b] <= Burst[b] => passed[w][b] = tokens[w][b]
  /\ Need[b] > Burst[b] => passed[w][b] >= tokens[w][b]
  /\ \A c \in Requesters : SleepsAt(c, w, b) => (reward_job[c].reserved <=> Need[b] > Burst[b])
  /\ Need[b] > Burst[b] =>
       /\ \A c \in Requesters : SleepsAt(c, w, b) =>
            Wait(c) <= 0 - tokens[w][b] /\ passed[w][b] + Wait(c) >= Need[b]
       /\ \A c, d \in Requesters : SleepsAt(c, w, b) /\ SleepsAt(d, w, b) /\ c # d =>
            Wait(c) + Need[b] <= Wait(d) \/ Wait(d) + Need[b] <= Wait(c)

Counts == [RewardWorkers -> [BucketNames -> Int]]

BucketsInv ==
  /\ reward_job \in [Requesters -> Jobs]
  /\ tokens \in Counts /\ passed \in Counts
  /\ \A w \in RewardWorkers, b \in BucketNames : BucketInv(w, b)

QueueInv(w) ==
  /\ \A i \in 1..Len(waiters[w]) : reward_job[waiters[w][i]] = Queued(w)
  /\ \A i, j \in 1..Len(waiters[w]) : waiters[w][i] = waiters[w][j] => i = j
  /\ IsFiniteSet(InCall(w)) /\ Cardinality(InCall(w)) <= MaxConcurrent
  /\ waiters[w] # << >> => Cardinality(InCall(w)) = MaxConcurrent

SemaphoreInv ==
  /\ waiters \in [RewardWorkers -> Seq(Requesters)]
  /\ \A w \in RewardWorkers : QueueInv(w)

LEMMA BucketTypes ==
  /\ Len(Buckets) \in Nat /\ DOMAIN Buckets = Layers
  /\ \A i \in Layers : Buckets[i] \in BucketNames
  /\ \A b \in BucketNames : Need[b] \in Nat /\ Need[b] > 0 /\ Burst[b] \in Nat /\ Burst[b] > 0
  BY RewardLimiterAssumption DEF BucketNames, Layers

LEMMA JobForms ==
  /\ NoJob.at = "none" /\ Scored.at = "scored"
  /\ \A w \in RewardWorkers : /\ Queued(w).at = "semaphore" /\ Queued(w).worker = w
                              /\ Calling(w).at = "call" /\ Calling(w).worker = w
  /\ \A w \in RewardWorkers, i \in 1..(Len(Buckets) + 1) :
       Acquiring(w, i).at = "acquire" /\ Acquiring(w, i).worker = w /\ Acquiring(w, i).layer = i
  BY DEF Acquiring, NoJob, Calling, Scored, Queued

LEMMA JobTypes ==
  ASSUME BucketsInv, NEW c \in Requesters
  PROVE  /\ At(c, "acquire") => /\ Process(c) \in RewardWorkers
                                /\ reward_job[c].layer \in 1..(Len(Buckets) + 1)
                                /\ reward_job[c] = Acquiring(Process(c), reward_job[c].layer)
         /\ At(c, "sleep") => /\ reward_job[c] \in [at : {"sleep"}, worker : RewardWorkers,
                                        layer : Layers, wait : Nat, reserved : BOOLEAN]
                              /\ Process(c) \in RewardWorkers
                              /\ Bucket(c) \in BucketNames /\ Wait(c) \in Nat
                              /\ reward_job[c].reserved \in BOOLEAN
         /\ At(c, "call") => Process(c) \in RewardWorkers /\ reward_job[c] = Calling(Process(c))
         /\ At(c, "scored") => reward_job[c] = Scored
<1>1. reward_job[c] \in Jobs
  BY DEF BucketsInv
<1>2. CASE reward_job[c] \in {NoJob, Scored}
  BY <1>2, JobForms DEF At
<1>3. CASE reward_job[c] \in { Queued(w) : w \in RewardWorkers }
  BY <1>3, JobForms DEF At
<1>4. CASE reward_job[c] \in { Calling(w) : w \in RewardWorkers }
  BY <1>4, JobForms DEF At, Process
<1>5. CASE reward_job[c] \in { Acquiring(w, i) : w \in RewardWorkers, i \in 1..(Len(Buckets) + 1) }
  <2>1. PICK w \in RewardWorkers, i \in 1..(Len(Buckets) + 1) : reward_job[c] = Acquiring(w, i)
    BY <1>5
  <2> QED
    BY <2>1, JobForms DEF At, Process
<1>6. CASE reward_job[c] \in [at : {"sleep"}, worker : RewardWorkers, layer : Layers, wait : Nat,
                              reserved : BOOLEAN]
  <2>1. reward_job[c].at = "sleep" /\ reward_job[c].layer \in Layers
    BY <1>6
  <2> QED
    BY <1>6, <2>1, BucketTypes DEF At, Bucket, Wait, Process
<1> QED
  BY <1>1, <1>2, <1>3, <1>4, <1>5, <1>6 DEF Jobs

LEMMA JobsAre ==
  /\ NoJob \in Jobs /\ Scored \in Jobs
  /\ \A w \in RewardWorkers : Queued(w) \in Jobs /\ Calling(w) \in Jobs
  /\ \A w \in RewardWorkers, i \in 1..(Len(Buckets) + 1) : Acquiring(w, i) \in Jobs
  BY DEF Jobs

\* no bucket is touched, and nobody falls asleep
LEMMA BucketsFrame ==
  ASSUME BucketsInv, UNCHANGED << tokens, passed >>, reward_job' \in [Requesters -> Jobs],
         \A d \in Requesters : reward_job'[d].at = "sleep" => reward_job'[d] = reward_job[d]
  PROVE  BucketsInv'
<1> SUFFICES ASSUME NEW w \in RewardWorkers, NEW b \in BucketNames PROVE BucketInv(w, b)'
  BY DEF BucketsInv
<1>1. \A d \in Requesters : SleepsAt(d, w, b)' => SleepsAt(d, w, b) /\ Wait(d)' = Wait(d)
                                              /\ reward_job'[d].reserved = reward_job[d].reserved
  BY DEF SleepsAt, At, Bucket, Wait, Process
<1>2. BucketInv(w, b)
  BY DEF BucketsInv
<1> QED
  BY <1>1, <1>2 DEF BucketInv

\* nobody enters or leaves the semaphore of process w, or its queue
LEMMA QueueFrame ==
  ASSUME SemaphoreInv, NEW w \in RewardWorkers, waiters'[w] = waiters[w],
         \A d \in Requesters :
           /\ reward_job'[d] = Calling(w) <=> reward_job[d] = Calling(w)
           /\ reward_job[d] = Queued(w) => reward_job'[d] = Queued(w)
  PROVE  QueueInv(w)'
<1>1. InCall(w)' = InCall(w)
  BY DEF InCall
<1>2. \A i \in 1..Len(waiters[w]) : waiters[w][i] \in Requesters
  BY DEF SemaphoreInv
<1>3. QueueInv(w)
  BY DEF SemaphoreInv
<1> QED
  BY <1>1, <1>2, <1>3 DEF QueueInv

\* nobody enters or leaves any semaphore or its queue
LEMMA SemaphoreFrame ==
  ASSUME SemaphoreInv, UNCHANGED waiters,
         \A d \in Requesters :
           reward_job'[d] = reward_job[d]
             \/ (reward_job[d].at \notin {"call", "semaphore"} /\ reward_job'[d].at # "call")
  PROVE  SemaphoreInv'
<1> SUFFICES ASSUME NEW w \in RewardWorkers PROVE QueueInv(w)'
  BY DEF SemaphoreInv
<1>1. \A d \in Requesters :
           /\ reward_job'[d] = Calling(w) <=> reward_job[d] = Calling(w)
           /\ reward_job[d] = Queued(w) => reward_job'[d] = Queued(w)
  BY JobForms
<1> QED
  BY <1>1, QueueFrame

LimiterInv == BucketsInv /\ SemaphoreInv

LEMMA RunSingleStep ==
  ASSUME LimiterInv, NEW c \in Requesters, NEW w \in RewardWorkers, run_single(c, w)
  PROVE  LimiterInv'
<1>1. /\ reward_job[c] = NoJob /\ reward_job' = [reward_job EXCEPT ![c] = Acquiring(w, 1)]
      /\ UNCHANGED << tokens, waiters, passed >>
  BY DEF run_single
<1>2. reward_job \in [Requesters -> Jobs] /\ 1 \in 1..(Len(Buckets) + 1)
  BY BucketTypes DEF LimiterInv, BucketsInv
<1>3. /\ reward_job' \in [Requesters -> Jobs] /\ reward_job'[c].at = "acquire"
      /\ \A d \in Requesters : d # c => reward_job'[d] = reward_job[d]
  BY <1>1, <1>2, JobsAre, JobForms
<1>4. reward_job[c].at = "none"
  BY <1>1, JobForms
<1>5. BucketsInv'
  BY <1>1, <1>3, BucketsFrame DEF LimiterInv
<1>6. SemaphoreInv'
  BY <1>1, <1>3, <1>4, SemaphoreFrame DEF LimiterInv
<1> QED
  BY <1>5, <1>6 DEF LimiterInv

LEMMA TakeScoreStep ==
  ASSUME LimiterInv, NEW c \in Requesters, TakeScore(c)
  PROVE  LimiterInv'
<1>1. /\ reward_job[c].at = "scored" /\ reward_job' = [reward_job EXCEPT ![c] = NoJob]
      /\ UNCHANGED << tokens, waiters, passed >>
  BY DEF TakeScore, At
<1>2. reward_job \in [Requesters -> Jobs]
  BY DEF LimiterInv, BucketsInv
<1>3. /\ reward_job' \in [Requesters -> Jobs] /\ reward_job'[c].at = "none"
      /\ \A d \in Requesters : d # c => reward_job'[d] = reward_job[d]
  BY <1>1, <1>2, JobsAre, JobForms
<1>5. BucketsInv'
  BY <1>1, <1>3, BucketsFrame DEF LimiterInv
<1>6. SemaphoreInv'
  BY <1>1, <1>3, SemaphoreFrame DEF LimiterInv
<1> QED
  BY <1>5, <1>6 DEF LimiterInv

\* what a step leaves alone: every bucket but b of process w
OtherBuckets(w, b) ==
  /\ tokens' \in Counts /\ passed' \in Counts
  /\ \A v \in RewardWorkers, e \in BucketNames :
       v # w \/ e # b => tokens'[v][e] = tokens[v][e] /\ passed'[v][e] = passed[v][e]

LEMMA OneBucket ==
  ASSUME BucketsInv, NEW w \in RewardWorkers, NEW b \in BucketNames, OtherBuckets(w, b),
         reward_job' \in [Requesters -> Jobs],
         \A v \in RewardWorkers, e \in BucketNames, d \in Requesters :
           (v # w \/ e # b) /\ SleepsAt(d, v, e)' =>
             /\ SleepsAt(d, v, e) /\ Wait(d)' = Wait(d)
             /\ reward_job'[d].reserved = reward_job[d].reserved,
         BucketInv(w, b)'
  PROVE  BucketsInv'
<1>1. ASSUME NEW v \in RewardWorkers, NEW e \in BucketNames, v # w \/ e # b
      PROVE  BucketInv(v, e)'
  <2>1. /\ BucketInv(v, e) /\ tokens'[v][e] = tokens[v][e] /\ passed'[v][e] = passed[v][e]
        /\ \A d \in Requesters : SleepsAt(d, v, e)' =>
             /\ SleepsAt(d, v, e) /\ Wait(d)' = Wait(d)
             /\ reward_job'[d].reserved = reward_job[d].reserved
    BY <1>1 DEF BucketsInv, OtherBuckets
  <2> QED
    BY <2>1 DEF BucketInv
<1>2. \A v \in RewardWorkers, e \in BucketNames : BucketInv(v, e)'
  BY <1>1
<1> QED
  BY <1>2 DEF BucketsInv, OtherBuckets

\* a request passes bucket b: it had reserved its tokens, or they are there
LEMMA PassStep ==
  ASSUME LimiterInv, NEW c \in Requesters, NEW w \in RewardWorkers, NEW b \in BucketNames,
         w = Process(c), b = Bucket(c),
         At(c, "acquire") \/ At(c, "sleep"), reward_job[c].layer \in Layers, Pass(c),
         UNCHANGED waiters, tokens' \in Counts,
         \A v \in RewardWorkers, e \in BucketNames : v # w \/ e # b => tokens'[v][e] = tokens[v][e],
         \/ Need[b] <= Burst[b] /\ tokens[w][b] >= Need[b] /\ tokens'[w][b] = tokens[w][b] - Need[b]
         \/ Need[b] > Burst[b] /\ SleepsAt(c, w, b) /\ Wait(c) = 0 /\ tokens'[w][b] = tokens[w][b]
  PROVE  LimiterInv'
<1>1. /\ reward_job' = [reward_job EXCEPT ![c] = Acquiring(w, reward_job[c].layer + 1)]
      /\ passed' = [passed EXCEPT ![w][b] = @ - Need[b]]
  BY DEF Pass, Process
<1>2. /\ reward_job \in [Requesters -> Jobs] /\ reward_job[c].layer + 1 \in 1..(Len(Buckets) + 1)
      /\ passed \in Counts /\ tokens \in Counts
      /\ BucketInv(w, b)
      /\ \A d \in Requesters : SleepsAt(d, w, b) => Wait(d) \in Nat
      /\ Need[b] \in Nat /\ Need[b] > 0 /\ Burst[b] \in Nat
      /\ tokens[w][b] \in Int /\ passed[w][b] \in Int
  <2>1. \A d \in Requesters : SleepsAt(d, w, b) => Wait(d) \in Nat
    BY JobTypes DEF LimiterInv, SleepsAt
  <2>2. reward_job[c].layer + 1 \in 1..(Len(Buckets) + 1)
    BY BucketTypes DEF Layers
  <2>3. reward_job \in [Requesters -> Jobs] /\ passed \in Counts /\ tokens \in Counts /\ BucketInv(w, b)
    BY DEF LimiterInv, BucketsInv
  <2>4. tokens[w][b] \in Int /\ passed[w][b] \in Int
    BY <2>3 DEF Counts
  <2> QED
    BY <2>1, <2>2, <2>3, <2>4, BucketTypes
<1>3. /\ reward_job' \in [Requesters -> Jobs] /\ reward_job'[c].at = "acquire"
      /\ \A d \in Requesters : d # c => reward_job'[d] = reward_job[d]
  <2>1. /\ Acquiring(w, reward_job[c].layer + 1) \in Jobs
        /\ Acquiring(w, reward_job[c].layer + 1).at = "acquire"
    BY <1>2, JobsAre, JobForms
  <2> QED
    BY <1>1, <1>2, <2>1
<1>4. passed' \in Counts /\ passed'[w][b] = passed[w][b] - Need[b]
  BY <1>1, <1>2 DEF Counts
<1>5. OtherBuckets(w, b)
  BY <1>1, <1>2, <1>4 DEF OtherBuckets, Counts
<1>6. \A v \in RewardWorkers, e \in BucketNames, d \in Requesters :
        SleepsAt(d, v, e)' => d # c /\ SleepsAt(d, v, e) /\ Wait(d)' = Wait(d)
                              /\ reward_job'[d].reserved = reward_job[d].reserved
  BY <1>3 DEF SleepsAt, At, Bucket, Wait, Process
<1>7. ASSUME Need[b] <= Burst[b]
      PROVE  BucketInv(w, b)'
  <2>1. tokens[w][b] >= Need[b] /\ tokens'[w][b] = tokens[w][b] - Need[b]
        /\ passed[w][b] = tokens[w][b] /\ tokens[w][b] <= Burst[b]
    BY <1>2, <1>7 DEF BucketInv
  <2>2. passed'[w][b] = tokens'[w][b] /\ tokens'[w][b] <= Burst[b] /\ passed'[w][b] >= 0
        /\ ~ Need[b] > Burst[b]
    BY <1>2, <1>4, <1>7, <2>1
  <2>3. \A d \in Requesters : SleepsAt(d, w, b)' => ~ reward_job'[d].reserved
    BY <1>2, <1>6, <2>2 DEF BucketInv
  <2> QED
    BY <2>2, <2>3, <1>7 DEF BucketInv
<1>8. ASSUME ~ Need[b] <= Burst[b]
      PROVE  BucketInv(w, b)'
  <2>1. Need[b] > Burst[b] /\ SleepsAt(c, w, b) /\ Wait(c) = 0 /\ tokens'[w][b] = tokens[w][b]
    BY <1>2, <1>8
  <2>2. tokens[w][b] <= 0 /\ passed[w][b] >= Need[b] /\ tokens[w][b] <= Burst[b]
    BY <1>2, <2>1 DEF BucketInv
  <2>3. \A d \in Requesters : SleepsAt(d, w, b)' => Wait(d) >= Need[b] /\ Wait(d) \in Nat
    BY <1>2, <1>6, <2>1 DEF BucketInv
  <2>4. \A d \in Requesters : SleepsAt(d, w, b)' =>
          Wait(d)' <= 0 - tokens'[w][b] /\ passed'[w][b] + Wait(d)' >= Need[b]
    BY <1>2, <1>4, <1>6, <2>1, <2>2, <2>3 DEF BucketInv
  <2>5. passed'[w][b] >= 0 /\ passed'[w][b] >= tokens'[w][b] /\ tokens'[w][b] <= Burst[b]
    BY <1>2, <1>4, <2>1, <2>2
  <2>6. \A d \in Requesters : SleepsAt(d, w, b)' => reward_job'[d].reserved
    BY <1>2, <1>6, <2>1 DEF BucketInv
  <2>7. \A d, e \in Requesters : SleepsAt(d, w, b)' /\ SleepsAt(e, w, b)' /\ d # e =>
            Wait(d)' + Need[b] <= Wait(e)' \/ Wait(e)' + Need[b] <= Wait(d)'
    BY <1>2, <1>6, <2>1 DEF BucketInv
  <2> QED
    BY <1>8, <2>1, <2>4, <2>5, <2>6, <2>7 DEF BucketInv
<1>9. BucketsInv'
  BY <1>3, <1>5, <1>6, <1>7, <1>8, OneBucket DEF LimiterInv
<1>10. SemaphoreInv'
  BY <1>3, SemaphoreFrame DEF LimiterInv, At
<1> QED
  BY <1>9, <1>10 DEF LimiterInv

\* a request falls asleep before bucket b, having taken its tokens if it is
\* larger than the burst
LEMMA SleepStep ==
  ASSUME LimiterInv, NEW c \in Requesters, NEW w \in RewardWorkers, NEW b \in BucketNames,
         w = Process(c), b = Bucket(c),
         At(c, "acquire"), reward_job[c].layer \in Layers, tokens[w][b] < Need[b],
         Sleep(c, Need[b] > Burst[b]), UNCHANGED waiters, tokens' \in Counts,
         \A v \in RewardWorkers, e \in BucketNames : v # w \/ e # b => tokens'[v][e] = tokens[v][e],
         tokens'[w][b] = IF Need[b] > Burst[b] THEN tokens[w][b] - Need[b] ELSE tokens[w][b]
  PROVE  LimiterInv'
<1> DEFINE job == Asleep(w, reward_job[c].layer, Need[b] - tokens[w][b], Need[b] > Burst[b])
<1>1. reward_job' = [reward_job EXCEPT ![c] = job] /\ passed' = passed
  BY DEF Sleep, Process
<1>2. /\ reward_job \in [Requesters -> Jobs]
      /\ passed \in Counts /\ tokens \in Counts
      /\ BucketInv(w, b)
      /\ \A d \in Requesters : SleepsAt(d, w, b) => Wait(d) \in Nat
      /\ Need[b] \in Nat /\ Need[b] > 0 /\ Burst[b] \in Nat
      /\ tokens[w][b] \in Int /\ passed[w][b] \in Int
  BY BucketTypes, JobTypes DEF LimiterInv, BucketsInv, SleepsAt, Counts
<1>3. Need[b] - tokens[w][b] \in Nat
  BY <1>2
<1>4. /\ job \in Jobs /\ job.at = "sleep" /\ job.layer = reward_job[c].layer /\ job.worker = w
      /\ job.wait = Need[b] - tokens[w][b] /\ (job.reserved <=> Need[b] > Burst[b])
  <2>1. PICK r \in BOOLEAN : r = (Need[b] > Burst[b])
    <3>1. (Need[b] > Burst[b]) \in BOOLEAN
      OBVIOUS
    <3> QED
      BY <3>1
  <2>2. PICK layer \in Layers, wait \in Nat :
          layer = reward_job[c].layer /\ wait = Need[b] - tokens[w][b]
    BY <1>3
  <2>3. job = Asleep(w, layer, wait, r)
    BY <2>1, <2>2
  <2>4. /\ job \in [at : {"sleep"}, worker : RewardWorkers, layer : Layers, wait : Nat, reserved : BOOLEAN]
        /\ job.at = "sleep" /\ job.layer = layer /\ job.wait = wait /\ job.reserved = r /\ job.worker = w
    BY <2>3 DEF Asleep
  <2> QED
    BY <2>1, <2>2, <2>4 DEF Jobs
<1> HIDE DEF job
<1>5. /\ reward_job' \in [Requesters -> Jobs] /\ reward_job'[c] = job
      /\ \A d \in Requesters : d # c => reward_job'[d] = reward_job[d]
  BY <1>1, <1>2, <1>4
<1>6. \A v \in RewardWorkers, e \in BucketNames, d \in Requesters : d # c =>
        /\ SleepsAt(d, v, e)' => SleepsAt(d, v, e)
        /\ Wait(d)' = Wait(d)
        /\ reward_job'[d].reserved = reward_job[d].reserved
  BY <1>5 DEF SleepsAt, At, Bucket, Wait, Process
<1>7. /\ \A v \in RewardWorkers, e \in BucketNames : SleepsAt(c, v, e)' => v = w /\ e = b
      /\ Wait(c)' = Need[b] - tokens[w][b] /\ (reward_job'[c].reserved <=> Need[b] > Burst[b])
  BY <1>4, <1>5 DEF SleepsAt, Bucket, Wait, Process
<1>8. OtherBuckets(w, b)
  BY <1>1, <1>2 DEF OtherBuckets
<1>9. ASSUME Need[b] <= Burst[b]
      PROVE  BucketInv(w, b)'
  <2>1. ~ Need[b] > Burst[b] /\ tokens'[w][b] = tokens[w][b] /\ passed'[w][b] = passed[w][b]
    BY <1>1, <1>2, <1>9
  <2>2. \A d \in Requesters : SleepsAt(d, w, b)' => ~ reward_job'[d].reserved
    BY <1>2, <1>6, <1>7, <2>1 DEF BucketInv
  <2> QED
    BY <1>2, <1>9, <2>1, <2>2 DEF BucketInv
<1>10. ASSUME ~ Need[b] <= Burst[b]
       PROVE  BucketInv(w, b)'
  <2>1. Need[b] > Burst[b] /\ tokens'[w][b] = tokens[w][b] - Need[b] /\ passed'[w][b] = passed[w][b]
    BY <1>1, <1>2, <1>10
  <2>2. passed[w][b] >= tokens[w][b] /\ passed[w][b] >= 0 /\ tokens[w][b] <= Burst[b]
    BY <1>2, <2>1 DEF BucketInv
  <2>3. passed'[w][b] >= tokens'[w][b] /\ passed'[w][b] >= 0 /\ tokens'[w][b] <= Burst[b]
    BY <1>2, <2>1, <2>2
  <2>4. \A d \in Requesters : SleepsAt(d, w, b)' => reward_job'[d].reserved
    BY <1>2, <1>6, <1>7, <2>1 DEF BucketInv
  <2>5. \A d \in Requesters : d # c /\ SleepsAt(d, w, b)' =>
          Wait(d)' \in Nat /\ Wait(d)' <= 0 - tokens[w][b] /\ passed'[w][b] + Wait(d)' >= Need[b]
    BY <1>2, <1>6, <2>1 DEF BucketInv
  <2>6. Wait(c)' = 0 - tokens'[w][b] /\ passed'[w][b] + Wait(c)' >= Need[b]
    BY <1>2, <1>7, <2>1, <2>2
  <2>7. \A d \in Requesters : SleepsAt(d, w, b)' =>
          Wait(d)' <= 0 - tokens'[w][b] /\ passed'[w][b] + Wait(d)' >= Need[b]
    BY <1>2, <2>1, <2>5, <2>6
  <2>8. \A d \in Requesters : d # c /\ SleepsAt(d, w, b)' => Wait(d)' + Need[b] <= Wait(c)'
    BY <1>2, <2>1, <2>5, <2>6
  <2>9. \A d, e \in Requesters : d # c /\ e # c /\ SleepsAt(d, w, b)' /\ SleepsAt(e, w, b)' /\ d # e =>
            Wait(d)' + Need[b] <= Wait(e)' \/ Wait(e)' + Need[b] <= Wait(d)'
    BY <1>2, <1>6, <2>1 DEF BucketInv
  <2>10. \A d, e \in Requesters : SleepsAt(d, w, b)' /\ SleepsAt(e, w, b)' /\ d # e =>
            Wait(d)' + Need[b] <= Wait(e)' \/ Wait(e)' + Need[b] <= Wait(d)'
    BY <2>8, <2>9
  <2> QED
    BY <1>10, <2>1, <2>3, <2>4, <2>7, <2>10 DEF BucketInv
<1>11. BucketsInv'
  <2>1. BucketInv(w, b)'
    BY <1>9, <1>10
  <2>2. \A v \in RewardWorkers, e \in BucketNames, d \in Requesters :
           (v # w \/ e # b) /\ SleepsAt(d, v, e)' =>
             /\ SleepsAt(d, v, e) /\ Wait(d)' = Wait(d)
             /\ reward_job'[d].reserved = reward_job[d].reserved
    BY <1>6, <1>7
  <2> QED
    BY <1>5, <1>8, <2>1, <2>2, OneBucket DEF LimiterInv
<1>12. SemaphoreInv'
  <2>1. reward_job[c].at = "acquire" /\ reward_job'[c].at = "sleep"
    BY <1>4, <1>5 DEF At
  <2> QED
    BY <1>5, <2>1, SemaphoreFrame DEF LimiterInv
<1> QED
  BY <1>11, <1>12 DEF LimiterInv

LEMMA AcquireTokensStep ==
  ASSUME LimiterInv, NEW c \in Requesters, acquire_tokens(c)
  PROVE  LimiterInv'
<1>1. /\ At(c, "acquire") /\ reward_job[c].layer <= Len(Buckets) /\ UNCHANGED waiters
      /\ reward_job[c].layer \in 1..(Len(Buckets) + 1) /\ Process(c) \in RewardWorkers
  BY JobTypes DEF acquire_tokens, LimiterInv
<1>2. reward_job[c].layer \in Layers
  BY <1>1, BucketTypes DEF Layers
<1>3. PICK w \in RewardWorkers, b \in BucketNames : w = Process(c) /\ b = Bucket(c)
  BY <1>1, <1>2, BucketTypes DEF Bucket
<1>4. /\ tokens' = [tokens EXCEPT ![w][b] = Charged(b, tokens[w][b])]
      /\ IF tokens[w][b] >= Need[b] THEN Pass(c) ELSE Sleep(c, Need[b] > Burst[b])
  BY <1>3 DEF acquire_tokens
<1>5. /\ tokens \in Counts /\ tokens[w][b] \in Int /\ Need[b] \in Nat /\ Burst[b] \in Nat
      /\ tokens[w][b] <= Burst[b]
  BY BucketTypes DEF LimiterInv, BucketsInv, BucketInv, Counts
<1>6. Charged(b, tokens[w][b]) \in Int
  BY <1>5 DEF Charged
<1>7. /\ tokens' \in Counts /\ tokens'[w][b] = Charged(b, tokens[w][b])
      /\ \A v \in RewardWorkers, e \in BucketNames : v # w \/ e # b => tokens'[v][e] = tokens[v][e]
  BY <1>4, <1>5, <1>6 DEF Counts
<1>8. CASE tokens[w][b] >= Need[b]
  <2>1. Need[b] <= Burst[b] /\ tokens'[w][b] = tokens[w][b] - Need[b]
    BY <1>5, <1>7, <1>8 DEF Charged
  <2> QED
    BY <1>1, <1>2, <1>3, <1>4, <1>7, <1>8, <2>1, PassStep
<1>9. CASE ~ tokens[w][b] >= Need[b]
  <2>1. /\ tokens[w][b] < Need[b]
        /\ tokens'[w][b] = IF Need[b] > Burst[b] THEN tokens[w][b] - Need[b] ELSE tokens[w][b]
    BY <1>5, <1>7, <1>9 DEF Charged
  <2> QED
    BY <1>1, <1>2, <1>3, <1>4, <1>7, <1>9, <2>1, SleepStep
<1> QED
  BY <1>8, <1>9

LEMMA WakeStep ==
  ASSUME LimiterInv, NEW c \in Requesters, Wake(c)
  PROVE  LimiterInv'
<1>1. /\ At(c, "sleep") /\ Wait(c) = 0 /\ UNCHANGED << tokens, waiters >>
  BY DEF Wake, Wait
<1>2. /\ reward_job[c].layer \in Layers /\ reward_job \in [Requesters -> Jobs]
      /\ tokens \in Counts /\ Process(c) \in RewardWorkers
  <2>1. reward_job[c] \in [at : {"sleep"}, worker : RewardWorkers, layer : Layers, wait : Nat, reserved : BOOLEAN]
    BY <1>1, JobTypes DEF LimiterInv
  <2> QED
    BY <2>1 DEF LimiterInv, BucketsInv, Process
<1>3. PICK w \in RewardWorkers, b \in BucketNames : w = Process(c) /\ b = Bucket(c)
  BY <1>2, BucketTypes DEF Bucket
<1>4. BucketInv(w, b) /\ SleepsAt(c, w, b) /\ Need[b] \in Nat /\ Burst[b] \in Nat
  BY <1>1, <1>3, BucketTypes DEF LimiterInv, BucketsInv, SleepsAt
<1>5. CASE reward_job[c].reserved
  <2>1. Pass(c) /\ Need[b] > Burst[b]
    BY <1>4, <1>5 DEF Wake, BucketInv
  <2> QED
    BY <1>1, <1>2, <1>3, <1>4, <2>1, PassStep
<1>6. CASE ~ reward_job[c].reserved
  <2>1. /\ reward_job' = [reward_job EXCEPT ![c] = Acquiring(w, reward_job[c].layer)] /\ UNCHANGED passed
    BY <1>3, <1>6 DEF Wake, Process
  <2>2. reward_job[c].layer \in 1..(Len(Buckets) + 1)
    BY <1>2, BucketTypes DEF Layers
  <2>3. Acquiring(w, reward_job[c].layer) \in Jobs /\ Acquiring(w, reward_job[c].layer).at = "acquire"
    BY <2>2, JobsAre, JobForms
  <2>4. /\ reward_job' \in [Requesters -> Jobs] /\ reward_job'[c].at = "acquire"
        /\ \A d \in Requesters : d # c => reward_job'[d] = reward_job[d]
    BY <1>2, <2>1, <2>3
  <2>5. reward_job[c].at = "sleep"
    BY <1>1 DEF At
  <2>6. BucketsInv'
    BY <1>1, <2>1, <2>4, BucketsFrame DEF LimiterInv
  <2>7. SemaphoreInv'
    BY <1>1, <2>4, <2>5, SemaphoreFrame DEF LimiterInv
  <2> QED
    BY <2>6, <2>7 DEF LimiterInv
<1> QED
  BY <1>5, <1>6

LEMMA TickStep ==
  ASSUME LimiterInv, Tick
  PROVE  LimiterInv'
<1>1. /\ \A c \in Requesters : At(c, "sleep") => Wait(c) > 0
      /\ tokens' = [w \in RewardWorkers |->
           [b \in BucketNames |-> Smaller(Burst[b], tokens[w][b] + 1)]]
      /\ passed' = [w \in RewardWorkers |->
           [b \in BucketNames |-> Smaller(Allowance(b), passed[w][b] + 1)]]
      /\ reward_job' = [c \in Requesters |->
           IF At(c, "sleep") THEN [reward_job[c] EXCEPT !.wait = Bigger(0, @ - 1)] ELSE reward_job[c]]
      /\ UNCHANGED waiters
  BY DEF Tick, Wait
<1>2. ASSUME NEW c \in Requesters
      PROVE  /\ reward_job'[c] \in Jobs /\ reward_job'[c].at = reward_job[c].at
             /\ ~ At(c, "sleep") => reward_job'[c] = reward_job[c]
             /\ At(c, "sleep") => /\ reward_job'[c].layer = reward_job[c].layer
                                  /\ reward_job'[c].worker = reward_job[c].worker
                                  /\ reward_job'[c].reserved = reward_job[c].reserved
                                  /\ reward_job'[c].wait = Wait(c) - 1
                                  /\ Wait(c) \in Nat /\ Wait(c) > 0
  <2>1. CASE At(c, "sleep")
    <3>1. /\ reward_job[c] \in [at : {"sleep"}, worker : RewardWorkers, layer : Layers, wait : Nat,
                                reserved : BOOLEAN]
          /\ Wait(c) \in Nat /\ Wait(c) > 0
      BY <1>1, <2>1, JobTypes DEF LimiterInv
    <3>2. PICK w \in RewardWorkers, layer \in Layers, wait \in Nat, r \in BOOLEAN :
            reward_job[c] = [at |-> "sleep", worker |-> w, layer |-> layer, wait |-> wait, reserved |-> r]
      BY <3>1
    <3>3. wait > 0 /\ Bigger(0, wait - 1) = wait - 1 /\ wait - 1 \in Nat /\ Wait(c) = wait
      BY <3>1, <3>2 DEF Wait, Bigger
    <3>4. reward_job'[c] = [at |-> "sleep", worker |-> w, layer |-> layer, wait |-> wait - 1,
                            reserved |-> r]
      BY <1>1, <2>1, <3>2, <3>3
    <3>5. reward_job'[c] \in Jobs
      BY <3>3, <3>4 DEF Jobs
    <3> QED
      BY <2>1, <3>2, <3>3, <3>4, <3>5
  <2>2. CASE ~ At(c, "sleep")
    BY <1>1, <2>2 DEF LimiterInv, BucketsInv
  <2> QED
    BY <2>1, <2>2
<1>3. reward_job' \in [Requesters -> Jobs]
  BY <1>1, <1>2
<1>4. ASSUME NEW w \in RewardWorkers, NEW b \in BucketNames
      PROVE  BucketInv(w, b)' /\ tokens'[w][b] \in Int /\ passed'[w][b] \in Int
  <2>1. /\ tokens[w][b] \in Int /\ passed[w][b] \in Int /\ BucketInv(w, b)
        /\ Need[b] \in Nat /\ Burst[b] \in Nat /\ Need[b] > 0 /\ Burst[b] > 0
    BY BucketTypes DEF LimiterInv, BucketsInv, Counts
  <2>2. PICK t \in Int, p \in Int, n \in Nat, u \in Nat :
          t = tokens[w][b] /\ p = passed[w][b] /\ n = Need[b] /\ u = Burst[b]
    BY <2>1
  <2>3. /\ tokens'[w][b] = IF u < t + 1 THEN u ELSE t + 1
        /\ passed'[w][b] = IF (IF n > u THEN n ELSE u) < p + 1 THEN (IF n > u THEN n ELSE u) ELSE p + 1
    BY <1>1, <2>2 DEF Smaller, Allowance, Bigger
  <2>4. t <= u /\ p >= 0 /\ (n <= u => p = t) /\ (n > u => p >= t) /\ n > 0 /\ u > 0
    BY <2>1, <2>2 DEF BucketInv
  <2>5. /\ tokens'[w][b] \in Int /\ passed'[w][b] \in Int /\ tokens'[w][b] <= u /\ passed'[w][b] >= 0
        /\ n <= u => passed'[w][b] = tokens'[w][b]
        /\ n > u => passed'[w][b] >= tokens'[w][b]
        /\ tokens'[w][b] <= t + 1 /\ (n > u => passed'[w][b] = n \/ passed'[w][b] = p + 1)
    BY <2>3, <2>4
  <2>6. \A c \in Requesters : SleepsAt(c, w, b)' =>
          /\ SleepsAt(c, w, b) /\ Wait(c)' = Wait(c) - 1 /\ Wait(c) \in Nat /\ Wait(c) > 0
          /\ reward_job'[c].reserved = reward_job[c].reserved
    BY <1>2 DEF SleepsAt, At, Bucket, Wait, Process
  <2>7. \A c \in Requesters : SleepsAt(c, w, b)' => (reward_job'[c].reserved <=> n > u)
    BY <2>1, <2>2, <2>6 DEF BucketInv
  <2>8. ASSUME n > u, NEW c \in Requesters, SleepsAt(c, w, b)'
        PROVE  Wait(c)' <= 0 - tokens'[w][b] /\ passed'[w][b] + Wait(c)' >= n
    <3>1. Wait(c) <= 0 - t /\ p + Wait(c) >= n
      BY <2>1, <2>2, <2>6, <2>8 DEF BucketInv
    <3>2. PICK k \in Nat : k = Wait(c)
      BY <2>6, <2>8
    <3>3. Wait(c)' = k - 1 /\ k > 0 /\ k <= 0 - t /\ p + k >= n
      BY <2>6, <2>8, <3>1, <3>2
    <3> QED
      BY <2>5, <2>8, <3>3
  <2>9. ASSUME n > u, NEW c \in Requesters, NEW d \in Requesters,
               SleepsAt(c, w, b)', SleepsAt(d, w, b)', c # d
        PROVE  Wait(c)' + n <= Wait(d)' \/ Wait(d)' + n <= Wait(c)'
    <3>1. Wait(c) + n <= Wait(d) \/ Wait(d) + n <= Wait(c)
      BY <2>1, <2>2, <2>6, <2>9 DEF BucketInv
    <3> QED
      BY <2>6, <2>9, <3>1
  <2> QED
    BY <2>2, <2>5, <2>7, <2>8, <2>9 DEF BucketInv
<1>5. BucketsInv'
  BY <1>1, <1>3, <1>4 DEF BucketsInv, Counts
<1>6. \A d \in Requesters :
        reward_job'[d] = reward_job[d]
          \/ (reward_job[d].at \notin {"call", "semaphore"} /\ reward_job'[d].at # "call")
  BY <1>2 DEF At
<1>7. SemaphoreInv'
  BY <1>1, <1>6, SemaphoreFrame DEF LimiterInv
<1> QED
  BY <1>5, <1>7 DEF LimiterInv

\* the requests that are not of process w see nothing of what happens there
LEMMA OneQueue ==
  ASSUME SemaphoreInv, NEW w \in RewardWorkers, waiters' \in [RewardWorkers -> Seq(Requesters)],
         \A v \in RewardWorkers : v # w => waiters'[v] = waiters[v],
         \A d \in Requesters :
           reward_job'[d] = reward_job[d]
             \/ (reward_job[d].worker = w /\ reward_job'[d].worker = w)
             \/ (reward_job[d].worker = w /\ reward_job'[d] = Scored),
         QueueInv(w)'
  PROVE  SemaphoreInv'
<1>1. ASSUME NEW v \in RewardWorkers, v # w
      PROVE  QueueInv(v)'
  <2>1. \A d \in Requesters :
           /\ reward_job'[d] = Calling(v) <=> reward_job[d] = Calling(v)
           /\ reward_job[d] = Queued(v) => reward_job'[d] = Queued(v)
    BY <1>1, JobForms
  <2> QED
    BY <1>1, <2>1, QueueFrame
<1> QED
  BY <1>1 DEF SemaphoreInv

LEMMA EnterSemaphoreStep ==
  ASSUME LimiterInv, NEW c \in Requesters, EnterSemaphore(c)
  PROVE  LimiterInv'
<1>1. PICK w \in RewardWorkers : w = Process(c)
  BY JobTypes DEF LimiterInv, EnterSemaphore
<1>2. /\ reward_job[c].at = "acquire" /\ UNCHANGED << tokens, passed >>
      /\ IF Cardinality(InCall(w)) < MaxConcurrent /\ waiters[w] = << >>
         THEN reward_job' = [reward_job EXCEPT ![c] = Calling(w)] /\ UNCHANGED waiters
         ELSE /\ reward_job' = [reward_job EXCEPT ![c] = Queued(w)]
              /\ waiters' = [waiters EXCEPT ![w] = Append(@, c)]
  BY <1>1 DEF EnterSemaphore, At
<1>3. /\ reward_job \in [Requesters -> Jobs] /\ waiters \in [RewardWorkers -> Seq(Requesters)]
      /\ QueueInv(w) /\ waiters[w] \in Seq(Requesters)
      /\ IsFiniteSet(InCall(w)) /\ Cardinality(InCall(w)) \in Nat /\ MaxConcurrent \in Nat \ {0}
      /\ Cardinality(InCall(w)) <= MaxConcurrent
  BY FS_CardinalityType, RewardLimiterAssumption DEF LimiterInv, BucketsInv, SemaphoreInv, QueueInv
<1>4. PICK job \in {Calling(w), Queued(w)} : reward_job' = [reward_job EXCEPT ![c] = job]
  BY <1>2
<1>5. job \in Jobs /\ job.at # "sleep" /\ job.worker = w
  BY JobsAre, JobForms
<1>6. /\ reward_job' \in [Requesters -> Jobs] /\ reward_job'[c] = job
      /\ \A d \in Requesters : d # c => reward_job'[d] = reward_job[d]
  BY <1>3, <1>4, <1>5
<1>7. BucketsInv'
  BY <1>2, <1>5, <1>6, BucketsFrame DEF LimiterInv
<1>8. /\ reward_job[c] # Calling(w) /\ reward_job[c] # Queued(w) /\ Calling(w) # Queued(w)
      /\ reward_job[c].worker = w
  BY <1>1, <1>2, JobForms DEF Process
<1>9. \A d \in Requesters :
           reward_job'[d] = reward_job[d] \/ (reward_job[d].worker = w /\ reward_job'[d].worker = w)
  BY <1>5, <1>6, <1>8
<1>10. \A i \in 1..Len(waiters[w]) : waiters[w][i] \in Requesters /\ waiters[w][i] # c
                                       /\ reward_job[waiters[w][i]] = Queued(w)
  BY <1>3, <1>8 DEF QueueInv
<1>11. CASE Cardinality(InCall(w)) < MaxConcurrent /\ waiters[w] = << >>
  <2>1. reward_job'[c] = Calling(w) /\ waiters' = waiters
    BY <1>2, <1>3, <1>11
  <2>2. InCall(w)' = InCall(w) \cup {c} /\ c \notin InCall(w)
    BY <1>6, <1>8, <2>1 DEF InCall
  <2>3. IsFiniteSet(InCall(w)') /\ Cardinality(InCall(w)') = Cardinality(InCall(w)) + 1
    BY <1>3, <2>2, FS_AddElement
  <2>4. Cardinality(InCall(w)') <= MaxConcurrent
    BY <1>3, <1>11, <2>3
  <2>5. QueueInv(w)'
    BY <1>11, <2>1, <2>3, <2>4 DEF QueueInv
  <2>6. SemaphoreInv'
    BY <1>3, <1>9, <2>1, <2>5, OneQueue DEF LimiterInv
  <2> QED
    BY <1>7, <2>6 DEF LimiterInv
<1>12. CASE ~ (Cardinality(InCall(w)) < MaxConcurrent /\ waiters[w] = << >>)
  <2>1. reward_job'[c] = Queued(w) /\ waiters' = [waiters EXCEPT ![w] = Append(@, c)]
    BY <1>2, <1>3, <1>12
  <2>2. InCall(w)' = InCall(w)
    BY <1>6, <1>8, <2>1 DEF InCall
  <2>3. Cardinality(InCall(w)) = MaxConcurrent
    BY <1>3, <1>12 DEF QueueInv
  <2> DEFINE queue == waiters[w]
  <2>4. PICK n \in Nat : n = Len(queue)
    BY <1>3
  <2>5. /\ queue \in Seq(Requesters) /\ waiters'[w] = Append(queue, c)
        /\ waiters' \in [RewardWorkers -> Seq(Requesters)]
        /\ \A v \in RewardWorkers : v # w => waiters'[v] = waiters[v]
    BY <1>3, <2>1
  <2>6. /\ waiters'[w] \in Seq(Requesters) /\ Len(waiters'[w]) = n + 1
        /\ waiters'[w][n + 1] = c
        /\ \A i \in 1..n : waiters'[w][i] = queue[i]
    <3> HIDE DEF queue
    <3> QED
      BY <2>4, <2>5
  <2>7. \A i \in 1..n : queue[i] \in Requesters /\ queue[i] # c /\ reward_job[queue[i]] = Queued(w)
    BY <1>10, <2>4
  <2>8. \A i, j \in 1..n : queue[i] = queue[j] => i = j
    BY <1>3, <2>4 DEF QueueInv
  <2> HIDE DEF queue
  <2>9. \A i \in 1..(n + 1) : i \in 1..n \/ i = n + 1
    BY <2>4
  <2>10. \A i \in 1..(n + 1) : reward_job'[waiters'[w][i]] = Queued(w)
    BY <1>6, <2>1, <2>6, <2>7, <2>9
  <2>11. \A i, j \in 1..(n + 1) : waiters'[w][i] = waiters'[w][j] => i = j
    <3> SUFFICES ASSUME NEW i \in 1..(n + 1), NEW j \in 1..(n + 1), waiters'[w][i] = waiters'[w][j]
                 PROVE  i = j
      OBVIOUS
    <3>1. CASE i \in 1..n /\ j \in 1..n
      BY <2>6, <2>8, <3>1
    <3>2. CASE i = n + 1 \/ j = n + 1
      BY <2>6, <2>7, <2>9, <3>2
    <3> QED
      BY <2>9, <3>1, <3>2
  <2>12. QueueInv(w)'
    BY <1>3, <2>2, <2>3, <2>6, <2>10, <2>11 DEF QueueInv
  <2>13. SemaphoreInv'
    BY <1>9, <2>5, <2>12, OneQueue DEF LimiterInv
  <2> QED
    BY <1>7, <2>13 DEF LimiterInv
<1> QED
  BY <1>11, <1>12

LEMMA ComputeRewardStep ==
  ASSUME LimiterInv, NEW c \in Requesters, _compute_reward(c)
  PROVE  LimiterInv'
<1>1. PICK w \in RewardWorkers : w = Process(c) /\ reward_job[c] = Calling(w)
  BY JobTypes DEF LimiterInv, _compute_reward
<1>2. /\ UNCHANGED << tokens, passed >>
      /\ reward_job' = [d \in Requesters |->
           IF d = c THEN Scored
           ELSE IF waiters[w] # << >> /\ d = Head(waiters[w]) THEN Calling(w) ELSE reward_job[d]]
      /\ waiters' = [waiters EXCEPT ![w] = IF @ = << >> THEN @ ELSE Tail(@)]
  BY <1>1 DEF _compute_reward
<1>3. /\ reward_job \in [Requesters -> Jobs] /\ waiters \in [RewardWorkers -> Seq(Requesters)]
      /\ QueueInv(w) /\ waiters[w] \in Seq(Requesters)
      /\ IsFiniteSet(InCall(w)) /\ Cardinality(InCall(w)) \in Nat /\ MaxConcurrent \in Nat \ {0}
      /\ Cardinality(InCall(w)) <= MaxConcurrent /\ c \in InCall(w)
  BY <1>1, FS_CardinalityType, RewardLimiterAssumption
     DEF LimiterInv, BucketsInv, SemaphoreInv, QueueInv, InCall
<1>4. /\ reward_job' \in [Requesters -> Jobs]
      /\ \A d \in Requesters : reward_job'[d].at = "sleep" => reward_job'[d] = reward_job[d]
  BY <1>2, <1>3, JobsAre, JobForms
<1>5. BucketsInv'
  BY <1>2, <1>4, BucketsFrame DEF LimiterInv
<1>6. IsFiniteSet(InCall(w) \ {c}) /\ Cardinality(InCall(w) \ {c}) = Cardinality(InCall(w)) - 1
  BY <1>3, FS_RemoveElement
<1>7. Scored # Calling(w) /\ Queued(w) # Calling(w) /\ Calling(w).worker = w /\ Queued(w).worker = w
  BY JobForms
<1>8. CASE waiters[w] = << >>
  <2>1. waiters' = waiters /\ waiters'[w] = << >>
    BY <1>2, <1>3, <1>8
  <2>2. reward_job'[c] = Scored /\ \A d \in Requesters : d # c => reward_job'[d] = reward_job[d]
    BY <1>2, <1>8
  <2>3. InCall(w)' = InCall(w) \ {c}
    BY <1>7, <2>2 DEF InCall
  <2>4. QueueInv(w)'
    BY <1>3, <1>6, <2>1, <2>3 DEF QueueInv
  <2>5. SemaphoreInv'
    BY <1>1, <1>3, <1>7, <2>1, <2>2, <2>4, OneQueue DEF LimiterInv
  <2> QED
    BY <1>5, <2>5 DEF LimiterInv
<1>9. CASE waiters[w] # << >>
  <2> DEFINE queue == waiters[w]
  <2>1. PICK n \in Nat : n = Len(queue) /\ n >= 1
    BY <1>3, <1>9
  <2>2. /\ queue \in Seq(Requesters) /\ waiters'[w] = Tail(queue)
        /\ waiters' \in [RewardWorkers -> Seq(Requesters)]
        /\ \A v \in RewardWorkers : v # w => waiters'[v] = waiters[v]
    BY <1>2, <1>3, <1>9
  <2>3. /\ waiters'[w] \in Seq(Requesters) /\ Len(waiters'[w]) = n - 1 /\ Head(queue) = queue[1]
        /\ \A i \in 1..(n - 1) : waiters'[w][i] = queue[i + 1] /\ i + 1 \in 1..n
    <3> HIDE DEF queue
    <3> QED
      BY <2>1, <2>2
  <2>4. PICK h \in Requesters : h = queue[1] /\ h = Head(queue)
    <3> HIDE DEF queue
    <3> QED
      BY <2>1, <2>2, <2>3
  <2>5. \A i \in 1..n : reward_job[queue[i]] = Queued(w) /\ queue[i] \in Requesters
    BY <1>3, <2>1 DEF QueueInv
  <2>6. \A i, j \in 1..n : queue[i] = queue[j] => i = j
    BY <1>3, <2>1 DEF QueueInv
  <2>7. reward_job[h] = Queued(w) /\ h # c /\ h \notin InCall(w)
    BY <1>1, <1>7, <2>1, <2>4, <2>5 DEF InCall
  <2>8. /\ reward_job'[c] = Scored /\ reward_job'[h] = Calling(w)
        /\ \A d \in Requesters : d # c /\ d # h => reward_job'[d] = reward_job[d]
    BY <1>2, <1>9, <2>4, <2>7
  <2>9. InCall(w)' = (InCall(w) \ {c}) \cup {h} /\ h \notin InCall(w) \ {c}
    BY <1>7, <2>7, <2>8 DEF InCall
  <2>10. IsFiniteSet(InCall(w)') /\ Cardinality(InCall(w)') = Cardinality(InCall(w))
    <3>1. /\ IsFiniteSet((InCall(w) \ {c}) \cup {h})
          /\ Cardinality((InCall(w) \ {c}) \cup {h}) = Cardinality(InCall(w) \ {c}) + 1
      BY <1>6, <2>9, FS_AddElement
    <3> QED
      BY <1>3, <1>6, <2>9, <3>1
  <2>11. Cardinality(InCall(w)) = MaxConcurrent
    BY <1>3, <1>9 DEF QueueInv
  <2> HIDE DEF queue
  <2>12. \A i \in 1..(n - 1) : waiters'[w][i] # h /\ waiters'[w][i] # c
    BY <1>1, <1>7, <2>1, <2>3, <2>4, <2>5, <2>6
  <2>13. \A i \in 1..(n - 1) : reward_job'[waiters'[w][i]] = Queued(w)
    BY <2>3, <2>5, <2>8, <2>12
  <2>14. \A i, j \in 1..(n - 1) : waiters'[w][i] = waiters'[w][j] => i = j
    <3> SUFFICES ASSUME NEW i \in 1..(n - 1), NEW j \in 1..(n - 1), waiters'[w][i] = waiters'[w][j]
                 PROVE  i = j
      OBVIOUS
    <3>1. i + 1 = j + 1
      BY <2>3, <2>6
    <3> QED
      BY <2>1, <3>1
  <2>15. QueueInv(w)'
    BY <1>3, <2>3, <2>10, <2>11, <2>13, <2>14 DEF QueueInv
  <2>16. SemaphoreInv'
    BY <1>1, <1>7, <2>2, <2>7, <2>8, <2>15, OneQueue DEF LimiterInv
  <2> QED
    BY <1>5, <2>16 DEF LimiterInv
<1> QED
  BY <1>8, <1>9

LEMMA LimiterFrame == LimiterInv /\ UNCHANGED limiterVars => LimiterInv'
<1> SUFFICES ASSUME LimiterInv, UNCHANGED limiterVars PROVE LimiterInv'
  OBVIOUS
<1>1. BucketsInv'
  BY BucketsFrame DEF LimiterInv, BucketsInv
<1>2. SemaphoreInv'
  BY SemaphoreFrame DEF LimiterInv
<1> QED
  BY <1>1, <1>2 DEF LimiterInv

LEMMA LimiterInitial == Init => LimiterInv
<1> SUFFICES ASSUME Init PROVE LimiterInv
  OBVIOUS
<1>1. /\ tokens = [w \in RewardWorkers |-> [b \in BucketNames |-> Burst[b]]]
      /\ reward_job = [c \in Requesters |-> NoJob]
      /\ waiters = [w \in RewardWorkers |-> << >>]
      /\ passed = [w \in RewardWorkers |-> [b \in BucketNames |-> Allowance(b)]]
  BY DEF Init, LimiterInit
<1>2. /\ reward_job \in [Requesters -> Jobs]
      /\ \A c \in Requesters : reward_job[c].at = "none"
  BY <1>1, JobsAre, JobForms
<1>3. ASSUME NEW w \in RewardWorkers, NEW b \in BucketNames
      PROVE  BucketInv(w, b) /\ tokens[w][b] \in Int /\ passed[w][b] \in Int
  <2>1. \A c \in Requesters : ~ SleepsAt(c, w, b)
    BY <1>2 DEF SleepsAt, At
  <2>2. tokens[w][b] = Burst[b] /\ passed[w][b] = Allowance(b)
    BY <1>1
  <2> QED
    BY <2>1, <2>2, BucketTypes DEF BucketInv, Allowance, Bigger
<1>4. BucketsInv
  BY <1>1, <1>2, <1>3 DEF BucketsInv, Counts
<1>5. ASSUME NEW w \in RewardWorkers
      PROVE  QueueInv(w)
  <2>1. InCall(w) = {} /\ waiters[w] = << >>
    BY <1>1, <1>2, JobForms DEF InCall
  <2> QED
    BY <2>1, FS_EmptySet, RewardLimiterAssumption DEF QueueInv
<1>6. SemaphoreInv
  BY <1>1, <1>5 DEF SemaphoreInv
<1> QED
  BY <1>4, <1>6 DEF LimiterInv

LEMMA LimiterInvStep ==
  ASSUME LimiterInv, [Next]_vars
  PROVE  LimiterInv'
<1>1. CASE \E c \in Completions : LoopStep(c)
  <2>1. PICK c \in Completions : LoopStep(c)
    BY <1>1
  <2>2. CASE _compute_score(c)
    BY <2>2, CallersAre, RunSingleStep DEF _compute_score
  <2>3. CASE Completed(c)
    BY <2>3, CallersAre, TakeScoreStep DEF Completed
  <2>4. CASE ~ _compute_score(c) /\ ~ Completed(c)
    <3>1. UNCHANGED limiterVars
      BY <2>1, <2>4 DEF LoopStep, SingleTurn, Cancelled, _handle_pending_state, Generate,
                        HandleAnswer, CallTool, _handle_processing_tools_state
    <3> QED
      BY <3>1, LimiterFrame
  <2> QED
    BY <2>2, <2>3, <2>4
<1>2. CASE \E c \in Completions : RewardSteps(c)
  BY <1>2, CallersAre, AcquireTokensStep, WakeStep, EnterSemaphoreStep, ComputeRewardStep
     DEF RewardSteps, LimiterStep
<1>3. CASE TimePasses
  BY <1>3, TickStep DEF TimePasses
<1>4. CASE \/ \E s \in Samples : SampleStep(s)
           \/ \E c \in Completions : ServerSteps(c) \/ ToolRuns(c)
           \/ PoolSteps \/ ControlStep \/ UNCHANGED vars
  <2>1. UNCHANGED limiterVars
    BY <1>4 DEF SampleStep, generate_single_sample_async, generate_sequences_no_post, ServerSteps,
                restOfServer, ToolRuns, PoolSteps, restOfPool, ControlStep, Synchronization, Delivery,
                MonitorResume, Pause, DeliverToServer, DeliverToWorker, AllReturned,
                UpdateParamVersion, Resume, Resumed, vars
  <2> QED
    BY <2>1, LimiterFrame
<1> QED
  BY <1>1, <1>2, <1>3, <1>4, NextSteps

-----------------------------------------------------------------------------
(* The limits hold whatever is cancelled, whichever tools raise and        *)
(* however many loops there are: that of the tool pool for all of them     *)
(* together, and those of the semaphore and of the token buckets in each   *)
(* reward loop process for the rewards that are computed there.            *)
THEOREM LimitsCorrect == Spec => []LimitsRespected
<1> DEFINE Limits == PoolInv /\ LimiterInv
<1>1. Init => Limits
  BY PoolInitial, LimiterInitial
<1>2. Limits /\ [Next]_vars => Limits'
  BY PoolStep, LimiterInvStep
<1>3. Limits => LimitsRespected
  <2> SUFFICES ASSUME Limits PROVE LimitsRespected
    OBVIOUS
  <2>1. \A w \in RewardWorkers, b \in BucketNames : passed[w][b] >= 0
    BY DEF LimiterInv, BucketsInv, BucketInv
  <2>2. permits >= 0 /\ Cardinality(RunningTools) + releases + permits = RateLimit
    BY DEF PoolInv
  <2>3. \A w \in RewardWorkers :
          /\ Cardinality(InCall(w)) <= MaxConcurrent
          /\ waiters[w] # << >> => Cardinality(InCall(w)) = MaxConcurrent
    BY DEF LimiterInv, SemaphoreInv, QueueInv
  <2> QED
    BY <2>1, <2>2, <2>3 DEF LimitsRespected
<1> HIDE DEF Limits
<1> QED
  BY <1>1, <1>2, <1>3, PTL DEF Spec

-----------------------------------------------------------------------------
(* The loops.  What a loop knows of its response decides what may happen   *)
(* next: between requests the transcript goes on behind the response, or   *)
(* the tool's answer is next; a request continues the response by a run of *)
(* the policy's tokens that stops before a tool's answer; and a response   *)
(* that is being scored is whole.                                          *)

\* tokens n + 1 to n + k of a transcript, its first n, and their mask
Fragment(n, k) == [i \in 1..k |-> n + i]
Run(n) == [i \in 1..n |-> i]
Mask(c, n) == [i \in 1..n |-> IF i \in Observations[c] THEN 0 ELSE 1]

Place(c) == Len(response[c])
GoesOn(c, n) == n < Length[c] /\ n + 1 \notin Observations[c]
Unobserved(c, n, k) == \A o \in Observations[c] : ~ (n < o /\ o <= n + k)

\* the loop may go on with the response
Continues(c) ==
  /\ Place(c) < ResponseLength
  /\ agent_state[c] = "PROCESSING_TOOLS" => c \in ToolAgents /\ Place(c) + 1 \in Observations[c]
  /\ agent_state[c] # "PROCESSING_TOOLS" =>
       /\ GoesOn(c, Place(c))
       /\ c \in ToolAgents => Place(c) = 0 \/ Place(c) \in Observations[c] \/ cut[c] = Place(c)

\* the response may be scored
Whole(c) ==
  \/ Place(c) >= ResponseLength
  \/ Place(c) = Length[c]
  \/ Place(c) + 1 \in Observations[c]
       /\ (c \in ToolAgents => cut[c] = Place(c) - 1 \/ Place(c) + 1 >= ResponseLength)

TranscriptInv(c) ==
  /\ Place(c) \in 0..Length[c]
  /\ response[c] = Run(Place(c)) /\ response_mask[c] = Mask(c, Place(c))
  /\ c \notin ToolAgents => agent_state[c] = "PENDING" /\ Unobserved(c, 0, Place(c))

Streamed(c, k) == Place(c) + k <= Length[c] /\ Unobserved(c, Place(c), k)

Streaming(c, s, k, e, g) ==
  /\ request[c] = [at |-> "generating", server |-> s, prompt |-> response[c],
                   req_output |-> Fragment(Place(c), k), cancel_event |-> e, generated |-> g]
  /\ Streamed(c, k)
  /\ IF g THEN k > 0 /\ LastToken(c, Place(c) + k) ELSE GoesOn(c, Place(c) + k)

AnswerReady(c, k, x) ==
  /\ request[c] = Answered(Fragment(Place(c), k), x)
  /\ Streamed(c, k)
  /\ IF x THEN GoesOn(c, Place(c) + k) ELSE k > 0 /\ LastToken(c, Place(c) + k)

RequestInv(c) ==
  \/ request[c] = NoRequest
  \/ \E s \in Servers : request[c] = Sent(s, response[c])
  \/ \E s \in Servers, k \in Nat, e, g \in BOOLEAN : Streaming(c, s, k, e, g)
  \/ \E k \in Nat, x \in BOOLEAN : AnswerReady(c, k, x)

PlacesOfLoop == {"idle", "single_turn", "top", "generate", "tool", "postprocess", "reward", "returned"}

ControlFlowInv(c) ==
  /\ loop_pc[c] = "single_turn" => c \notin ToolAgents
  /\ loop_pc[c] \in {"top", "tool"} => c \in ToolAgents
  /\ loop_pc[c] = "tool" => agent_state[c] = "PROCESSING_TOOLS"
  /\ loop_pc[c] = "generate" => agent_state[c] # "PROCESSING_TOOLS"
  /\ loop_pc[c] = "generate" <=> request[c] # NoRequest
  /\ loop_pc[c] \in {"single_turn", "top", "generate", "tool"} => Continues(c)
  /\ loop_pc[c] \in {"postprocess", "reward"} => Whole(c)
  /\ loop_pc[c] \in {"idle", "returned"} => IF HasOutput(c) THEN Whole(c) ELSE Continues(c)
  /\ HasOutput(c) => loop_pc[c] \in {"idle", "returned"}
  /\ loop_pc[c] = "returned" => output[c] # "none"
  /\ rewards[c] = IF HasOutput(c) THEN 1 ELSE 0
  /\ loop_pc[c] = "idle" <=> status[SampleOf(c)] # "running"

\* A loop at work writes under the version its sample was started with, or, if
\* that was during a transfer, under the one after it.
AtWork(c) == loop_pc[c] \notin {"idle", "returned"}

VersionsInv(c) ==
  /\ versions[c].start <= versions[c].end /\ versions[c].end <= version
  /\ \A v \in written[c] : v \in Nat /\ versions[c].start <= v /\ v <= LastVersion(c)
  /\ c \in strays /\ control # "transfer" => versions[c].end < version
  /\ AtWork(c) /\ control = "transfer" => c \in strays
  /\ AtWork(c) => version = IF c \in strays /\ control # "transfer" THEN versions[c].end + 1
                            ELSE versions[c].end
  /\ loop_pc[c] = "idle" /\ output[c] = "none" => written[c] = {}

\* From the end of pause() to resume(), the loops that the monitor lets through
\* are answered with nothing, and none of them adds to its response.
Frozen == control \in {"transfer", "updated"}

FrozenInv(c) ==
  /\ c \in grown => loop_pc[c] # "idle"
  /\ Frozen =>
       /\ loop_pc[c] \in {"idle", "single_turn", "top", "generate", "returned"}
       /\ request[c].at # "generating"
       /\ request[c].at = "answered" => request[c] = Answered(<< >>, TRUE)
       /\ c \notin grown

LoopInv(c) ==
  TranscriptInv(c) /\ RequestInv(c) /\ ControlFlowInv(c) /\ VersionsInv(c) /\ FrozenInv(c)

\* every worker and every server has been told of the pause
AllTold ==
  /\ \A w \in Workers : ToWorker(w) \in undelivered \/ cancellation_event[w]
  /\ \A s \in Servers : ToServer(s) \in undelivered \/ server_paused[s]

PauseInv ==
  /\ control \in {"running", "cancelling", "transfer", "updated", "resuming"}
  /\ version \in Nat /\ pauses \in Nat /\ pauses <= MaxPauses
  /\ pauses = version + IF control \in {"cancelling", "transfer"} THEN 1 ELSE 0
  /\ undelivered \subseteq Everyone
  /\ control = "cancelling" => AllTold
  /\ Frozen => AllTold /\ undelivered = {}

LoopTypes ==
  /\ server_paused \in [Servers -> BOOLEAN]
  /\ request = [c \in Completions |-> request[c]]
  /\ loop_pc \in [Completions -> PlacesOfLoop]
  /\ agent_state \in [Completions -> {"PENDING", "GENERATING", "PROCESSING_TOOLS"}]
  /\ response = [c \in Completions |-> response[c]]
  /\ response_mask = [c \in Completions |-> response_mask[c]]
  /\ output \in [Completions -> {"none", "cancelled", "completed"}]
  /\ versions \in [Completions -> [start : Nat, end : Nat]]
  /\ written = [c \in Completions |-> written[c]]
  /\ strays \subseteq Completions /\ grown \subseteq Completions
  /\ cut \in [Completions -> Nat]
  /\ paused \in BOOLEAN
  /\ rewards = [c \in Completions |-> rewards[c]]
  /\ agent_name \in [Samples -> AgentNames]
  /\ cancellation_event \in [Workers -> BOOLEAN]
  /\ request_id_to_server \in [Workers -> [Completions -> Servers \cup {0}]]
  /\ worker_of \in [Samples -> Workers] /\ next_worker \in Workers
  /\ status \in [Samples -> {"new", "running", "interrupted", "finished"}]

LoopsInv == LoopTypes /\ PauseInv /\ \A c \in Completions : LoopInv(c)

\* sequences of tokens

LEMMA SameSequence ==
  ASSUME NEW S, NEW s \in Seq(S), NEW t \in Seq(S), Len(s) = Len(t), \A i \in 1..Len(s) : s[i] = t[i]
  PROVE  s = t
  OBVIOUS

LEMMA RunFacts ==
  ASSUME NEW n \in Nat
  PROVE  /\ Run(n) \in Seq(1..n) /\ Run(n) \in Seq(Nat) /\ Len(Run(n)) = n
         /\ \A i \in 1..n : Run(n)[i] = i
         /\ Run(0) = << >>
  BY DEF Run

LEMMA FragmentFacts ==
  ASSUME NEW n \in Nat, NEW k \in Nat
  PROVE  /\ Fragment(n, k) \in Seq(Nat) /\ Len(Fragment(n, k)) = k
         /\ \A i \in 1..k : Fragment(n, k)[i] = n + i
         /\ Fragment(n, 0) = << >>
  BY DEF Fragment

LEMMA RunFragment ==
  ASSUME NEW n \in Nat, NEW k \in Nat
  PROVE  Run(n) \o Fragment(n, k) = Run(n + k)
<1>1. PICK s \in Seq(Nat), t \in Seq(Nat) : s = Run(n) /\ t = Fragment(n, k)
  BY RunFacts, FragmentFacts
<1>2. Len(s) = n /\ Len(t) = k
  BY <1>1, RunFacts, FragmentFacts
<1>6. /\ s \o t \in Seq(Nat) /\ Len(s \o t) = n + k
      /\ \A i \in 1..n : (s \o t)[i] = s[i]
      /\ \A i \in (n + 1)..(n + k) : (s \o t)[i] = t[i - n]
  <2>1. /\ s \o t \in Seq(Nat) /\ Len(s \o t) = Len(s) + Len(t)
        /\ \A i \in 1..(Len(s) + Len(t)) : (s \o t)[i] = IF i <= Len(s) THEN s[i] ELSE t[i - Len(s)]
    BY ConcatProperties
  <2>2. \A i \in 1..n : i \in 1..(n + k) /\ i <= n
    OBVIOUS
  <2>3. \A i \in (n + 1)..(n + k) : i \in 1..(n + k) /\ ~ i <= n
    OBVIOUS
  <2> QED
    BY <1>2, <2>1, <2>2, <2>3
<1>3. \A i \in 1..(n + k) : (s \o t)[i] = i
  <2> TAKE i \in 1..(n + k)
  <2>1. CASE i \in 1..n
    BY <1>1, <1>6, <2>1, RunFacts
  <2>2. CASE i \in (n + 1)..(n + k)
    <3>1. i - n \in 1..k /\ n + (i - n) = i
      BY <2>2
    <3>2. t[i - n] = n + (i - n)
      BY <1>1, <3>1, FragmentFacts
    <3> QED
      BY <1>6, <2>2, <3>1, <3>2
  <2>3. i \in 1..n \/ i \in (n + 1)..(n + k)
    OBVIOUS
  <2> QED
    BY <2>1, <2>2, <2>3
<1>4. n + k \in Nat
  OBVIOUS
<1>5. Run(n + k) \in Seq(Nat) /\ Len(Run(n + k)) = n + k /\ \A i \in 1..(n + k) : Run(n + k)[i] = i
  BY <1>4, RunFacts
<1> QED
  BY <1>1, <1>6, <1>3, <1>5, SameSequence

LEMMA FragmentAppend ==
  ASSUME NEW n \in Nat, NEW k \in Nat
  PROVE  Append(Fragment(n, k), n + k + 1) = Fragment(n, k + 1)
<1>1. PICK s \in Seq(Nat) : s = Fragment(n, k) /\ Len(s) = k /\ \A i \in 1..k : s[i] = n + i
  BY FragmentFacts
<1>2. /\ Append(s, n + k + 1) \in Seq(Nat) /\ Len(Append(s, n + k + 1)) = k + 1
      /\ \A i \in 1..(k + 1) : Append(s, n + k + 1)[i] = n + i
  BY <1>1
<1>3. k + 1 \in Nat
  OBVIOUS
<1>4. /\ Fragment(n, k + 1) \in Seq(Nat) /\ Len(Fragment(n, k + 1)) = k + 1
      /\ \A i \in 1..(k + 1) : Fragment(n, k + 1)[i] = n + i
  BY <1>3, FragmentFacts
<1>5. Append(s, n + k + 1) = Fragment(n, k + 1)
  <2>1. PICK u \in Seq(Nat), v \in Seq(Nat) : u = Append(s, n + k + 1) /\ v = Fragment(n, k + 1)
    BY <1>2, <1>4
  <2>2. Len(u) = Len(v) /\ \A i \in 1..Len(u) : u[i] = v[i]
    BY <1>2, <1>4, <2>1
  <2> QED
    BY <2>1, <2>2, SameSequence
<1> QED
  BY <1>1, <1>5

LEMMA RunAppend ==
  ASSUME NEW n \in Nat
  PROVE  Append(Run(n), n + 1) = Run(n + 1)
<1>1. PICK s \in Seq(Nat) : s = Run(n) /\ Len(s) = n /\ \A i \in 1..n : s[i] = i
  BY RunFacts
<1>2. /\ Append(s, n + 1) \in Seq(Nat) /\ Len(Append(s, n + 1)) = n + 1
      /\ \A i \in 1..(n + 1) : Append(s, n + 1)[i] = i
  BY <1>1
<1>3. n + 1 \in Nat
  OBVIOUS
<1>4. Run(n + 1) \in Seq(Nat) /\ Len(Run(n + 1)) = n + 1 /\ \A i \in 1..(n + 1) : Run(n + 1)[i] = i
  BY <1>3, RunFacts
<1>5. Append(s, n + 1) = Run(n + 1)
  BY <1>2, <1>4, SameSequence
<1> QED
  BY <1>1, <1>5

LEMMA RunCut ==
  ASSUME NEW n \in Nat, NEW k \in Nat, k <= n
  PROVE  SubSeq(Run(n), 1, k) = Run(k)
<1>1. PICK s \in Seq(Nat) : s = Run(n) /\ Len(s) = n /\ \A i \in 1..n : s[i] = i
  BY RunFacts
<1>2. /\ SubSeq(s, 1, k) \in Seq(Nat) /\ Len(SubSeq(s, 1, k)) = k
      /\ \A i \in 1..k : SubSeq(s, 1, k)[i] = i
  BY <1>1
<1>3. Run(k) \in Seq(Nat) /\ Len(Run(k)) = k /\ \A i \in 1..k : Run(k)[i] = i
  BY RunFacts
<1>4. SubSeq(s, 1, k) = Run(k)
  BY <1>2, <1>3, SameSequence
<1> QED
  BY <1>1, <1>4

LEMMA MaskFacts ==
  ASSUME NEW c \in Completions, NEW n \in Nat
  PROVE  /\ Mask(c, n) \in Seq({0, 1}) /\ Len(Mask(c, n)) = n
         /\ \A i \in 1..n : Mask(c, n)[i] = IF i \in Observations[c] THEN 0 ELSE 1
         /\ Mask(c, 0) = << >>
  BY DEF Mask

LEMMA OnesFacts ==
  ASSUME NEW n \in Nat
  PROVE  Ones(n) \in Seq({0, 1}) /\ Len(Ones(n)) = n /\ \A i \in 1..n : Ones(n)[i] = 1
  BY DEF Ones

LEMMA MaskOnes ==
  ASSUME NEW c \in Completions, NEW n \in Nat, NEW k \in Nat, Unobserved(c, n, k)
  PROVE  Mask(c, n) \o Ones(k) = Mask(c, n + k)
<1>1. PICK s \in Seq({0, 1}), t \in Seq({0, 1}) : s = Mask(c, n) /\ t = Ones(k)
  BY MaskFacts, OnesFacts
<1>2. Len(s) = n /\ Len(t) = k
  BY <1>1, MaskFacts, OnesFacts
<1>6. /\ s \o t \in Seq({0, 1}) /\ Len(s \o t) = n + k
      /\ \A i \in 1..n : (s \o t)[i] = s[i]
      /\ \A i \in (n + 1)..(n + k) : (s \o t)[i] = t[i - n]
  <2>1. /\ s \o t \in Seq({0, 1}) /\ Len(s \o t) = Len(s) + Len(t)
        /\ \A i \in 1..(Len(s) + Len(t)) : (s \o t)[i] = IF i <= Len(s) THEN s[i] ELSE t[i - Len(s)]
    BY ConcatProperties
  <2>2. \A i \in 1..n : i \in 1..(n + k) /\ i <= n
    OBVIOUS
  <2>3. \A i \in (n + 1)..(n + k) : i \in 1..(n + k) /\ ~ i <= n
    OBVIOUS
  <2> QED
    BY <1>2, <2>1, <2>2, <2>3
<1>3. \A i \in 1..(n + k) : (s \o t)[i] = IF i \in Observations[c] THEN 0 ELSE 1
  <2> TAKE i \in 1..(n + k)
  <2>1. CASE i \in 1..n
    BY <1>1, <1>6, <2>1, MaskFacts
  <2>2. CASE i \in (n + 1)..(n + k)
    <3>1. i - n \in 1..k /\ i \notin Observations[c]
      BY <2>2 DEF Unobserved
    <3> QED
      BY <1>1, <1>6, <2>2, <3>1, OnesFacts
  <2>3. i \in 1..n \/ i \in (n + 1)..(n + k)
    OBVIOUS
  <2> QED
    BY <2>1, <2>2, <2>3
<1>4. n + k \in Nat
  OBVIOUS
<1>5. /\ Mask(c, n + k) \in Seq({0, 1}) /\ Len(Mask(c, n + k)) = n + k
      /\ \A i \in 1..(n + k) : Mask(c, n + k)[i] = IF i \in Observations[c] THEN 0 ELSE 1
  BY <1>4, MaskFacts
<1>7. s \o t = Mask(c, n + k)
  <2>1. PICK u \in Seq({0, 1}), v \in Seq({0, 1}) : u = s \o t /\ v = Mask(c, n + k)
    BY <1>5, <1>6
  <2>2. Len(u) = Len(v) /\ \A i \in 1..Len(u) : u[i] = v[i]
    BY <1>3, <1>5, <1>6, <2>1
  <2> QED
    BY <2>1, <2>2, SameSequence
<1> QED
  BY <1>1, <1>7

LEMMA MaskAppend ==
  ASSUME NEW c \in Completions, NEW n \in Nat, n + 1 \in Observations[c]
  PROVE  Append(Mask(c, n), 0) = Mask(c, n + 1)
<1>1. PICK s \in Seq({0, 1}) : /\ s = Mask(c, n) /\ Len(s) = n
                               /\ \A i \in 1..n : s[i] = IF i \in Observations[c] THEN 0 ELSE 1
  BY MaskFacts
<1>2. /\ Append(s, 0) \in Seq({0, 1}) /\ Len(Append(s, 0)) = n + 1
      /\ \A i \in 1..(n + 1) : Append(s, 0)[i] = IF i \in Observations[c] THEN 0 ELSE 1
  BY <1>1
<1>3. n + 1 \in Nat
  OBVIOUS
<1>4. /\ Mask(c, n + 1) \in Seq({0, 1}) /\ Len(Mask(c, n + 1)) = n + 1
      /\ \A i \in 1..(n + 1) : Mask(c, n + 1)[i] = IF i \in Observations[c] THEN 0 ELSE 1
  BY <1>3, MaskFacts
<1> QED
  BY <1>1, <1>2, <1>4, SameSequence

LEMMA OnesMask ==
  ASSUME NEW c \in Completions, NEW n \in Nat, Unobserved(c, 0, n)
  PROVE  Ones(n) = Mask(c, n)
<1>1. \A i \in 1..n : i \notin Observations[c]
  BY DEF Unobserved
<1> QED
  BY <1>1 DEF Ones, Mask

\* what stays true of a loop

LEMMA SamplesAre ==
  /\ \A c \in Completions : SampleOf(c) \in Samples /\ c \in Members[SampleOf(c)]
  /\ \A s \in Samples : \A c \in Members[s] : c \in Completions /\ SampleOf(c) = s
<1>1. \A s \in Samples : \A c \in Members[s] : c \in Completions
  BY AgentLoopsAssumption
<1>2. ASSUME NEW c \in Completions
      PROVE  SampleOf(c) \in Samples /\ c \in Members[SampleOf(c)]
  <2>1. \E s \in Samples : c \in Members[s]
    BY AgentLoopsAssumption
  <2> QED
    BY <2>1 DEF SampleOf
<1>3. ASSUME NEW s \in Samples, NEW c \in Members[s]
      PROVE  SampleOf(c) = s
  BY <1>1, <1>2, AgentLoopsAssumption
<1> QED
  BY <1>1, <1>2, <1>3

LEMMA TranscriptTypes ==
  ASSUME NEW c \in Completions
  PROVE  /\ Length[c] \in Nat /\ Length[c] > 0
         /\ \A o \in Observations[c] : o \in Nat /\ 3 <= o /\ o < Length[c]
         /\ \A o \in Observations[c] : o - 1 \notin Observations[c]
         /\ \A o \in Observations[c] : o - 2 \notin Observations[c]
  BY LLMServerAssumption

LEMMA TranscriptFrame ==
  ASSUME NEW c \in Completions, TranscriptInv(c), response'[c] = response[c],
         response_mask'[c] = response_mask[c], agent_name' = agent_name,
         c \notin ToolAgents => agent_state'[c] = agent_state[c]
  PROVE  TranscriptInv(c)'
  BY DEF TranscriptInv, Place, ToolAgents

LEMMA RequestFrame ==
  ASSUME NEW c \in Completions, RequestInv(c), response'[c] = response[c], request'[c] = request[c]
  PROVE  RequestInv(c)'
<1>1. Place(c)' = Place(c)
  BY DEF Place
<1> QED
  BY <1>1 DEF RequestInv, Streaming, AnswerReady, Streamed

\* the loop's own position does not change, nor what it depends on
LEMMA ContinuesFrame ==
  ASSUME NEW c \in Completions, response'[c] = response[c], agent_name' = agent_name,
         cut'[c] = cut[c]
  PROVE  /\ Continues(c) /\ agent_state'[c] = agent_state[c] => Continues(c)'
         /\ Whole(c) => Whole(c)'
<1>1. Place(c)' = Place(c) /\ (c \in ToolAgents' <=> c \in ToolAgents)
  BY DEF Place, ToolAgents
<1> QED
  BY <1>1 DEF Continues, Whole

\* nothing of the loop changes
SameLoop(c) ==
  /\ request'[c] = request[c] /\ loop_pc'[c] = loop_pc[c] /\ agent_state'[c] = agent_state[c]
  /\ response'[c] = response[c] /\ response_mask'[c] = response_mask[c]
  /\ output'[c] = output[c] /\ versions'[c] = versions[c] /\ written'[c] = written[c]
  /\ rewards'[c] = rewards[c] /\ cut'[c] = cut[c]
  /\ c \in strays' <=> c \in strays
  /\ c \in grown' <=> c \in grown

LEMMA LoopFrame ==
  ASSUME NEW c \in Completions, LoopInv(c), SameLoop(c), agent_name' = agent_name,
         status'[SampleOf(c)] = "running" <=> status[SampleOf(c)] = "running"
  PROVE  /\ TranscriptInv(c)' /\ RequestInv(c)' /\ ControlFlowInv(c)'
         /\ version' = version /\ control' = control => LoopInv(c)'
<1>1. TranscriptInv(c)' /\ RequestInv(c)'
  BY TranscriptFrame, RequestFrame DEF LoopInv, SameLoop
<1>2. /\ Continues(c) => Continues(c)'
      /\ Whole(c) => Whole(c)'
  BY ContinuesFrame DEF SameLoop
<1>3. (c \in ToolAgents' <=> c \in ToolAgents) /\ (HasOutput(c)' <=> HasOutput(c))
  BY DEF ToolAgents, HasOutput, SameLoop
<1>4. ControlFlowInv(c)'
  BY <1>2, <1>3 DEF LoopInv, ControlFlowInv, SameLoop
<1>5. version' = version /\ control' = control => VersionsInv(c)' /\ FrozenInv(c)'
  BY DEF LoopInv, VersionsInv, LastVersion, AtWork, FrozenInv, Frozen, SameLoop
<1> QED
  BY <1>1, <1>4, <1>5 DEF LoopInv

LEMMA OneLoop ==
  ASSUME LoopsInv, NEW c \in Completions, \A d \in Completions : d # c => SameLoop(d),
         UNCHANGED << agent_name, status, controlVars, server_paused, cancellation_event >>,
         LoopTypes', LoopInv(c)'
  PROVE  LoopsInv'
<1>1. PauseInv'
  BY DEF LoopsInv, PauseInv, AllTold, Frozen, Everyone, ToWorker, ToServer, Workers
<1>2. ASSUME NEW d \in Completions, d # c
      PROVE  LoopInv(d)'
  BY <1>2, LoopFrame DEF LoopsInv
<1> QED
  BY <1>1, <1>2 DEF LoopsInv

-----------------------------------------------------------------------------
(* The servers' steps.                                                     *)

LEMMA RequestStep ==
  ASSUME LoopsInv, NEW c \in Completions, NEW r, request' = [request EXCEPT ![c] = r],
         UNCHANGED << server_paused, restOfServer >>,
         request[c] # NoRequest, r # NoRequest, RequestInv(c)', FrozenInv(c)'
  PROVE  LoopsInv'
<1>1. /\ request'[c] = r /\ \A d \in Completions : d # c => request'[d] = request[d]
      /\ request' = [d \in Completions |-> request'[d]]
  BY DEF LoopsInv, LoopTypes
<1>2. LoopTypes'
  BY <1>1 DEF LoopsInv, LoopTypes, restOfServer
<1>3. \A d \in Completions : d # c => SameLoop(d)
  BY <1>1 DEF SameLoop, restOfServer
<1>4. LoopInv(c)
  BY DEF LoopsInv
<1>5. TranscriptInv(c)'
  BY <1>4, TranscriptFrame DEF LoopInv, restOfServer
<1>6. ControlFlowInv(c)'
  <2>1. /\ Continues(c) => Continues(c)'
        /\ Whole(c) => Whole(c)'
    BY <1>4, ContinuesFrame DEF restOfServer
  <2>2. (c \in ToolAgents' <=> c \in ToolAgents) /\ (HasOutput(c)' <=> HasOutput(c))
    BY DEF ToolAgents, HasOutput, restOfServer
  <2> QED
    BY <1>1, <1>4, <2>1, <2>2 DEF LoopInv, ControlFlowInv, restOfServer
<1>7. VersionsInv(c)'
  BY <1>1, <1>4, <1>6 DEF LoopInv, ControlFlowInv, VersionsInv, LastVersion, AtWork, restOfServer
<1>8. LoopInv(c)'
  BY <1>5, <1>6, <1>7 DEF LoopInv
<1> QED
  BY <1>2, <1>3, <1>8, OneLoop DEF restOfServer

LEMMA ResponsePlace ==
  ASSUME LoopsInv, NEW c \in Completions
  PROVE  /\ LoopInv(c) /\ Place(c) \in Nat /\ Place(c) <= Length[c] /\ response[c] = Run(Place(c))
<1>1. LoopInv(c)
  BY DEF LoopsInv
<1> QED
  BY <1>1, TranscriptTypes DEF LoopInv, TranscriptInv

\* where a request is tells which form it has
LEMMA RequestForms ==
  ASSUME LoopsInv, NEW c \in Completions
  PROVE  /\ request[c].at = "none" => request[c] = NoRequest
         /\ request[c].at = "sent" => \E s \in Servers : request[c] = Sent(s, response[c])
         /\ request[c].at = "generating" =>
              \E s \in Servers, k \in Nat, e, g \in BOOLEAN : Streaming(c, s, k, e, g)
         /\ request[c].at = "answered" => \E k \in Nat, x \in BOOLEAN : AnswerReady(c, k, x)
         /\ request[c].at \in {"none", "sent", "generating", "answered"}
<1>1. RequestInv(c)
  BY DEF LoopsInv, LoopInv
<1>2. NoRequest.at = "none" /\ \A s, p : Sent(s, p).at = "sent"
  BY DEF NoRequest, Sent
<1>3. \A s, k, e, g : Streaming(c, s, k, e, g) => request[c].at = "generating"
  BY DEF Streaming
<1>4. \A k, x : AnswerReady(c, k, x) => request[c].at = "answered"
  BY DEF AnswerReady, Answered
<1> QED
  BY <1>1, <1>2, <1>3, <1>4 DEF RequestInv

LEMMA NotFrozen ==
  ASSUME NEW c \in Completions, FrozenInv(c), request[c].at = "generating", UNCHANGED restOfServer
  PROVE  FrozenInv(c)'
  BY DEF FrozenInv, Frozen, restOfServer

LEMMA StartGenerationStep ==
  ASSUME LoopsInv, NEW c \in Completions, StartGeneration(c), UNCHANGED restOfServer
  PROVE  LoopsInv'
<1>1. /\ request[c].at = "sent" /\ server_paused' = server_paused
      /\ request' = [request EXCEPT ![c] =
           IF server_paused[@.server] THEN Answered(<< >>, TRUE) ELSE Generating(@.server, @.prompt)]
      /\ request = [d \in Completions |-> request[d]]
  BY DEF StartGeneration, LoopsInv, LoopTypes
<1>2. LoopInv(c) /\ Place(c) \in Nat /\ Place(c) <= Length[c]
  BY ResponsePlace
<1>3. PICK s \in Servers : request[c] = Sent(s, response[c])
  BY <1>1, RequestForms
<1>4. request[c] # NoRequest
  BY <1>1 DEF NoRequest
<1>5. GoesOn(c, Place(c))
  BY <1>2, <1>4 DEF LoopInv, ControlFlowInv, Continues
<1>6. request[c].server = s /\ request[c].prompt = response[c]
  BY <1>3 DEF Sent
<1>7. /\ request'[c] = IF server_paused[s] THEN Answered(<< >>, TRUE) ELSE Generating(s, response[c])
      /\ request' = [request EXCEPT ![c] = request'[c]]
  BY <1>1, <1>6
<1>8. response'[c] = response[c] /\ Place(c)' = Place(c)
  BY DEF restOfServer, Place
<1>9. Fragment(Place(c), 0) = << >> /\ Place(c) + 0 = Place(c)
  BY <1>2, FragmentFacts
<1>10. Streamed(c, 0)
  BY <1>2, <1>9, TranscriptTypes DEF Streamed, Unobserved
<1>11. CASE server_paused[s]
  <2>1. request'[c] = Answered(Fragment(Place(c), 0), TRUE)
    BY <1>7, <1>9, <1>11
  <2>2. AnswerReady(c, 0, TRUE)'
    BY <1>5, <1>8, <1>9, <1>10, <2>1 DEF AnswerReady, Streamed
  <2>3. RequestInv(c)'
    BY <2>2 DEF RequestInv
  <2>4. request'[c] # NoRequest /\ request'[c].at = "answered"
    BY <2>1 DEF Answered, NoRequest
  <2>5. FrozenInv(c)'
    BY <1>2, <1>9, <2>1, <2>4 DEF LoopInv, FrozenInv, Frozen, restOfServer
  <2> QED
    BY <1>1, <1>4, <1>7, <2>3, <2>4, <2>5, RequestStep
<1>12. CASE ~ server_paused[s]
  <2>1. request'[c] = [at |-> "generating", server |-> s, prompt |-> response[c],
                       req_output |-> Fragment(Place(c), 0), cancel_event |-> FALSE, generated |-> FALSE]
    BY <1>7, <1>9, <1>12 DEF Generating
  <2>2. Streaming(c, s, 0, FALSE, FALSE)'
    BY <1>5, <1>8, <1>9, <1>10, <2>1 DEF Streaming, Streamed
  <2>3. RequestInv(c)'
    BY <1>3, <2>2 DEF RequestInv
  <2>4. request'[c] # NoRequest
    BY <2>1 DEF NoRequest
  <2>5. ~ Frozen
    BY <1>3, <1>12 DEF LoopsInv, PauseInv, AllTold
  <2>6. FrozenInv(c)'
    BY <1>2, <2>5 DEF LoopInv, FrozenInv, Frozen, restOfServer
  <2> QED
    BY <1>1, <1>4, <1>7, <2>3, <2>4, <2>6, RequestStep
<1> QED
  BY <1>11, <1>12

LEMMA GenerateStep ==
  ASSUME LoopsInv, NEW c \in Completions, _generate_step(c), UNCHANGED restOfServer
  PROVE  LoopsInv'
<1>1. /\ request[c].at = "generating" /\ ~ request[c].generated /\ server_paused' = server_paused
      /\ request = [d \in Completions |-> request[d]]
  BY DEF _generate_step, LoopsInv, LoopTypes
<1>2. /\ Place(c) \in Nat /\ Place(c) <= Length[c]
      /\ response[c] = Run(Place(c))
  BY ResponsePlace
<1>3. PICK s \in Servers, k \in Nat, e, g \in BOOLEAN : Streaming(c, s, k, e, g)
  BY <1>1, RequestForms
<1>4. PICK n \in Nat : n = Place(c)
  BY <1>2
<1>5. /\ request[c].prompt = Run(n) /\ request[c].req_output = Fragment(n, k)
      /\ g = FALSE /\ GoesOn(c, n + k) /\ Streamed(c, k)
      /\ request[c] = [at |-> "generating", server |-> s, prompt |-> response[c],
                       req_output |-> Fragment(n, k), cancel_event |-> e, generated |-> g]
  BY <1>1, <1>2, <1>3, <1>4 DEF Streaming
<1>6. PICK next \in Nat : next = n + k + 1 /\ next = n + (k + 1)
  BY <1>3, <1>4
<1>7. request' = [request EXCEPT ![c].req_output = Append(@, next), ![c].generated = LastToken(c, next)]
  <2>1. PICK text : text = request[c].prompt \o request[c].req_output
    OBVIOUS
  <2>2. PICK m \in Nat : m = n + k
    BY <1>3, <1>4
  <2>3. text = Run(m)
    BY <1>3, <1>4, <1>5, <2>1, <2>2, RunFragment
  <2>4. Len(text) = m /\ (m > 0 => text[m] = m) /\ (m = 0 => text = << >>)
    <3>1. Len(Run(m)) = m /\ (\A i \in 1..m : Run(m)[i] = i) /\ Run(0) = << >>
      BY <2>2, RunFacts
    <3>2. m > 0 => m \in 1..m
      BY <2>2
    <3> QED
      BY <2>3, <3>1, <3>2
  <2>5. m > 0 => text # << >>
    <3>1. Len(<< >>) = 0
      OBVIOUS
    <3> QED
      BY <2>2, <2>4, <3>1
  <2>6. (IF text = << >> THEN 1 ELSE text[Len(text)] + 1) = next
    BY <1>6, <2>2, <2>4, <2>5
  <2> QED
    BY <2>1, <2>6 DEF _generate_step
<1>8. PICK h \in BOOLEAN : h = LastToken(c, next)
  BY DEF LastToken
<1>9. request'[c] = [at |-> "generating", server |-> s, prompt |-> response[c],
                     req_output |-> Append(Fragment(n, k), next), cancel_event |-> e, generated |-> h]
  <2>1. request' = [request EXCEPT ![c].req_output = Append(@, next), ![c].generated = h]
    BY <1>7, <1>8
  <2>3. PICK p, f, f2 : p = response[c] /\ f = Fragment(n, k) /\ f2 = Append(f, next)
    OBVIOUS
  <2>2. request'[c] = [[request[c] EXCEPT !.req_output = f2] EXCEPT !.generated = h]
    BY <1>1, <1>5, <2>1, <2>3
  <2>4. request[c] = [at |-> "generating", server |-> s, prompt |-> p,
                      req_output |-> f, cancel_event |-> e, generated |-> g]
    BY <1>5, <2>3
  <2>5. request'[c] = [at |-> "generating", server |-> s, prompt |-> p,
                       req_output |-> f2, cancel_event |-> e, generated |-> h]
    <3>1. PICK r : r = request[c]
      OBVIOUS
    <3>2. PICK t : t = [r EXCEPT !.req_output = f2]
      OBVIOUS
    <3>3. t = [at |-> "generating", server |-> s, prompt |-> p,
               req_output |-> f2, cancel_event |-> e, generated |-> g]
      BY <2>4, <3>1, <3>2
    <3>4. [t EXCEPT !.generated = h]
          = [at |-> "generating", server |-> s, prompt |-> p,
             req_output |-> f2, cancel_event |-> e, generated |-> h]
      BY <3>3
    <3> QED
      BY <2>2, <3>1, <3>2, <3>4
  <2> QED
    BY <2>3, <2>5
<1>10. /\ response'[c] = response[c] /\ Place(c)' = Place(c)
       /\ request' = [request EXCEPT ![c] = request'[c]]
  BY <1>1, <1>7 DEF restOfServer, Place
<1>11. Append(Fragment(n, k), next) = Fragment(n, k + 1) /\ k + 1 \in Nat
  <2>1. n \in Nat /\ k \in Nat /\ k + 1 \in Nat
    BY <1>3, <1>4
  <2>2. Append(Fragment(n, k), n + k + 1) = Fragment(n, k + 1)
    BY <2>1, FragmentAppend
  <2> QED
    BY <1>6, <2>1, <2>2
<1>12. Streamed(c, k + 1)
  BY <1>3, <1>4, <1>5, TranscriptTypes DEF Streamed, Unobserved, GoesOn
<1>13. IF h THEN k + 1 > 0 /\ LastToken(c, n + (k + 1)) ELSE GoesOn(c, n + (k + 1))
  <2>1. n + (k + 1) = next /\ next <= Length[c] /\ Length[c] \in Nat /\ k + 1 > 0
    BY <1>3, <1>4, <1>6, <1>12, TranscriptTypes DEF Streamed
  <2>2. h <=> LastToken(c, next)
    BY <1>8
  <2>3. ~ LastToken(c, next) => GoesOn(c, next)
    BY <1>6, <2>1 DEF LastToken, GoesOn
  <2> QED
    BY <2>1, <2>2, <2>3
<1>14. request[c] # NoRequest /\ request'[c] # NoRequest
  BY <1>5, <1>9 DEF NoRequest
<1>15. Streaming(c, s, k + 1, e, h)'
  BY <1>4, <1>5, <1>9, <1>10, <1>11, <1>12, <1>13 DEF Streaming, Streamed
<1>16. RequestInv(c)'
  BY <1>3, <1>8, <1>11, <1>15 DEF RequestInv
<1>17. FrozenInv(c)'
  BY <1>1, NotFrozen DEF LoopsInv, LoopInv
<1> QED
  BY <1>1, <1>10, <1>14, <1>16, <1>17, RequestStep

LEMMA AnswerStep ==
  ASSUME LoopsInv, NEW c \in Completions, generate_for_partial(c), UNCHANGED restOfServer
  PROVE  LoopsInv'
<1>1. /\ request[c].at = "generating" /\ (request[c].generated \/ request[c].cancel_event)
      /\ request' = [request EXCEPT ![c] = Answered(@.req_output, ~@.generated)]
      /\ server_paused' = server_paused
      /\ request = [d \in Completions |-> request[d]]
  BY DEF generate_for_partial, LoopsInv, LoopTypes
<1>2. PICK s \in Servers, k \in Nat, e, g \in BOOLEAN : Streaming(c, s, k, e, g)
  BY <1>1, RequestForms
<1>3. /\ request[c].generated = g /\ request[c].cancel_event = e
      /\ request[c].req_output = Fragment(Place(c), k) /\ Streamed(c, k)
      /\ IF g THEN k > 0 /\ LastToken(c, Place(c) + k) ELSE GoesOn(c, Place(c) + k)
  BY <1>2 DEF Streaming
<1>4. PICK x \in BOOLEAN : x = ~ g
  OBVIOUS
<1>5. request'[c] = Answered(Fragment(Place(c), k), x)
  BY <1>1, <1>2, <1>3, <1>4
<1>6. /\ response'[c] = response[c] /\ Place(c)' = Place(c)
      /\ request' = [request EXCEPT ![c] = request'[c]]
  BY <1>1 DEF restOfServer, Place
<1>7. request[c] # NoRequest /\ request'[c] # NoRequest
  BY <1>1, <1>5 DEF NoRequest, Answered
<1>8. AnswerReady(c, k, x)'
  BY <1>3, <1>4, <1>5, <1>6 DEF AnswerReady, Streamed
<1>9. RequestInv(c)'
  BY <1>2, <1>4, <1>8 DEF RequestInv
<1>10. FrozenInv(c)'
  BY <1>1, NotFrozen DEF LoopsInv, LoopInv
<1> QED
  BY <1>1, <1>6, <1>7, <1>9, <1>10, RequestStep

-----------------------------------------------------------------------------
(* The loops' steps.                                                       *)

LEMMA SendStep ==
  ASSUME LoopsInv, NEW c \in Completions, NEW s \in Servers, loop_pc[c] \in {"single_turn", "top"},
         agent_state[c] # "PROCESSING_TOOLS", Send(c, s),
         loop_pc' = [loop_pc EXCEPT ![c] = "generate"],
         request_id_to_server' \in [Workers -> [Completions -> Servers \cup {0}]],
         UNCHANGED << server_paused, agent_state, response, response_mask, output, versions, written,
                      strays, cut, grown, rewards, cancellation_event, managerVars, controlVars >>
  PROVE  LoopsInv'
<1>1. /\ request'[c] = Sent(s, response[c]) /\ \A d \in Completions : d # c => request'[d] = request[d]
      /\ request' = [d \in Completions |-> request'[d]]
      /\ loop_pc'[c] = "generate" /\ \A d \in Completions : d # c => loop_pc'[d] = loop_pc[d]
      /\ loop_pc' \in [Completions -> PlacesOfLoop]
  BY DEF LoopsInv, LoopTypes, Send, PlacesOfLoop
<1>2. LoopTypes'
  BY <1>1 DEF LoopsInv, LoopTypes
<1>3. \A d \in Completions : d # c => SameLoop(d)
  BY <1>1 DEF SameLoop
<1>4. LoopInv(c)
  BY DEF LoopsInv
<1>5. TranscriptInv(c)'
  BY <1>4, TranscriptFrame DEF LoopInv
<1>6. RequestInv(c)'
  BY <1>1 DEF RequestInv
<1>7. ControlFlowInv(c)'
  <2>1. Continues(c)'
    BY <1>4, ContinuesFrame DEF LoopInv, ControlFlowInv
  <2>2. (HasOutput(c)' <=> HasOutput(c)) /\ ~ HasOutput(c)
    BY <1>4 DEF HasOutput, LoopInv, ControlFlowInv
  <2>3. request'[c] # NoRequest
    BY <1>1 DEF Sent, NoRequest
  <2> QED
    BY <1>1, <1>4, <2>1, <2>2, <2>3 DEF LoopInv, ControlFlowInv
<1>8. VersionsInv(c)'
  BY <1>1, <1>4 DEF LoopInv, VersionsInv, LastVersion, AtWork
<1>9. FrozenInv(c)'
  <2>1. loop_pc'[c] = "generate" /\ request'[c].at = "sent"
    BY <1>1 DEF Sent
  <2>2. FrozenInv(c) /\ loop_pc[c] # "idle"
    BY <1>4 DEF LoopInv
  <2> QED
    BY <2>1, <2>2 DEF FrozenInv, Frozen
<1>10. LoopInv(c)'
  BY <1>5, <1>6, <1>7, <1>8, <1>9 DEF LoopInv
<1> QED
  BY <1>2, <1>3, <1>10, OneLoop

LEMMA SingleTurnStep ==
  ASSUME LoopsInv, NEW c \in Completions, SingleTurn(c)
  PROVE  LoopsInv'
<1>1. PICK s \in Servers : Send(c, s)
  BY DEF SingleTurn, _choose_server
<1>2. LoopInv(c)
  BY DEF LoopsInv
<1>3. loop_pc[c] = "single_turn" /\ agent_state[c] # "PROCESSING_TOOLS"
  BY <1>2 DEF SingleTurn, LoopInv, ControlFlowInv, TranscriptInv
<1>4. request_id_to_server' \in [Workers -> [Completions -> Servers \cup {0}]]
  BY DEF SingleTurn, LoopsInv, LoopTypes
<1> QED
  BY <1>1, <1>3, <1>4, SendStep DEF SingleTurn

LEMMA GenerateCallStep ==
  ASSUME LoopsInv, NEW c \in Completions, Generate(c)
  PROVE  LoopsInv'
<1>1. PICK w \in Workers : w = Worker(c)
  BY SamplesAre DEF Worker, LoopsInv, LoopTypes
<1>2. request_id_to_server \in [Workers -> [Completions -> Servers \cup {0}]]
  BY DEF LoopsInv, LoopTypes
<1>3. PICK s \in Servers : Send(c, s) /\ request_id_to_server' = [request_id_to_server EXCEPT ![w][c] = s]
  <2>1. PICK known \in Servers \cup {0} : known = request_id_to_server[w][c]
    BY <1>2
  <2>2. PICK s \in _choose_server(known) :
          Send(c, s) /\ request_id_to_server' = [request_id_to_server EXCEPT ![w][c] = s]
    BY <1>1, <2>1 DEF Generate
  <2>3. s \in Servers
    BY <2>1, <2>2 DEF _choose_server
  <2> QED
    BY <2>2, <2>3
<1>4. request_id_to_server' \in [Workers -> [Completions -> Servers \cup {0}]]
  BY <1>2, <1>3
<1>5. loop_pc[c] = "top" /\ agent_state[c] # "PROCESSING_TOOLS"
  BY DEF Generate, NextState
<1> QED
  BY <1>3, <1>4, <1>5, SendStep DEF Generate

\* a loop that goes elsewhere without having done anything
LEMMA MoveStep ==
  ASSUME LoopsInv, NEW c \in Completions, NEW pc \in PlacesOfLoop,
         loop_pc' = [loop_pc EXCEPT ![c] = pc], LoopTypes', ControlFlowInv(c)',
         loop_pc[c] \notin {"idle", "returned"},
         pc # "idle", Frozen => pc = "returned",
         UNCHANGED << serverVars, agent_state, response, response_mask, versions, written,
                      strays, cut, grown, workerVars, managerVars, controlVars >>,
         \A d \in Completions : d # c => output'[d] = output[d] /\ rewards'[d] = rewards[d]
  PROVE  LoopsInv'
<1>1. /\ loop_pc'[c] = pc /\ \A d \in Completions : d # c => loop_pc'[d] = loop_pc[d]
  BY DEF LoopsInv, LoopTypes
<1>2. \A d \in Completions : d # c => SameLoop(d)
  BY <1>1 DEF SameLoop
<1>3. LoopInv(c)
  BY DEF LoopsInv
<1>4. TranscriptInv(c)' /\ RequestInv(c)'
  BY <1>3, TranscriptFrame, RequestFrame DEF LoopInv
<1>5. VersionsInv(c)'
  BY <1>1, <1>3 DEF LoopInv, VersionsInv, LastVersion, AtWork
<1>6. FrozenInv(c)'
  BY <1>1, <1>3 DEF LoopInv, FrozenInv, Frozen
<1>7. LoopInv(c)'
  BY <1>4, <1>5, <1>6 DEF LoopInv
<1> QED
  BY <1>2, <1>7, OneLoop

LEMMA CancelledStep ==
  ASSUME LoopsInv, NEW c \in Completions, Cancelled(c)
  PROVE  LoopsInv'
<1>1. /\ loop_pc[c] = "top" /\ loop_pc' = [loop_pc EXCEPT ![c] = "returned"]
      /\ output' = [output EXCEPT ![c] = "cancelled"]
      /\ UNCHANGED << serverVars, agent_state, response, response_mask,
                      versions, written, strays, cut, grown, rewards, workerVars, managerVars, controlVars >>
  BY DEF Cancelled
<1>2. LoopInv(c)
  BY DEF LoopsInv
<1>3. /\ loop_pc'[c] = "returned" /\ output'[c] = "cancelled"
      /\ \A d \in Completions : d # c => output'[d] = output[d]
  BY <1>1 DEF LoopsInv, LoopTypes
<1>4. LoopTypes'
  BY <1>1 DEF LoopsInv, LoopTypes, PlacesOfLoop
<1>5. Continues(c)' /\ ~ HasOutput(c)' /\ ~ HasOutput(c)
  BY <1>1, <1>2, <1>3, ContinuesFrame DEF LoopInv, ControlFlowInv, HasOutput
<1>6. ControlFlowInv(c)'
  BY <1>1, <1>2, <1>3, <1>5 DEF LoopInv, ControlFlowInv
<1> QED
  BY <1>1, <1>3, <1>4, <1>6, MoveStep DEF PlacesOfLoop

LEMMA CallToolStep ==
  ASSUME LoopsInv, NEW c \in Completions, CallTool(c)
  PROVE  LoopsInv'
<1>1. /\ loop_pc[c] = "top" /\ agent_state[c] = "PROCESSING_TOOLS"
      /\ loop_pc' = [loop_pc EXCEPT ![c] = "tool"]
      /\ UNCHANGED << serverVars, agent_state, response, response_mask, output,
                      versions, written, strays, cut, grown, rewards, workerVars, managerVars, controlVars >>
  BY DEF CallTool, NextState
<1>2. LoopInv(c)
  BY DEF LoopsInv
<1>3. loop_pc'[c] = "tool"
  BY <1>1 DEF LoopsInv, LoopTypes
<1>4. LoopTypes'
  BY <1>1 DEF LoopsInv, LoopTypes, PlacesOfLoop
<1>5. Continues(c)' /\ ~ HasOutput(c)' /\ ~ HasOutput(c) /\ c \in ToolAgents'
  BY <1>1, <1>2, ContinuesFrame DEF LoopInv, ControlFlowInv, HasOutput, ToolAgents
<1>6. ControlFlowInv(c)'
  BY <1>1, <1>2, <1>3, <1>5 DEF LoopInv, ControlFlowInv
<1>7. ~ Frozen
  <2>1. PICK w \in Workers : w = Worker(c)
    BY SamplesAre DEF Worker, LoopsInv, LoopTypes
  <2>2. ~ cancellation_event[w]
    BY <2>1 DEF CallTool, NextState
  <2> QED
    BY <2>1, <2>2 DEF LoopsInv, PauseInv, AllTold
<1> QED
  BY <1>1, <1>4, <1>6, <1>7, MoveStep DEF PlacesOfLoop

LEMMA ComputeScoreStep ==
  ASSUME LoopsInv, NEW c \in Completions, _compute_score(c)
  PROVE  LoopsInv'
<1>1. /\ loop_pc[c] = "postprocess" /\ loop_pc' = [loop_pc EXCEPT ![c] = "reward"]
      /\ UNCHANGED << serverVars, agent_state, response, response_mask, output,
                      versions, written, strays, cut, grown, rewards, workerVars, managerVars, controlVars >>
  BY DEF _compute_score
<1>2. LoopInv(c)
  BY DEF LoopsInv
<1>3. loop_pc'[c] = "reward"
  BY <1>1 DEF LoopsInv, LoopTypes
<1>4. LoopTypes'
  BY <1>1 DEF LoopsInv, LoopTypes, PlacesOfLoop
<1>5. Whole(c)' /\ ~ HasOutput(c)' /\ ~ HasOutput(c)
  BY <1>1, <1>2, ContinuesFrame DEF LoopInv, ControlFlowInv, HasOutput
<1>6. ControlFlowInv(c)'
  BY <1>1, <1>2, <1>3, <1>5 DEF LoopInv, ControlFlowInv
<1>7. ~ Frozen
  BY <1>1, <1>2 DEF LoopInv, FrozenInv
<1> QED
  BY <1>1, <1>4, <1>6, <1>7, MoveStep DEF PlacesOfLoop

LEMMA CompletedStep ==
  ASSUME LoopsInv, NEW c \in Completions, Completed(c)
  PROVE  LoopsInv'
<1>1. /\ loop_pc[c] = "reward" /\ loop_pc' = [loop_pc EXCEPT ![c] = "returned"]
      /\ output' = [output EXCEPT ![c] = "completed"]
      /\ rewards' = [rewards EXCEPT ![c] = @ + 1]
      /\ UNCHANGED << serverVars, agent_state, response, response_mask,
                      versions, written, strays, cut, grown, workerVars, managerVars, controlVars >>
  BY DEF Completed
<1>2. LoopInv(c)
  BY DEF LoopsInv
<1>3. /\ loop_pc'[c] = "returned" /\ output'[c] = "completed" /\ rewards'[c] = rewards[c] + 1
      /\ \A d \in Completions : d # c => output'[d] = output[d] /\ rewards'[d] = rewards[d]
  BY <1>1 DEF LoopsInv, LoopTypes
<1>4. LoopTypes'
  BY <1>1 DEF LoopsInv, LoopTypes, PlacesOfLoop
<1>5. Whole(c)' /\ HasOutput(c)' /\ ~ HasOutput(c) /\ rewards'[c] = 1
  BY <1>1, <1>2, <1>3, ContinuesFrame DEF LoopInv, ControlFlowInv, HasOutput
<1>6. ControlFlowInv(c)'
  BY <1>1, <1>2, <1>3, <1>5 DEF LoopInv, ControlFlowInv
<1> QED
  BY <1>1, <1>3, <1>4, <1>6, MoveStep DEF PlacesOfLoop

LEMMA PendingStep ==
  ASSUME LoopsInv, NEW c \in Completions, _handle_pending_state(c)
  PROVE  LoopsInv'
<1>1. /\ loop_pc[c] = "top" /\ agent_state[c] = "PENDING"
      /\ agent_state' = [agent_state EXCEPT ![c] = "GENERATING"]
      /\ UNCHANGED << serverVars, loop_pc, response, response_mask, output,
                      versions, written, strays, cut, grown, rewards, workerVars, managerVars, controlVars >>
  BY DEF _handle_pending_state, NextState
<1>2. LoopInv(c)
  BY DEF LoopsInv
<1>3. agent_state'[c] = "GENERATING" /\ \A d \in Completions : d # c => agent_state'[d] = agent_state[d]
  BY <1>1 DEF LoopsInv, LoopTypes
<1>4. LoopTypes'
  BY <1>1 DEF LoopsInv, LoopTypes
<1>5. c \in ToolAgents /\ Continues(c) /\ ~ HasOutput(c)
  BY <1>1, <1>2 DEF LoopInv, ControlFlowInv
<1>6. Continues(c)' /\ ~ HasOutput(c)' /\ c \in ToolAgents'
  BY <1>1, <1>3, <1>5 DEF Continues, HasOutput, ToolAgents, Place
<1>7. ControlFlowInv(c)'
  BY <1>1, <1>2, <1>3, <1>5, <1>6 DEF LoopInv, ControlFlowInv
<1>8. TranscriptInv(c)' /\ RequestInv(c)'
  BY <1>1, <1>2, <1>5, TranscriptFrame, RequestFrame DEF LoopInv
<1>9. VersionsInv(c)' /\ FrozenInv(c)'
  BY <1>1, <1>2 DEF LoopInv, VersionsInv, LastVersion, AtWork, FrozenInv, Frozen
<1>10. LoopInv(c)'
  BY <1>7, <1>8, <1>9 DEF LoopInv
<1>11. \A d \in Completions : d # c => SameLoop(d)
  BY <1>1, <1>3 DEF SameLoop
<1> QED
  BY <1>1, <1>4, <1>10, <1>11, OneLoop

\* the response after the tokens of an answer
LEMMA AppendedTokens ==
  ASSUME LoopsInv, NEW c \in Completions, NEW k \in Nat, NEW x \in BOOLEAN, AnswerReady(c, k, x),
         AppendTokens(c, request[c].token_ids, x)
  PROVE  \E m \in Nat :
           /\ m = IF c \in ToolAgents \/ Place(c) + k <= ResponseLength THEN Place(c) + k ELSE ResponseLength
           /\ m <= Length[c] /\ response'[c] = Run(m) /\ response_mask'[c] = Mask(c, m)
           /\ Place(c)' = m /\ (c \notin ToolAgents => Unobserved(c, 0, m))
           /\ cut'[c] = (IF x THEN m ELSE cut[c])
           /\ grown' = IF k = 0 THEN grown ELSE grown \cup {c}
<1>1. PICK n \in Nat : n = Place(c) /\ response[c] = Run(n) /\ n = Len(response[c])
  BY ResponsePlace DEF Place
<1>2. /\ request[c].token_ids = Fragment(n, k) /\ n + k <= Length[c] /\ Unobserved(c, n, k)
  BY <1>1 DEF AnswerReady, Answered, Streamed
<1>3. LoopInv(c) /\ ResponseLength \in Nat
  BY AgentLoopsAssumption DEF LoopsInv
<1>4. response_mask[c] = Mask(c, n) /\ (c \notin ToolAgents => Unobserved(c, 0, n))
  BY <1>1, <1>3 DEF LoopInv, TranscriptInv
<1>5. PICK t \in Nat : t = n + k
  BY <1>1
<1>6. PICK m \in Nat : m = IF c \in ToolAgents \/ t <= ResponseLength THEN t ELSE ResponseLength
  BY <1>3, <1>5
<1>7. m <= t /\ t <= Length[c] /\ m <= Length[c]
  BY <1>2, <1>3, <1>5, <1>6, TranscriptTypes
<1>8. response[c] \o request[c].token_ids = Run(t)
  BY <1>1, <1>2, <1>5, RunFragment
<1>9. Len(Run(t)) = t /\ Len(Run(m)) = m /\ Len(Fragment(n, k)) = k
  BY <1>1, <1>5, <1>6, RunFacts, FragmentFacts
<1>10. Truncated(c, Run(t)) = Run(m)
  <2>1. CASE c \in ToolAgents \/ t <= ResponseLength
    BY <1>6, <1>9, <2>1 DEF Truncated
  <2>2. CASE ~ (c \in ToolAgents \/ t <= ResponseLength)
    <3>1. m = ResponseLength /\ m <= t /\ Truncated(c, Run(t)) = SubSeq(Run(t), 1, m)
      BY <1>6, <1>7, <1>9, <2>2 DEF Truncated
    <3> QED
      BY <1>5, <1>6, <3>1, RunCut
  <2> QED
    BY <2>1, <2>2
<1>11. /\ response' = [response EXCEPT ![c] = Run(m)]
       /\ response_mask' = [response_mask EXCEPT ![c] =
            IF c \in ToolAgents THEN @ \o Ones(k) ELSE Ones(m)]
  BY <1>2, <1>8, <1>9, <1>10 DEF AppendTokens
<1>12. /\ response'[c] = Run(m) /\ Place(c)' = m
       /\ response_mask'[c] = IF c \in ToolAgents THEN Mask(c, n) \o Ones(k) ELSE Ones(m)
  BY <1>4, <1>9, <1>11 DEF LoopsInv, LoopTypes, Place
<1>13. c \notin ToolAgents => Unobserved(c, 0, m)
  <2> SUFFICES ASSUME c \notin ToolAgents, NEW o \in Observations[c]
               PROVE  ~ (0 < o /\ o <= 0 + m)
    BY DEF Unobserved
  <2>1. ~ (0 < o /\ o <= 0 + n) /\ ~ (n < o /\ o <= n + k)
    BY <1>2, <1>4 DEF Unobserved
  <2> QED
    BY <1>1, <1>5, <1>6, <1>7, <2>1, TranscriptTypes
<1>14. response_mask'[c] = Mask(c, m)
  <2>1. CASE c \in ToolAgents
    <3>1. Mask(c, n) \o Ones(k) = Mask(c, n + k)
      BY <1>1, <1>2, MaskOnes
    <3> QED
      BY <1>5, <1>6, <1>12, <2>1, <3>1
  <2>2. CASE c \notin ToolAgents
    BY <1>6, <1>12, <1>13, <2>2, OnesMask
  <2> QED
    BY <2>1, <2>2
<1>15. cut'[c] = IF x THEN m ELSE cut[c]
  BY <1>2, <1>8, <1>9, <1>10 DEF AppendTokens, LoopsInv, LoopTypes
<1>16. grown' = IF k = 0 THEN grown ELSE grown \cup {c}
  <2>1. Fragment(n, k) = << >> <=> k = 0
    BY <1>1, <1>9, FragmentFacts
  <2> QED
    BY <1>2, <2>1 DEF AppendTokens
<1> QED
  BY <1>1, <1>5, <1>6, <1>7, <1>12, <1>13, <1>14, <1>15, <1>16

\* a call that is found is the last thing in the response
LEMMA FoundCall ==
  ASSUME NEW c \in Completions, NEW n \in Nat, NEW k \in Nat, Unobserved(c, n, k),
         extract_tool_calls(c, Fragment(n, k))
  PROVE  n + k + 1 \in Observations[c]
<1>1. PICK o \in Observations[c] :
        {o - 2, o - 1} \subseteq { Fragment(n, k)[i] : i \in DOMAIN Fragment(n, k) }
  BY DEF extract_tool_calls
<1>2. DOMAIN Fragment(n, k) = 1..k /\ \A i \in 1..k : Fragment(n, k)[i] = n + i
  BY DEF Fragment
<1>3. PICK i \in 1..k : o - 1 = n + i
  BY <1>1, <1>2
<1>4. o \in Nat /\ ~ (n < o /\ o <= n + k)
  BY TranscriptTypes DEF Unobserved
<1>5. o = n + k + 1
  BY <1>3, <1>4
<1> QED
  BY <1>5

\* a call that is not found was split: its first token is older
LEMMA MissedCall ==
  ASSUME NEW c \in Completions, NEW n \in Nat, NEW k \in Nat, k > 0,
         n + k + 1 \in Observations[c], ~ extract_tool_calls(c, Fragment(n, k))
  PROVE  k = 1 /\ n > 0 /\ n \notin Observations[c]
<1>1. PICK o \in Observations[c] : o = n + k + 1
  OBVIOUS
<1>2. o \in Nat /\ 3 <= o /\ o - 2 \notin Observations[c]
  BY TranscriptTypes
<1>3. DOMAIN Fragment(n, k) = 1..k /\ \A i \in 1..k : Fragment(n, k)[i] = n + i
  BY DEF Fragment
<1>4. k = 1
  <2> SUFFICES ASSUME k # 1 PROVE FALSE
    OBVIOUS
  <2>1. k \in 1..k /\ k - 1 \in 1..k /\ o - 1 = n + k /\ o - 2 = n + (k - 1)
    BY <1>1
  <2>2. o - 1 = Fragment(n, k)[k] /\ o - 2 = Fragment(n, k)[k - 1]
    BY <1>3, <2>1
  <2>3. {o - 2, o - 1} \subseteq { Fragment(n, k)[i] : i \in DOMAIN Fragment(n, k) }
    BY <1>3, <2>1, <2>2
  <2> QED
    BY <2>3 DEF extract_tool_calls
<1>5. o - 2 = n
  BY <1>1, <1>4
<1> QED
  BY <1>2, <1>4, <1>5

LEMMA HandleAnswerStep ==
  ASSUME LoopsInv, NEW c \in Completions, HandleAnswer(c)
  PROVE  LoopsInv'
<1>1. /\ loop_pc[c] = "generate" /\ request[c].at = "answered"
      /\ request' = [request EXCEPT ![c] = NoRequest]
      /\ AppendTokens(c, request[c].token_ids, request[c].is_cancel)
      /\ UNCHANGED << server_paused, versions, strays, rewards, workerVars, managerVars, controlVars >>
  BY DEF HandleAnswer
<1>2. PICK k \in Nat, x \in BOOLEAN : AnswerReady(c, k, x)
  BY <1>1, RequestForms
<1>3. PICK n \in Nat : n = Place(c) /\ n = Len(response[c])
  BY ResponsePlace DEF Place
<1>4. /\ request[c].token_ids = Fragment(n, k) /\ request[c].is_cancel = x
      /\ n + k <= Length[c] /\ Unobserved(c, n, k)
      /\ IF x THEN GoesOn(c, n + k) ELSE k > 0 /\ LastToken(c, n + k)
  BY <1>2, <1>3 DEF AnswerReady, Answered, Streamed
<1>22. AppendTokens(c, request[c].token_ids, x) /\ Place(c) = n
  BY <1>1, <1>3, <1>4
<1>5. PICK m \in Nat :
        /\ m = IF c \in ToolAgents \/ n + k <= ResponseLength THEN n + k ELSE ResponseLength
        /\ m <= Length[c] /\ response'[c] = Run(m) /\ response_mask'[c] = Mask(c, m)
        /\ Place(c)' = m /\ (c \notin ToolAgents => Unobserved(c, 0, m))
        /\ cut'[c] = (IF x THEN m ELSE cut[c])
        /\ grown' = IF k = 0 THEN grown ELSE grown \cup {c}
  BY <1>2, <1>22, AppendedTokens
<1>6. LoopInv(c) /\ ResponseLength \in Nat
  BY AgentLoopsAssumption DEF LoopsInv
<1>7. /\ agent_state[c] # "PROCESSING_TOOLS" /\ Continues(c) /\ ~ HasOutput(c)
      /\ c \notin ToolAgents => agent_state[c] = "PENDING"
      /\ n < ResponseLength
      /\ c \in ToolAgents => n = 0 \/ n \in Observations[c] \/ cut[c] = n
  BY <1>1, <1>3, <1>6 DEF LoopInv, ControlFlowInv, TranscriptInv, Continues
<1> DEFINE full == n + k >= ResponseLength
           tool == c \in ToolAgents /\ ~ full /\ ~ x /\ extract_tool_calls(c, Fragment(n, k))
           interrupted == x /\ ~ full
<1>8. /\ loop_pc' = [loop_pc EXCEPT ![c] =
           IF tool \/ (interrupted /\ c \in ToolAgents) THEN "top"
           ELSE IF interrupted THEN "returned" ELSE "postprocess"]
      /\ output' = [output EXCEPT ![c] = IF interrupted /\ c \notin ToolAgents THEN "cancelled" ELSE @]
      /\ agent_state' = [agent_state EXCEPT ![c] = IF tool THEN "PROCESSING_TOOLS" ELSE @]
  <2>1. Len(Fragment(n, k)) = k
    BY FragmentFacts
  <2> QED
    BY <1>3, <1>4, <2>1 DEF HandleAnswer
<1>9. /\ loop_pc'[c] = IF tool \/ (interrupted /\ c \in ToolAgents) THEN "top"
                       ELSE IF interrupted THEN "returned" ELSE "postprocess"
      /\ output'[c] = IF interrupted /\ c \notin ToolAgents THEN "cancelled" ELSE output[c]
      /\ agent_state'[c] = IF tool THEN "PROCESSING_TOOLS" ELSE agent_state[c]
      /\ request'[c] = NoRequest
  BY <1>1, <1>8 DEF LoopsInv, LoopTypes
<1>10. (c \in ToolAgents' <=> c \in ToolAgents) /\ status' = status
  BY <1>1 DEF ToolAgents
<1>11. ASSUME tool
       PROVE  Continues(c)'
  <2>1. m = n + k /\ n + k + 1 \in Observations[c] /\ m < ResponseLength
    BY <1>4, <1>5, <1>6, <1>11, FoundCall
  <2> QED
    BY <1>5, <1>9, <1>10, <1>11, <2>1 DEF Continues
<1>12. ASSUME interrupted
       PROVE  Continues(c)'
  <2>1. m = n + k /\ GoesOn(c, m) /\ m < ResponseLength /\ cut'[c] = m
    BY <1>4, <1>5, <1>6, <1>12
  <2>2. agent_state'[c] # "PROCESSING_TOOLS"
    BY <1>7, <1>9, <1>12
  <2> QED
    BY <1>5, <1>10, <2>1, <2>2 DEF Continues
<1>13. ASSUME ~ tool, ~ interrupted
       PROVE  Whole(c)'
  <2>1. CASE full
    <3>1. m >= ResponseLength
      BY <1>5, <1>6, <2>1
    <3> QED
      BY <1>5, <3>1 DEF Whole
  <2>2. CASE ~ full
    <3>1. m = n + k /\ k > 0 /\ LastToken(c, m) /\ ~ x
      BY <1>4, <1>5, <1>6, <1>13, <2>2
    <3>2. CASE m = Length[c]
      BY <1>5, <3>2 DEF Whole
    <3>3. CASE m + 1 \in Observations[c]
      <4>1. ASSUME c \in ToolAgents
            PROVE  cut'[c] = m - 1
        <5>1. ~ extract_tool_calls(c, Fragment(n, k))
          BY <1>13, <2>2, <4>1
        <5>2. k = 1 /\ n > 0 /\ n \notin Observations[c]
          BY <3>1, <3>3, <5>1, MissedCall
        <5> QED
          BY <1>5, <1>7, <3>1, <4>1, <5>2
      <4> QED
        BY <1>5, <1>10, <3>3, <4>1 DEF Whole
    <3> QED
      BY <3>1, <3>2, <3>3 DEF LastToken
  <2> QED
    BY <2>1, <2>2
<1>14. TranscriptInv(c)'
  <2>1. m \in 0..Length[c]
    BY <1>5, TranscriptTypes
  <2>2. c \notin ToolAgents => agent_state'[c] = "PENDING" /\ Unobserved(c, 0, m)
    BY <1>5, <1>7, <1>9
  <2> QED
    BY <1>5, <1>10, <2>1, <2>2 DEF TranscriptInv
<1>15. RequestInv(c)'
  BY <1>9 DEF RequestInv
<1>16. ControlFlowInv(c)'
  <2>1. ~ HasOutput(c)' /\ output'[c] # "completed"
    BY <1>7, <1>9 DEF HasOutput
  <2>2. rewards'[c] = 0 /\ status[SampleOf(c)] = "running"
    BY <1>1, <1>6, <1>7 DEF LoopInv, ControlFlowInv
  <2>3. loop_pc'[c] \in {"top", "returned", "postprocess"}
    BY <1>9
  <2>4. loop_pc'[c] = "top" => c \in ToolAgents' /\ Continues(c)'
    BY <1>9, <1>10, <1>11, <1>12
  <2>5. loop_pc'[c] = "returned" => output'[c] = "cancelled" /\ Continues(c)'
    BY <1>9, <1>12
  <2>6. loop_pc'[c] = "postprocess" => Whole(c)'
    BY <1>9, <1>12, <1>13
  <2> QED
    BY <1>9, <1>10, <2>1, <2>2, <2>3, <2>4, <2>5, <2>6 DEF ControlFlowInv
<1>17. VersionsInv(c)'
  <2>1. VersionsInv(c) /\ AtWork(c) /\ versions[c].end \in Nat /\ versions[c].start \in Nat
    BY <1>1, <1>6 DEF LoopInv, AtWork, LoopsInv, LoopTypes
  <2>2. version \in Nat /\ versions[c].start <= version /\ version <= LastVersion(c)
    BY <2>1 DEF VersionsInv, LastVersion, LoopsInv, PauseInv
  <2>3. LastVersion(c)' = LastVersion(c)
    BY <1>1 DEF LastVersion
  <2>4. written'[c] \subseteq written[c] \cup {version}
    BY <1>1 DEF AppendTokens, LoopsInv, LoopTypes
  <2>5. loop_pc'[c] # "idle"
    BY <1>9
  <2> QED
    BY <1>1, <2>1, <2>2, <2>3, <2>4, <2>5 DEF VersionsInv, AtWork
<1>20. FrozenInv(c)'
  <2>1. FrozenInv(c) /\ Frozen' = Frozen /\ loop_pc'[c] # "idle" /\ request'[c].at = "none"
    BY <1>1, <1>6, <1>9 DEF LoopInv, Frozen, NoRequest
  <2>2. CASE ~ Frozen
    BY <2>1, <2>2 DEF FrozenInv
  <2>3. CASE Frozen
    <3>1. request[c] = Answered(<< >>, TRUE)
      BY <1>1, <2>1, <2>3 DEF FrozenInv
    <3>2. Fragment(n, k) = << >> /\ x
      <4>1. Answered(<< >>, TRUE).token_ids = << >> /\ Answered(<< >>, TRUE).is_cancel = TRUE
        BY DEF Answered
      <4> QED
        BY <1>4, <3>1, <4>1
    <3>3. k = 0
      BY <3>2, FragmentFacts
    <3>4. interrupted /\ grown' = grown
      BY <1>5, <1>6, <1>7, <3>2, <3>3
    <3>5. loop_pc'[c] \in {"top", "returned"}
      BY <1>9, <3>4
    <3> QED
      BY <2>1, <2>3, <3>4, <3>5 DEF FrozenInv
  <2> QED
    BY <2>2, <2>3
<1>18. LoopInv(c)'
  BY <1>14, <1>15, <1>16, <1>17, <1>20 DEF LoopInv
<1> HIDE DEF full, tool, interrupted
<1>19. LoopTypes'
  <2>1. output' = [output EXCEPT ![c] = output'[c]] /\ output'[c] \in {"none", "cancelled", "completed"}
    BY <1>8, <1>9 DEF LoopsInv, LoopTypes
  <2>2. agent_state' \in [Completions -> {"PENDING", "GENERATING", "PROCESSING_TOOLS"}]
    BY <1>8 DEF LoopsInv, LoopTypes
  <2>3. loop_pc' \in [Completions -> PlacesOfLoop]
    BY <1>8 DEF LoopsInv, LoopTypes, PlacesOfLoop
  <2>4. /\ response' = [d \in Completions |-> response'[d]]
        /\ response_mask' = [d \in Completions |-> response_mask'[d]]
        /\ written' = [d \in Completions |-> written'[d]]
        /\ grown' \subseteq Completions
    BY <1>1 DEF AppendTokens, LoopsInv, LoopTypes
  <2>7. cut' \in [Completions -> Nat]
    <3>1. cut' = [cut EXCEPT ![c] = cut'[c]] /\ cut'[c] \in Nat
      BY <1>1, <1>5 DEF AppendTokens, LoopsInv, LoopTypes
    <3> QED
      BY <3>1 DEF LoopsInv, LoopTypes
  <2>5. request' = [d \in Completions |-> request'[d]]
    BY <1>1 DEF LoopsInv, LoopTypes
  <2>6. output' \in [Completions -> {"none", "cancelled", "completed"}]
    BY <2>1 DEF LoopsInv, LoopTypes
  <2> QED
    BY <1>1, <2>2, <2>3, <2>4, <2>5, <2>6, <2>7 DEF LoopsInv, LoopTypes
<1>21. \A d \in Completions : d # c => SameLoop(d)
  BY <1>1, <1>8 DEF SameLoop, AppendTokens, LoopsInv, LoopTypes
<1> QED
  BY <1>1, <1>18, <1>19, <1>21, OneLoop

\* the transcript goes on behind a tool's answer
LEMMA BehindObservation ==
  ASSUME NEW c \in Completions, NEW n \in Nat, n + 1 \in Observations[c]
  PROVE  n + 1 < Length[c] /\ n + 2 \notin Observations[c] /\ n >= 2
<1>1. PICK o \in Observations[c] : o = n + 1
  OBVIOUS
<1>2. ASSUME n + 2 \in Observations[c]
      PROVE  FALSE
  <2>1. PICK q \in Observations[c] : q = n + 2
    BY <1>2
  <2>2. q - 1 = n + 1
    BY <2>1
  <2> QED
    BY <2>1, <2>2, TranscriptTypes
<1> QED
  BY <1>1, <1>2, TranscriptTypes

LEMMA ToolAnswerStep ==
  ASSUME LoopsInv, NEW c \in Completions, _handle_processing_tools_state(c)
  PROVE  LoopsInv'
<1>1. /\ loop_pc[c] = "tool"
      /\ UNCHANGED << serverVars, output, versions, written, strays, cut, rewards, workerVars,
                      managerVars, controlVars >>
  BY DEF _handle_processing_tools_state
<1>2. PICK n \in Nat : n = Place(c) /\ n = Len(response[c]) /\ response[c] = Run(n) /\ n <= Length[c]
  BY ResponsePlace DEF Place
<1>3. LoopInv(c) /\ ResponseLength \in Nat
  BY AgentLoopsAssumption DEF LoopsInv
<1>4. /\ agent_state[c] = "PROCESSING_TOOLS" /\ c \in ToolAgents /\ n + 1 \in Observations[c]
      /\ ~ HasOutput(c) /\ response_mask[c] = Mask(c, n) /\ request[c] = NoRequest
      /\ rewards[c] = 0 /\ status[SampleOf(c)] = "running"
  BY <1>1, <1>2, <1>3 DEF LoopInv, ControlFlowInv, TranscriptInv, Continues
<1>5. n + 1 < Length[c] /\ n + 2 \notin Observations[c] /\ n >= 2 /\ Length[c] \in Nat
  BY <1>2, <1>4, BehindObservation, TranscriptTypes
<1>6. (c \in ToolAgents' <=> c \in ToolAgents) /\ (HasOutput(c)' <=> HasOutput(c))
  BY <1>1 DEF ToolAgents, HasOutput
<1>7. VersionsInv(c) /\ RequestInv(c) /\ ~ Frozen
  BY <1>1, <1>3 DEF LoopInv, FrozenInv
<1>8. CASE n + 1 >= ResponseLength
  <2>1. /\ loop_pc' = [loop_pc EXCEPT ![c] = "postprocess"]
        /\ UNCHANGED << agent_state, response, response_mask, grown >>
    BY <1>2, <1>8 DEF _handle_processing_tools_state
  <2>2. loop_pc'[c] = "postprocess"
    BY <2>1 DEF LoopsInv, LoopTypes
  <2>3. LoopTypes'
    BY <1>1, <2>1 DEF LoopsInv, LoopTypes, PlacesOfLoop
  <2>4. Whole(c)'
    BY <1>2, <1>4, <1>8, <2>1 DEF Whole, Place
  <2>5. ControlFlowInv(c)'
    BY <1>1, <1>4, <1>6, <2>2, <2>4 DEF ControlFlowInv
  <2> QED
    BY <1>1, <1>7, <2>1, <2>3, <2>5, MoveStep DEF PlacesOfLoop
<1>9. CASE ~ n + 1 >= ResponseLength
  <2>1. /\ loop_pc' = [loop_pc EXCEPT ![c] = "top"]
        /\ agent_state' = [agent_state EXCEPT ![c] = "GENERATING"]
        /\ response' = [response EXCEPT ![c] = Append(@, @[Len(@)] + 1)]
        /\ response_mask' = [response_mask EXCEPT ![c] = Append(@, 0)]
        /\ grown' = grown \cup {c}
    BY <1>2, <1>9 DEF _handle_processing_tools_state
  <2>2. PICK m \in Nat : m = n + 1
    BY <1>2
  <2>3. response[c][Len(response[c])] + 1 = m
    <3>1. \A i \in 1..n : Run(n)[i] = i
      BY <1>2, RunFacts
    <3>2. n \in 1..n
      BY <1>2, <1>5
    <3> QED
      BY <1>2, <2>2, <3>1, <3>2
  <2>4. /\ loop_pc'[c] = "top" /\ agent_state'[c] = "GENERATING"
        /\ response'[c] = Append(Run(n), m) /\ response_mask'[c] = Append(Mask(c, n), 0)
    BY <1>2, <1>4, <2>1, <2>3 DEF LoopsInv, LoopTypes
  <2>5. response'[c] = Run(m) /\ response_mask'[c] = Mask(c, m)
    <3>1. Append(Run(n), n + 1) = Run(n + 1) /\ Append(Mask(c, n), 0) = Mask(c, n + 1)
      BY <1>2, <1>4, RunAppend, MaskAppend
    <3> QED
      BY <2>2, <2>4, <3>1
  <2>6. Place(c)' = m
    BY <2>2, <2>5, RunFacts DEF Place
  <2>7. TranscriptInv(c)'
    BY <1>4, <1>5, <1>6, <2>2, <2>5, <2>6 DEF TranscriptInv
  <2>8. Continues(c)'
    <3>1. m < ResponseLength /\ m \in Observations[c] /\ m < Length[c] /\ m + 1 \notin Observations[c]
      <4>1. m + 1 = n + 2
        BY <2>2
      <4> QED
        BY <1>3, <1>4, <1>5, <1>9, <2>2, <4>1
    <3> QED
      BY <2>4, <2>6, <3>1 DEF Continues, GoesOn
  <2>9. RequestInv(c)'
    BY <1>1, <1>4 DEF RequestInv
  <2>10. ControlFlowInv(c)'
    BY <1>1, <1>4, <1>6, <2>4, <2>8 DEF ControlFlowInv
  <2>11. VersionsInv(c)' /\ FrozenInv(c)'
    BY <1>1, <1>7, <2>4 DEF VersionsInv, LastVersion, AtWork, FrozenInv, Frozen
  <2>12. LoopInv(c)'
    BY <2>7, <2>9, <2>10, <2>11 DEF LoopInv
  <2>13. LoopTypes'
    BY <1>1, <2>1 DEF LoopsInv, LoopTypes, PlacesOfLoop
  <2>14. \A d \in Completions : d # c => SameLoop(d)
    BY <1>1, <2>1 DEF SameLoop, LoopsInv, LoopTypes
  <2> QED
    BY <1>1, <2>12, <2>13, <2>14, OneLoop
<1> QED
  BY <1>8, <1>9

LEMMA LoopStepKeeps ==
  ASSUME LoopsInv, NEW c \in Completions, LoopStep(c)
  PROVE  LoopsInv'
  BY SingleTurnStep, CancelledStep, PendingStep, GenerateCallStep, HandleAnswerStep, CallToolStep,
     ToolAnswerStep, ComputeScoreStep, CompletedStep DEF LoopStep

-----------------------------------------------------------------------------
(* The samples.                                                            *)

LEMMA StartSampleStep ==
  ASSUME LoopsInv, NEW s \in Samples, generate_single_sample_async(s)
  PROVE  LoopsInv'
<1>1. /\ status[s] \in {"new", "interrupted"}
      /\ status' = [status EXCEPT ![s] = "running"]
      /\ worker_of' = [worker_of EXCEPT ![s] = next_worker]
      /\ next_worker' = (next_worker % NumWorkers) + 1
      /\ UNCHANGED << serverVars, agent_state, response, response_mask, output, written, cut,
                      grown, rewards, workerVars, agent_name, controlVars >>
  BY DEF generate_single_sample_async
<1>2. LoopTypes /\ PauseInv /\ version \in Nat
  BY DEF LoopsInv, PauseInv
<1>3. ASSUME NEW c \in Completions
      PROVE  /\ loop_pc'[c] = IF c \notin Members[s] THEN loop_pc[c]
                              ELSE IF HasOutput(c) THEN "returned"
                              ELSE IF c \in ToolAgents THEN "top" ELSE "single_turn"
             /\ versions'[c] = IF c \notin Members[s] \/ HasOutput(c) THEN versions[c]
                               ELSE IF output[c] = "none" THEN [start |-> version, end |-> version]
                               ELSE [versions[c] EXCEPT !.end = version]
             /\ c \in strays' <=>
                  IF c \notin Members[s] \/ HasOutput(c) THEN c \in strays ELSE control = "transfer"
             /\ loop_pc'[c] \in PlacesOfLoop /\ versions'[c] \in [start : Nat, end : Nat]
             /\ versions[c].start \in Nat /\ versions[c].end \in Nat
             /\ loop_pc[c] \in PlacesOfLoop /\ output[c] \in {"none", "cancelled", "completed"}
  <2>1. c \in Restarted(s) <=> c \in Members[s] /\ ~ HasOutput(c)
    BY DEF Restarted
  <2> QED
    BY <1>2, <2>1 DEF generate_single_sample_async, LoopTypes, PlacesOfLoop
<1>4. LoopTypes'
  <2>1. /\ loop_pc' = [c \in Completions |-> loop_pc'[c]] /\ versions' = [c \in Completions |-> versions'[c]]
    BY DEF generate_single_sample_async
  <2>2. loop_pc' \in [Completions -> PlacesOfLoop] /\ versions' \in [Completions -> [start : Nat, end : Nat]]
    BY <1>3, <2>1
  <2>3. next_worker' \in Workers
    BY <1>1, <1>2, AgentLoopsAssumption DEF LoopTypes, Workers
  <2>4. worker_of' \in [Samples -> Workers]
    BY <1>1, <1>2 DEF LoopTypes
  <2>5. status' \in [Samples -> {"new", "running", "interrupted", "finished"}]
    BY <1>1, <1>2 DEF LoopTypes
  <2>6. strays' \subseteq Completions
    BY <1>2, SamplesAre DEF generate_single_sample_async, LoopTypes, Restarted
  <2> QED
    BY <1>1, <1>2, <2>2, <2>3, <2>4, <2>5, <2>6 DEF LoopTypes
<1>5. PauseInv'
  BY <1>1, <1>2 DEF PauseInv, AllTold, Frozen, Everyone, ToWorker, ToServer, Workers
<1>6. ASSUME NEW c \in Completions, c \notin Members[s]
      PROVE  LoopInv(c)'
  <2>1. SampleOf(c) # s /\ SampleOf(c) \in Samples
    BY <1>6, SamplesAre
  <2>2. status'[SampleOf(c)] = status[SampleOf(c)]
    BY <1>1, <1>2, <2>1 DEF LoopTypes
  <2>3. SameLoop(c) /\ LoopInv(c)
    BY <1>1, <1>3, <1>6 DEF SameLoop, LoopsInv
  <2> QED
    BY <1>1, <2>2, <2>3, LoopFrame
<1>7. ASSUME NEW c \in Completions, c \in Members[s]
      PROVE  LoopInv(c)'
  <2>1. SampleOf(c) = s /\ status[s] # "running" /\ status'[SampleOf(c)] = "running"
    BY <1>1, <1>2, <1>7, SamplesAre DEF LoopTypes
  <2>2. LoopInv(c)
    BY DEF LoopsInv
  <2>3. loop_pc[c] = "idle" /\ request[c] = NoRequest
    BY <2>1, <2>2 DEF LoopInv, ControlFlowInv
  <2>4. TranscriptInv(c)' /\ RequestInv(c)'
    BY <1>1, <1>2, <2>2, TranscriptFrame, RequestFrame DEF LoopInv
  <2>5. (c \in ToolAgents' <=> c \in ToolAgents) /\ (HasOutput(c)' <=> HasOutput(c))
    BY <1>1 DEF ToolAgents, HasOutput
  <2>6. IF HasOutput(c) THEN Whole(c)' ELSE Continues(c)'
    BY <1>1, <1>2, <2>2, <2>3, ContinuesFrame DEF LoopInv, ControlFlowInv
  <2>7. ControlFlowInv(c)'
    <3>1. loop_pc'[c] = IF HasOutput(c) THEN "returned" ELSE IF c \in ToolAgents THEN "top" ELSE "single_turn"
      BY <1>3, <1>7
    <3>2. /\ rewards'[c] = IF HasOutput(c)' THEN 1 ELSE 0
          /\ HasOutput(c) => output'[c] # "none"
      BY <1>1, <2>2, <2>5 DEF LoopInv, ControlFlowInv, HasOutput
    <3> QED
      BY <1>1, <2>1, <2>3, <2>5, <2>6, <3>1, <3>2 DEF ControlFlowInv
  <2>8. VersionsInv(c)'
    <3>1. /\ versions[c].start <= versions[c].end /\ versions[c].end <= version
          /\ \A v \in written[c] : v \in Nat /\ versions[c].start <= v /\ v <= LastVersion(c)
          /\ c \in strays /\ control # "transfer" => versions[c].end < version
          /\ output[c] = "none" => written[c] = {}
      BY <2>2, <2>3 DEF LoopInv, VersionsInv
    <3>2. /\ written'[c] = written[c] /\ version' = version /\ control' = control
          /\ loop_pc'[c] # "idle"
      BY <1>1, <1>3, <1>7
    <3>3. CASE HasOutput(c)
      <4>1. loop_pc'[c] = "returned" /\ versions'[c] = versions[c] /\ (c \in strays' <=> c \in strays)
        BY <1>3, <1>7, <3>3
      <4>2. LastVersion(c)' = LastVersion(c) /\ ~ AtWork(c)'
        BY <4>1 DEF LastVersion, AtWork
      <4> QED
        BY <3>1, <3>2, <4>1, <4>2 DEF VersionsInv
    <3>4. CASE ~ HasOutput(c)
      <4>1. /\ c \in strays' <=> control = "transfer"
            /\ versions'[c] = IF output[c] = "none" THEN [start |-> version, end |-> version]
                              ELSE [versions[c] EXCEPT !.end = version]
        BY <1>3, <1>7, <3>4
      <4>2. versions[c] \in [start : Nat, end : Nat] /\ versions[c].start \in Nat /\ versions[c].end \in Nat
        BY <1>2 DEF LoopTypes
      <4>3. /\ versions'[c].end = version
            /\ versions'[c].start = IF output[c] = "none" THEN version ELSE versions[c].start
        BY <4>1, <4>2
      <4>4. versions'[c].start <= version
        BY <1>2, <3>1, <4>2, <4>3
      <4>5. LastVersion(c)' = IF control = "transfer" THEN version + 1 ELSE version
        BY <4>1, <4>3 DEF LastVersion
      <4>6. LastVersion(c) <= LastVersion(c)' /\ LastVersion(c) \in Nat
        BY <1>2, <3>1, <4>2, <4>5 DEF LastVersion
      <4>7. \A v \in written[c] : v \in Nat /\ versions'[c].start <= v /\ v <= LastVersion(c)'
        <5>1. LastVersion(c)' \in Nat
          BY <1>2, <4>5
        <5> QED
          BY <3>1, <4>3, <4>6, <5>1
      <4> QED
        BY <1>2, <3>2, <4>1, <4>3, <4>4, <4>7 DEF VersionsInv
    <3> QED
      BY <3>3, <3>4
  <2>9. FrozenInv(c)'
    <3>1. c \notin grown'
      BY <1>1, <2>2, <2>3 DEF LoopInv, FrozenInv
    <3>2. loop_pc'[c] \in {"returned", "top", "single_turn"}
      BY <1>3, <1>7
    <3>3. request'[c].at = "none"
      BY <1>1, <2>3 DEF NoRequest
    <3> QED
      BY <3>1, <3>2, <3>3 DEF FrozenInv
  <2> QED
    BY <2>4, <2>7, <2>8, <2>9 DEF LoopInv
<1> QED
  BY <1>4, <1>5, <1>6, <1>7 DEF LoopsInv

LEMMA EndSampleStep ==
  ASSUME LoopsInv, NEW s \in Samples, generate_sequences_no_post(s)
  PROVE  LoopsInv'
<1>1. /\ status[s] = "running" /\ \A c \in Members[s] : loop_pc[c] = "returned"
      /\ status' = [status EXCEPT ![s] =
           IF \E c \in Members[s] : output[c] = "cancelled" THEN "interrupted" ELSE "finished"]
      /\ loop_pc' = [c \in Completions |-> IF c \in Members[s] THEN "idle" ELSE loop_pc[c]]
      /\ UNCHANGED << serverVars, agent_state, response, response_mask, output, versions, written,
                      strays, cut, rewards, workerVars, agent_name, worker_of, next_worker,
                      controlVars >>
      /\ grown' = grown \ Members[s]
  BY DEF generate_sequences_no_post
<1>2. LoopTypes /\ PauseInv
  BY DEF LoopsInv, PauseInv
<1>3. /\ status'[s] \in {"interrupted", "finished"}
      /\ \A t \in Samples : t # s => status'[t] = status[t]
      /\ status' \in [Samples -> {"new", "running", "interrupted", "finished"}]
  BY <1>1, <1>2 DEF LoopTypes
<1>4. LoopTypes'
  <2>1. loop_pc' \in [Completions -> PlacesOfLoop]
    BY <1>1, <1>2 DEF LoopTypes, PlacesOfLoop
  <2> QED
    BY <1>1, <1>2, <1>3, <2>1 DEF LoopTypes
<1>5. PauseInv'
  BY <1>1, <1>2, <1>3 DEF PauseInv, AllTold, Frozen, Everyone, ToWorker, ToServer, Workers
<1>6. ASSUME NEW c \in Completions, c \notin Members[s]
      PROVE  LoopInv(c)'
  <2>1. SampleOf(c) # s /\ SampleOf(c) \in Samples
    BY <1>6, SamplesAre
  <2>2. status'[SampleOf(c)] = status[SampleOf(c)]
    BY <1>3, <2>1
  <2>3. SameLoop(c) /\ LoopInv(c)
    BY <1>1, <1>6 DEF SameLoop, LoopsInv
  <2> QED
    BY <1>1, <2>2, <2>3, LoopFrame
<1>7. ASSUME NEW c \in Completions, c \in Members[s]
      PROVE  LoopInv(c)'
  <2>1. SampleOf(c) = s /\ loop_pc[c] = "returned" /\ loop_pc'[c] = "idle" /\ LoopInv(c)
    BY <1>1, <1>7, SamplesAre DEF LoopsInv
  <2>2. TranscriptInv(c)' /\ RequestInv(c)'
    BY <1>1, <1>2, <2>1, TranscriptFrame, RequestFrame DEF LoopInv
  <2>3. (c \in ToolAgents' <=> c \in ToolAgents) /\ (HasOutput(c)' <=> HasOutput(c))
    BY <1>1 DEF ToolAgents, HasOutput
  <2>4. IF HasOutput(c) THEN Whole(c)' ELSE Continues(c)'
    BY <1>1, <1>2, <2>1, ContinuesFrame DEF LoopInv, ControlFlowInv
  <2>5. /\ rewards'[c] = IF HasOutput(c)' THEN 1 ELSE 0
        /\ output'[c] # "none" /\ request'[c] = NoRequest /\ status'[SampleOf(c)] # "running"
    BY <1>1, <1>3, <2>1, <2>3 DEF LoopInv, ControlFlowInv
  <2>6. ControlFlowInv(c)'
    BY <2>1, <2>3, <2>4, <2>5 DEF ControlFlowInv
  <2>7. VersionsInv(c)'
    BY <1>1, <2>1, <2>5 DEF LoopInv, VersionsInv, LastVersion, AtWork
  <2>8. FrozenInv(c)'
    BY <1>1, <1>7, <2>1, <2>5 DEF FrozenInv, NoRequest
  <2> QED
    BY <2>2, <2>6, <2>7, <2>8 DEF LoopInv
<1> QED
  BY <1>4, <1>5, <1>6, <1>7 DEF LoopsInv

-----------------------------------------------------------------------------
(* The pause, the update and resume().                                     *)

\* no loop does anything
LEMMA NoLoop ==
  ASSUME LoopsInv, UNCHANGED << loopVars, request, agent_name, status >>, LoopTypes', PauseInv',
         \A c \in Completions : VersionsInv(c)' /\ FrozenInv(c)'
  PROVE  LoopsInv'
<1>1. ASSUME NEW c \in Completions
      PROVE  LoopInv(c)'
  <2>1. LoopInv(c) /\ SameLoop(c)
    BY DEF LoopsInv, SameLoop
  <2>2. TranscriptInv(c)' /\ RequestInv(c)' /\ ControlFlowInv(c)'
    BY <2>1, LoopFrame
  <2> QED
    BY <2>2 DEF LoopInv
<1> QED
  BY <1>1 DEF LoopsInv

\* no loop notices
LEMMA Unnoticed ==
  ASSUME LoopsInv, UNCHANGED << loopVars, request, version >>,
         control' = "transfer" <=> control = "transfer", Frozen' => Frozen
  PROVE  \A c \in Completions : VersionsInv(c)' /\ FrozenInv(c)'
<1> SUFFICES ASSUME NEW c \in Completions
             PROVE  VersionsInv(c)' /\ FrozenInv(c)'
  OBVIOUS
<1>1. VersionsInv(c) /\ FrozenInv(c)
  BY DEF LoopsInv, LoopInv
<1> QED
  BY <1>1 DEF VersionsInv, LastVersion, AtWork, FrozenInv

LEMMA NoLoopTypes ==
  LoopTypes /\ paused' \in BOOLEAN /\ UNCHANGED << serverVars, loopVars, workerVars, managerVars >>
    => LoopTypes'
  BY DEF LoopTypes

LEMMA PauseStep == LoopsInv /\ Pause => LoopsInv'
<1> SUFFICES ASSUME LoopsInv, Pause PROVE LoopsInv'
  OBVIOUS
<1>1. /\ control = "running" /\ pauses < MaxPauses /\ pauses' = pauses + 1 /\ control' = "cancelling"
      /\ undelivered' = Everyone /\ version' = version /\ paused' = TRUE
      /\ UNCHANGED << serverVars, loopVars, workerVars, managerVars >>
  BY DEF Pause
<1>2. PauseInv /\ LoopTypes /\ pauses \in Nat /\ MaxPauses \in Nat
  BY AgentLoopsAssumption DEF LoopsInv, PauseInv
<1>3. AllTold'
  BY <1>1 DEF AllTold, Everyone, ToWorker, ToServer, Workers
<1>4. PauseInv'
  BY <1>1, <1>2, <1>3 DEF PauseInv, Frozen, Everyone, ToWorker, ToServer, Workers
<1>5. LoopTypes'
  BY <1>1, <1>2, NoLoopTypes
<1>6. \A c \in Completions : VersionsInv(c)' /\ FrozenInv(c)'
  BY <1>1, Unnoticed DEF Frozen
<1> QED
  BY <1>1, <1>4, <1>5, <1>6, NoLoop

\* none of the loops is at work when the transfer begins
LEMMA AllReturnedStep == LoopsInv /\ AllReturned => LoopsInv'
<1> SUFFICES ASSUME LoopsInv, AllReturned PROVE LoopsInv'
  OBVIOUS
<1>1. /\ control = "cancelling" /\ undelivered = {} /\ control' = "transfer"
      /\ \A s \in Samples : status[s] # "running"
      /\ UNCHANGED << serverVars, loopVars, workerVars, managerVars, paused, undelivered, version,
                      pauses >>
  BY DEF AllReturned
<1>2. PauseInv /\ LoopTypes /\ paused \in BOOLEAN
  BY DEF LoopsInv, LoopTypes
<1>3. AllTold'
  BY <1>1, <1>2 DEF PauseInv, AllTold, ToWorker, ToServer, Workers
<1>4. PauseInv'
  BY <1>1, <1>2, <1>3 DEF PauseInv, Frozen, Everyone, ToWorker, ToServer, Workers
<1>5. LoopTypes'
  BY <1>1, <1>2, NoLoopTypes
<1>6. ASSUME NEW c \in Completions
      PROVE  VersionsInv(c)' /\ FrozenInv(c)'
  <2>1. VersionsInv(c) /\ FrozenInv(c) /\ loop_pc[c] = "idle" /\ request[c] = NoRequest
    BY <1>1, SamplesAre DEF LoopsInv, LoopInv, ControlFlowInv
  <2> QED
    BY <1>1, <2>1 DEF VersionsInv, LastVersion, AtWork, FrozenInv, NoRequest
<1> QED
  BY <1>1, <1>4, <1>5, <1>6, NoLoop

LEMMA MonitorResumeStep == LoopsInv /\ MonitorResume => LoopsInv'
<1> SUFFICES ASSUME LoopsInv, MonitorResume PROVE LoopsInv'
  OBVIOUS
<1>1. /\ paused' = FALSE
      /\ UNCHANGED << serverVars, loopVars, workerVars, managerVars, control, undelivered, version,
                      pauses >>
  BY DEF MonitorResume
<1>2. PauseInv /\ LoopTypes
  BY DEF LoopsInv
<1>3. PauseInv'
  BY <1>1, <1>2 DEF PauseInv, AllTold, Frozen, Everyone, ToWorker, ToServer, Workers
<1>4. LoopTypes'
  BY <1>1, <1>2, NoLoopTypes
<1>5. \A c \in Completions : VersionsInv(c)' /\ FrozenInv(c)'
  BY <1>1, Unnoticed DEF Frozen
<1> QED
  BY <1>1, <1>3, <1>4, <1>5, NoLoop

\* the loops at work have been started in the transfer, under the old version
LEMMA UpdateParamVersionStep == LoopsInv /\ UpdateParamVersion => LoopsInv'
<1> SUFFICES ASSUME LoopsInv, UpdateParamVersion PROVE LoopsInv'
  OBVIOUS
<1>1. /\ control = "transfer" /\ control' = "updated" /\ version' = version + 1
      /\ UNCHANGED << serverVars, loopVars, workerVars, managerVars, paused, undelivered, pauses >>
  BY DEF UpdateParamVersion
<1>2. PauseInv /\ LoopTypes /\ version \in Nat /\ paused \in BOOLEAN
  BY DEF LoopsInv, PauseInv, LoopTypes
<1>3. PauseInv'
  BY <1>1, <1>2 DEF PauseInv, AllTold, Frozen, Everyone, ToWorker, ToServer, Workers
<1>4. LoopTypes'
  BY <1>1, <1>2, NoLoopTypes
<1>5. ASSUME NEW c \in Completions
      PROVE  VersionsInv(c)' /\ FrozenInv(c)'
  <2>1. VersionsInv(c) /\ FrozenInv(c) /\ versions[c].end \in Nat
    BY <1>2 DEF LoopsInv, LoopInv, LoopTypes
  <2>2. LastVersion(c)' = LastVersion(c)
    BY <1>1 DEF LastVersion
  <2>3. VersionsInv(c)'
    BY <1>1, <1>2, <2>1, <2>2 DEF VersionsInv, AtWork
  <2> QED
    BY <1>1, <2>1, <2>3 DEF FrozenInv, Frozen
<1> QED
  BY <1>1, <1>3, <1>4, <1>5, NoLoop

LEMMA ResumeStep == LoopsInv /\ Resume => LoopsInv'
<1> SUFFICES ASSUME LoopsInv, Resume PROVE LoopsInv'
  OBVIOUS
<1>1. /\ control = "updated" /\ control' = "resuming" /\ undelivered' = Everyone
      /\ UNCHANGED << serverVars, loopVars, workerVars, managerVars, paused, version, pauses >>
  BY DEF Resume
<1>2. PauseInv /\ LoopTypes /\ paused \in BOOLEAN
  BY DEF LoopsInv, LoopTypes
<1>3. PauseInv'
  BY <1>1, <1>2 DEF PauseInv, Frozen, Everyone, ToWorker, ToServer, Workers
<1>4. LoopTypes'
  BY <1>1, <1>2, NoLoopTypes
<1>5. \A c \in Completions : VersionsInv(c)' /\ FrozenInv(c)'
  BY <1>1, Unnoticed DEF Frozen
<1> QED
  BY <1>1, <1>3, <1>4, <1>5, NoLoop

LEMMA ResumedStep == LoopsInv /\ Resumed => LoopsInv'
<1> SUFFICES ASSUME LoopsInv, Resumed PROVE LoopsInv'
  OBVIOUS
<1>1. /\ control = "resuming" /\ control' = "running" /\ paused' = FALSE
      /\ UNCHANGED << serverVars, loopVars, workerVars, managerVars, undelivered, version, pauses >>
  BY DEF Resumed
<1>2. PauseInv /\ LoopTypes
  BY DEF LoopsInv
<1>3. PauseInv'
  BY <1>1, <1>2 DEF PauseInv, Frozen, Everyone, ToWorker, ToServer, Workers
<1>4. LoopTypes'
  BY <1>1, <1>2, NoLoopTypes
<1>5. \A c \in Completions : VersionsInv(c)' /\ FrozenInv(c)'
  BY <1>1, Unnoticed DEF Frozen
<1> QED
  BY <1>1, <1>3, <1>4, <1>5, NoLoop

LEMMA DeliverToWorkerStep ==
  ASSUME LoopsInv, NEW w \in Workers, DeliverToWorker(w)
  PROVE  LoopsInv'
<1>1. /\ ToWorker(w) \in undelivered /\ undelivered' = undelivered \ {ToWorker(w)}
      /\ cancellation_event' = [cancellation_event EXCEPT ![w] = control = "cancelling"]
      /\ UNCHANGED << serverVars, loopVars, request_id_to_server, managerVars, paused, control,
                      version, pauses >>
  BY DEF DeliverToWorker
<1>2. PauseInv /\ LoopTypes
  BY DEF LoopsInv
<1>3. PICK b \in BOOLEAN : b = (control = "cancelling")
  OBVIOUS
<1>4. cancellation_event' = [cancellation_event EXCEPT ![w] = b]
  BY <1>1, <1>3
<1>5. cancellation_event' \in [Workers -> BOOLEAN]
  BY <1>2, <1>3, <1>4 DEF LoopTypes
<1>6. LoopTypes'
  BY <1>1, <1>2, <1>5 DEF LoopTypes
<1>7. ~ Frozen /\ ~ Frozen'
  BY <1>1, <1>2 DEF PauseInv, Frozen
<1>8. control = "cancelling" => AllTold'
  <2> SUFFICES ASSUME control = "cancelling" PROVE AllTold'
    OBVIOUS
  <2>1. AllTold
    BY <1>2 DEF PauseInv
  <2>2. ASSUME NEW v \in Workers
        PROVE  ToWorker(v) \in undelivered' \/ cancellation_event'[v]
    <3>1. CASE v = w
      BY <1>2, <1>3, <1>4, <3>1 DEF LoopTypes
    <3>2. CASE v # w
      <4>1. ToWorker(v) # ToWorker(w)
        BY <3>2 DEF ToWorker
      <4>2. cancellation_event'[v] = cancellation_event[v]
        BY <1>2, <1>4, <3>2 DEF LoopTypes
      <4> QED
        BY <1>1, <2>1, <4>1, <4>2 DEF AllTold
    <3> QED
      BY <3>1, <3>2
  <2>3. ASSUME NEW s \in Servers
        PROVE  ToServer(s) \in undelivered' \/ server_paused'[s]
    <3>1. ToServer(s) # ToWorker(w)
      BY DEF ToServer, ToWorker
    <3> QED
      BY <1>1, <2>1, <3>1 DEF AllTold
  <2>4. Workers' = Workers /\ \A v : ToWorker(v)' = ToWorker(v)
    BY DEF Workers, ToWorker
  <2> QED
    BY <2>2, <2>3, <2>4 DEF AllTold, ToServer
<1>9. PauseInv'
  BY <1>1, <1>2, <1>7, <1>8 DEF PauseInv, Everyone, ToWorker, ToServer, Workers
<1>10. \A c \in Completions : VersionsInv(c)' /\ FrozenInv(c)'
  BY <1>1, <1>7, Unnoticed
<1> QED
  BY <1>1, <1>6, <1>9, <1>10, NoLoop

LEMMA DeliverToServerStep ==
  ASSUME LoopsInv, NEW s \in Servers, DeliverToServer(s)
  PROVE  LoopsInv'
<1>1. /\ ToServer(s) \in undelivered /\ undelivered' = undelivered \ {ToServer(s)}
      /\ IF control = "cancelling" THEN cancel(s) ELSE resume(s)
      /\ UNCHANGED << loopVars, workerVars, managerVars, paused, control, version, pauses >>
  BY DEF DeliverToServer
<1>2. PauseInv /\ LoopTypes
  BY DEF LoopsInv
<1>3. ~ Frozen /\ ~ Frozen'
  BY <1>1, <1>2 DEF PauseInv, Frozen
<1>4. CASE control # "cancelling"
  <2>1. server_paused' = [server_paused EXCEPT ![s] = FALSE] /\ request' = request
    BY <1>1, <1>4 DEF resume
  <2>2. LoopTypes'
    BY <1>1, <1>2, <2>1 DEF LoopTypes
  <2>3. PauseInv'
    BY <1>1, <1>2, <1>3, <1>4 DEF PauseInv, Everyone, ToWorker, ToServer, Workers
  <2>4. \A c \in Completions : VersionsInv(c)' /\ FrozenInv(c)'
    BY <1>1, <1>3, <2>1, Unnoticed
  <2> QED
    BY <1>1, <2>1, <2>2, <2>3, <2>4, NoLoop
<1>5. CASE control = "cancelling"
  <2>1. /\ server_paused' = [server_paused EXCEPT ![s] = TRUE]
        /\ request' = [c \in Completions |->
             IF request[c].at = "generating" /\ request[c].server = s
             THEN [request[c] EXCEPT !.cancel_event = TRUE] ELSE request[c]]
    BY <1>1, <1>5 DEF cancel
  <2>2. LoopTypes'
    BY <1>1, <1>2, <2>1 DEF LoopTypes
  <2>3. AllTold'
    <3>1. AllTold
      BY <1>2, <1>5 DEF PauseInv
    <3>2. ASSUME NEW r \in Servers
          PROVE  ToServer(r) \in undelivered' \/ server_paused'[r]
      <4>1. CASE r = s
        BY <1>2, <2>1, <4>1 DEF LoopTypes
      <4>2. CASE r # s
        <5>1. ToServer(r) # ToServer(s)
          BY <4>2 DEF ToServer
        <5>2. server_paused'[r] = server_paused[r]
          BY <1>2, <2>1, <4>2 DEF LoopTypes
        <5> QED
          BY <1>1, <3>1, <5>1, <5>2 DEF AllTold
      <4> QED
        BY <4>1, <4>2
    <3>3. ASSUME NEW w \in Workers
          PROVE  ToWorker(w) \in undelivered' \/ cancellation_event'[w]
      <4>1. ToWorker(w) # ToServer(s)
        BY DEF ToServer, ToWorker
      <4> QED
        BY <1>1, <3>1, <4>1 DEF AllTold
    <3>4. Workers' = Workers /\ \A v : ToServer(v)' = ToServer(v)
      BY DEF Workers, ToServer
    <3> QED
      BY <3>2, <3>3, <3>4 DEF AllTold, ToWorker
  <2>4. PauseInv'
    BY <1>1, <1>2, <1>3, <2>3 DEF PauseInv, Everyone, ToWorker, ToServer, Workers
  <2>5. ASSUME NEW c \in Completions
        PROVE  LoopInv(c)'
    <3>1. LoopInv(c)
      BY DEF LoopsInv
    <3>2. CASE request'[c] = request[c]
      <4>1. SameLoop(c)
        BY <1>1, <3>2 DEF SameLoop
      <4> QED
        BY <1>1, <3>1, <4>1, LoopFrame
    <3>3. CASE request'[c] # request[c]
      <4>1. request[c].at = "generating" /\ request'[c] = [request[c] EXCEPT !.cancel_event = TRUE]
        BY <2>1, <3>3
      <4>2. PICK t \in Servers, k \in Nat, e, g \in BOOLEAN : Streaming(c, t, k, e, g)
        BY <4>1, RequestForms
      <4>3. PICK p, f : p = response[c] /\ f = Fragment(Place(c), k)
        OBVIOUS
      <4>4. request[c] = [at |-> "generating", server |-> t, prompt |-> p,
                          req_output |-> f, cancel_event |-> e, generated |-> g]
        BY <4>2, <4>3 DEF Streaming
      <4>5. request'[c] = [at |-> "generating", server |-> t, prompt |-> p,
                           req_output |-> f, cancel_event |-> TRUE, generated |-> g]
        <5>1. PICK r : r = request[c]
          OBVIOUS
        <5>2. PICK b \in BOOLEAN : b = TRUE
          OBVIOUS
        <5>3. [r EXCEPT !.cancel_event = b]
              = [at |-> "generating", server |-> t, prompt |-> p,
                 req_output |-> f, cancel_event |-> b, generated |-> g]
          BY <4>4, <5>1
        <5> QED
          BY <4>1, <5>1, <5>2, <5>3
      <4>6. response'[c] = response[c] /\ Place(c)' = Place(c)
        BY <1>1 DEF Place
      <4>7. Streaming(c, t, k, TRUE, g)'
        BY <4>2, <4>3, <4>5, <4>6 DEF Streaming, Streamed
      <4>8. RequestInv(c)'
        BY <4>2, <4>7 DEF RequestInv
      <4>9. request'[c] # NoRequest /\ request[c] # NoRequest
        BY <4>4, <4>5 DEF NoRequest
      <4>10. TranscriptInv(c)'
        BY <1>1, <3>1, TranscriptFrame DEF LoopInv
      <4>11. /\ Continues(c) => Continues(c)'
             /\ Whole(c) => Whole(c)'
        BY <1>1, ContinuesFrame
      <4>12. (c \in ToolAgents' <=> c \in ToolAgents) /\ (HasOutput(c)' <=> HasOutput(c))
        BY <1>1 DEF ToolAgents, HasOutput
      <4>13. ControlFlowInv(c)'
        BY <1>1, <3>1, <4>9, <4>11, <4>12 DEF LoopInv, ControlFlowInv
      <4>14. VersionsInv(c)' /\ FrozenInv(c)'
        BY <1>1, <1>3, <3>1 DEF LoopInv, VersionsInv, LastVersion, AtWork, FrozenInv
      <4> QED
        BY <4>8, <4>10, <4>13, <4>14 DEF LoopInv
    <3> QED
      BY <3>2, <3>3
  <2> QED
    BY <2>2, <2>4, <2>5 DEF LoopsInv
<1> QED
  BY <1>4, <1>5

-----------------------------------------------------------------------------
(* The loops, all steps together.                                          *)

LEMMA LoopsInitial == Init => LoopsInv
<1> SUFFICES ASSUME Init PROVE LoopsInv
  OBVIOUS
<1>1. /\ agent_name \in [Samples -> AgentNames]
      /\ server_paused = [s \in Servers |-> FALSE]
      /\ request = [c \in Completions |-> NoRequest]
      /\ loop_pc = [c \in Completions |-> "idle"]
      /\ agent_state = [c \in Completions |-> "PENDING"]
      /\ response = [c \in Completions |-> << >>]
      /\ response_mask = [c \in Completions |-> << >>]
      /\ output = [c \in Completions |-> "none"]
      /\ versions = [c \in Completions |-> [start |-> 0, end |-> 0]]
      /\ written = [c \in Completions |-> {}]
      /\ strays = {} /\ cut = [c \in Completions |-> 0] /\ grown = {}
      /\ rewards = [c \in Completions |-> 0]
  BY DEF Init, ServersInit
<1>2. /\ cancellation_event = [w \in Workers |-> FALSE]
      /\ request_id_to_server = [w \in Workers |-> [c \in Completions |-> 0]]
      /\ worker_of = [s \in Samples |-> 1] /\ next_worker = 1
      /\ status = [s \in Samples |-> "new"]
      /\ paused = FALSE /\ control = "running" /\ undelivered = {} /\ version = 0 /\ pauses = 0
  BY DEF Init
<1>3. 1 \in Workers /\ MaxPauses \in Nat
  BY AgentLoopsAssumption DEF Workers
<1>4. LoopTypes
  <2>1. versions \in [Completions -> [start : Nat, end : Nat]]
    BY <1>1
  <2> QED
    BY <1>1, <1>2, <1>3, <2>1 DEF LoopTypes, PlacesOfLoop
<1>5. PauseInv
  BY <1>1, <1>2, <1>3 DEF PauseInv, Frozen
<1>6. ASSUME NEW c \in Completions
      PROVE  LoopInv(c)
  <2>1. Place(c) = 0 /\ response[c] = Run(0) /\ response_mask[c] = Mask(c, 0)
    BY <1>1, RunFacts, MaskFacts DEF Place
  <2>2. Unobserved(c, 0, 0) /\ GoesOn(c, 0) /\ 0 \in 0..Length[c]
    BY TranscriptTypes DEF Unobserved, GoesOn
  <2>3. TranscriptInv(c) /\ Continues(c)
    BY <1>1, <2>1, <2>2, AgentLoopsAssumption DEF TranscriptInv, Continues
  <2>4. ControlFlowInv(c)
    BY <1>1, <1>2, <2>3, SamplesAre DEF ControlFlowInv, HasOutput
  <2>5. VersionsInv(c) /\ FrozenInv(c)
    BY <1>1, <1>2 DEF VersionsInv, AtWork, FrozenInv, Frozen
  <2> QED
    BY <1>1, <2>3, <2>4, <2>5 DEF LoopInv, RequestInv
<1> QED
  BY <1>4, <1>5, <1>6 DEF LoopsInv

LEMMA LoopsStep ==
  ASSUME LoopsInv, [Next]_vars
  PROVE  LoopsInv'
<1>1. CASE \E s \in Samples : SampleStep(s)
  BY <1>1, StartSampleStep, EndSampleStep DEF SampleStep
<1>2. CASE \E c \in Completions : LoopStep(c)
  BY <1>2, LoopStepKeeps
<1>3. CASE \E c \in Completions : ServerSteps(c)
  BY <1>3, StartGenerationStep, GenerateStep, AnswerStep DEF ServerSteps, ServerStep
<1>4. CASE \/ \E c \in Completions : ToolRuns(c) \/ RewardSteps(c)
           \/ PoolSteps \/ TimePasses \/ UNCHANGED vars
  <2>1. UNCHANGED << serverVars, loopVars, workerVars, managerVars, controlVars >>
    BY <1>4 DEF ToolRuns, RewardSteps, PoolSteps, TimePasses, restOfPool, restOfLimiter, vars
  <2>2. PauseInv /\ LoopTypes /\ paused \in BOOLEAN
    BY DEF LoopsInv, LoopTypes
  <2>3. LoopTypes'
    BY <2>1, <2>2, NoLoopTypes
  <2>4. PauseInv'
    BY <2>1, <2>2 DEF PauseInv, AllTold, Frozen, Everyone, ToWorker, ToServer, Workers
  <2>5. \A c \in Completions : VersionsInv(c)' /\ FrozenInv(c)'
    BY <2>1, Unnoticed DEF Frozen
  <2> QED
    BY <2>1, <2>3, <2>4, <2>5, NoLoop
<1>5. CASE ControlStep
  BY <1>5, PauseStep, DeliverToServerStep, DeliverToWorkerStep, AllReturnedStep, MonitorResumeStep,
     UpdateParamVersionStep, ResumeStep, ResumedStep DEF ControlStep, Synchronization, Delivery
<1>6. (\E c \in Completions : ToolRuns(c)) \/ (\E c \in Completions : RewardSteps(c))
        => \E c \in Completions : ToolRuns(c) \/ RewardSteps(c)
  OBVIOUS
<1> QED
  BY <1>1, <1>2, <1>3, <1>4, <1>5, <1>6, NextSteps

Inv == PoolInv /\ LimiterInv /\ LoopsInv

LEMMA InvInductive ==
  /\ Init => Inv
  /\ Inv /\ [Next]_vars => Inv'
<1>1. Init => Inv
  BY PoolInitial, LimiterInitial, LoopsInitial DEF Inv
<1>2. Inv /\ [Next]_vars => Inv'
  BY PoolStep, LimiterInvStep, LoopsStep DEF Inv
<1> QED
  BY <1>1, <1>2

LEMMA InvTypes == Inv => TypeOK
<1> SUFFICES ASSUME Inv PROVE TypeOK
  OBVIOUS
<1>1. LoopsInv /\ LoopTypes /\ PauseInv /\ PoolInv /\ LimiterInv
  BY DEF Inv, LoopsInv
<1>2. ASSUME NEW c \in Completions
      PROVE  /\ loop_pc[c] \in {"idle", "single_turn", "top", "generate", "tool", "postprocess",
                                "reward", "returned"}
             /\ agent_state[c] \in {"PENDING", "GENERATING", "PROCESSING_TOOLS"}
             /\ output[c] \in {"none", "cancelled", "completed"}
             /\ tool_call[c] \in {"none", "acquiring", "running", "answered"}
  BY <1>1 DEF LoopTypes, PlacesOfLoop, PoolInv, ToolCalls
<1>3. ASSUME NEW c \in Completions
      PROVE  response[c] \in Seq(1..Length[c]) /\ response_mask[c] \in Seq({0, 1})
  <2>1. PICK n \in Nat : n <= Length[c] /\ response[c] = Run(n) /\ response_mask[c] = Mask(c, n)
    BY <1>1, ResponsePlace DEF LoopInv, TranscriptInv
  <2>2. \A i \in 1..n : i \in 1..Length[c]
    BY <2>1, TranscriptTypes
  <2>3. Run(n) \in Seq(1..Length[c])
    BY <2>1, <2>2 DEF Run
  <2> QED
    BY <2>1, <2>3, MaskFacts
<1>4. ASSUME NEW c \in Completions
      PROVE  request[c].at \in {"none", "sent", "generating", "answered"}
  BY <1>1, RequestForms
<1>5. ASSUME NEW c \in Completions
      PROVE  reward_job[c].at \in {"none", "acquire", "sleep", "semaphore", "call", "scored"}
  <2>1. reward_job[c] \in Jobs
    BY <1>1, CallersAre DEF LimiterInv, BucketsInv
  <2> QED
    BY <2>1 DEF Jobs, NoJob, Calling, Scored, Acquiring, Queued
<1>6. \A w \in Workers : cancellation_event[w] \in BOOLEAN
  BY <1>1 DEF LoopTypes
<1>7. \A s \in Samples : status[s] \in {"new", "running", "interrupted", "finished"}
  BY <1>1 DEF LoopTypes
<1>8. /\ control \in {"running", "cancelling", "transfer", "updated", "resuming"}
      /\ undelivered \subseteq Everyone
      /\ version \in 0..MaxPauses /\ pauses \in 0..MaxPauses
  BY <1>1, AgentLoopsAssumption DEF PauseInv
<1>9. /\ strays \subseteq Completions /\ grown \subseteq Completions /\ cut \in [Completions -> Nat]
      /\ paused \in BOOLEAN
  BY <1>1 DEF LoopTypes
<1> QED
  BY <1>2, <1>3, <1>4, <1>5, <1>6, <1>7, <1>8, <1>9 DEF TypeOK

LEMMA InvResponses == Inv => ResponsesContiguous
<1> SUFFICES ASSUME Inv, NEW c \in Completions
             PROVE  LET n == Len(response[c])
                    IN  /\ response[c] = [i \in 1..n |-> i]
                        /\ response_mask[c] = [i \in 1..n |-> IF i \in Observations[c] THEN 0 ELSE 1]
                        /\ \A v \in written[c] : versions[c].start <= v /\ v <= LastVersion(c)
                        /\ output[c] = "completed" =>
                             \/ n >= ResponseLength
                             \/ Final(c) = Length[c]
                             \/ Final(c) + 1 \in Observations[c]
                                  /\ (c \in ToolAgents => cut[c] = n - 1 \/ n + 1 >= ResponseLength)
  BY DEF ResponsesContiguous
<1>1. LoopsInv /\ LoopInv(c)
  BY DEF Inv, LoopsInv
<1>2. PICK n \in Nat : n = Place(c) /\ n = Len(response[c]) /\ response[c] = Run(n) /\ n <= Length[c]
  BY <1>1, ResponsePlace DEF Place
<1>3. response_mask[c] = Mask(c, n)
  BY <1>1, <1>2 DEF LoopInv, TranscriptInv
<1>4. response[c] = [i \in 1..n |-> i]
      /\ response_mask[c] = [i \in 1..n |-> IF i \in Observations[c] THEN 0 ELSE 1]
  BY <1>2, <1>3 DEF Run, Mask
<1>5. \A v \in written[c] : versions[c].start <= v /\ v <= LastVersion(c)
  BY <1>1 DEF LoopInv, VersionsInv
<1>6. n > 0 => Final(c) = n
  <2>1. \A i \in 1..n : Run(n)[i] = i
    BY <1>2, RunFacts
  <2>2. n > 0 => n \in 1..n
    BY <1>2
  <2> QED
    BY <1>2, <2>1, <2>2 DEF Final
<1>7. output[c] = "completed" => Whole(c)
  BY <1>1 DEF LoopInv, ControlFlowInv, HasOutput
<1>8. Whole(c) => \/ n >= ResponseLength
                  \/ Final(c) = Length[c]
                  \/ Final(c) + 1 \in Observations[c]
                       /\ (c \in ToolAgents => cut[c] = n - 1 \/ n + 1 >= ResponseLength)
  <2>1. n = Length[c] => n > 0
    BY TranscriptTypes
  <2>2. n + 1 \in Observations[c] => n > 0
    BY <1>2, BehindObservation
  <2> QED
    BY <1>2, <1>6, <2>1, <2>2 DEF Whole
<1> QED
  BY <1>2, <1>4, <1>5, <1>7, <1>8

(* Every variable of partial rollout keeps its type, for any number of     *)
(* samples, responses, servers, workers, reward loops and pauses.          *)
THEOREM TypeCorrect == Spec => []TypeOK
<1>1. Inv => TypeOK
  BY InvTypes
<1> QED
  BY <1>1, InvInductive, PTL DEF Spec

(* However often a response is interrupted, whatever the cancel meets and  *)
(* in whatever order, and if the monitor undoes a pause before the new     *)
(* version is there: its fragments and the tool's answers are the policy's *)
(* transcript, without a gap or a repetition, with the right mask, every   *)
(* token under a version that the stamps of its sample tell, or the next   *)
(* one for a sample submitted in a transfer; and it is completed only when *)
(* it is whole, or the last cancel came within the call that is missing.   *)
THEOREM ResponsesCorrect == Spec => []ResponsesContiguous
<1>1. Inv => ResponsesContiguous
  BY InvResponses
<1> QED
  BY <1>1, InvInductive, PTL DEF Spec

-----------------------------------------------------------------------------
(* Partial rollout implements PartialGeneration: the text of a response is *)
(* what response_length leaves of it.                                      *)

CutAt(n) == IF n > ResponseLength THEN ResponseLength ELSE n

LEMMA CutRun ==
  ASSUME NEW c \in Completions, NEW n \in Nat
  PROVE  /\ CutAt(n) \in Nat
         /\ response[c] = Run(n) => Cut(c) = Run(CutAt(n))
         /\ response'[c] = Run(n) => Cut(c)' = Run(CutAt(n))
<1>1. ResponseLength \in Nat
  BY AgentLoopsAssumption
<1>2. CutAt(n) \in Nat /\ CutAt(n) <= n /\ Len(Run(n)) = n
  BY <1>1, RunFacts DEF CutAt
<1>3. (IF Len(Run(n)) > ResponseLength THEN SubSeq(Run(n), 1, ResponseLength) ELSE Run(n)) = Run(CutAt(n))
  <2>1. CASE n > ResponseLength
    <3>1. SubSeq(Run(n), 1, ResponseLength) = Run(ResponseLength)
      BY <1>1, <2>1, RunCut
    <3> QED
      BY <1>2, <2>1, <3>1 DEF CutAt
  <2>2. CASE ~ n > ResponseLength
    BY <1>2, <2>2 DEF CutAt
  <2> QED
    BY <2>1, <2>2
<1> QED
  BY <1>2, <1>3 DEF Cut

LEMMA AbstractMembers == Abstract!AllMembers = Completions
  BY AgentLoopsAssumption DEF Abstract!AllMembers

LEMMA WorkingLoop ==
  ASSUME LoopsInv, NEW c \in Completions, loop_pc[c] # "idle"
  PROVE  Abstract!Working(c) /\ (loop_pc[c] # "returned" => rewards[c] = 0)
<1>1. LoopInv(c)
  BY DEF LoopsInv
<1>2. status[SampleOf(c)] = "running" /\ (loop_pc[c] # "returned" => rewards[c] = 0)
  BY <1>1 DEF LoopInv, ControlFlowInv
<1> QED
  BY <1>2, SamplesAre DEF Abstract!Working

LEMMA AbstractStutter ==
  ASSUME UNCHANGED << status, response, rewards, version, grown >>
  PROVE  UNCHANGED Abstract!absVars
<1>1. \A c \in Completions : Cut(c)' = Cut(c)
  BY DEF Cut
<1> QED
  BY <1>1 DEF Abstract!absVars

\* a response that grows
LEMMA AbstractExtend ==
  ASSUME LoopsInv, NEW c \in Completions, loop_pc[c] \notin {"idle", "returned"},
         NEW n \in Nat, NEW m \in Nat, response[c] = Run(n), response'[c] = Run(m),
         n < m, n < ResponseLength, grown' = grown \cup {c},
         \A d \in Completions : d # c => response'[d] = response[d],
         UNCHANGED << status, rewards, version >>
  PROVE  Abstract!Next
<1> DEFINE text == [d \in Completions |-> Cut(d)]
<1>1. /\ text = [d \in Completions |-> text[d]] /\ text' = [d \in Completions |-> text'[d]]
      /\ text[c] = Run(CutAt(n)) /\ text'[c] = Run(CutAt(m))
      /\ \A d \in Completions : d # c => text'[d] = text[d]
  <2>1. \A d \in Completions : d # c => Cut(d)' = Cut(d)
    BY DEF Cut
  <2> QED
    BY <2>1, CutRun
<1>2. CutAt(n) \in Nat /\ CutAt(m) \in Nat /\ CutAt(m) > CutAt(n)
  BY AgentLoopsAssumption DEF CutAt
<1>3. Len(text[c]) = CutAt(n) /\ Len(text'[c]) = CutAt(m)
  BY <1>1, <1>2, RunFacts
<1>4. Abstract!Tokens(1, CutAt(m)) = Run(CutAt(m))
  BY <1>2 DEF Abstract!Tokens, Run
<1>5. text' = [text EXCEPT ![c] = text'[c]]
  BY <1>1
<1>6. Abstract!Working(c) /\ rewards[c] = 0
  BY WorkingLoop
<1>7. Abstract!Extend(c)
  BY <1>1, <1>2, <1>3, <1>4, <1>5, <1>6 DEF Abstract!Extend
<1> QED
  BY <1>7, AbstractMembers DEF Abstract!Next

LEMMA AbstractAnswer ==
  ASSUME LoopsInv, NEW c \in Completions, HandleAnswer(c)
  PROVE  Abstract!Next \/ UNCHANGED Abstract!absVars
<1>1. /\ loop_pc[c] = "generate" /\ request[c].at = "answered"
      /\ AppendTokens(c, request[c].token_ids, request[c].is_cancel)
      /\ UNCHANGED << status, rewards, version >>
  BY DEF HandleAnswer
<1>2. PICK k \in Nat, x \in BOOLEAN : AnswerReady(c, k, x)
  BY <1>1, RequestForms
<1>3. PICK n \in Nat : n = Place(c) /\ response[c] = Run(n)
  BY ResponsePlace
<1>4. AppendTokens(c, request[c].token_ids, x) /\ Place(c) = n
  BY <1>1, <1>2, <1>3 DEF AnswerReady, Answered
<1>5. PICK m \in Nat :
        /\ m = IF c \in ToolAgents \/ n + k <= ResponseLength THEN n + k ELSE ResponseLength
        /\ response'[c] = Run(m)
        /\ grown' = IF k = 0 THEN grown ELSE grown \cup {c}
  BY <1>2, <1>4, AppendedTokens
<1>6. n < ResponseLength /\ ResponseLength \in Nat
  BY <1>1, <1>3, AgentLoopsAssumption DEF LoopsInv, LoopInv, ControlFlowInv, Continues
<1>7. \A d \in Completions : d # c => response'[d] = response[d]
  BY <1>1 DEF AppendTokens, LoopsInv, LoopTypes
<1>8. CASE k = 0
  <2>1. response'[c] = response[c] /\ grown' = grown
    BY <1>3, <1>5, <1>6, <1>8
  <2>2. response' = [d \in Completions |-> response'[d]] /\ response = [d \in Completions |-> response[d]]
    BY <1>1 DEF AppendTokens, LoopsInv, LoopTypes
  <2>3. response' = response
    BY <1>7, <2>1, <2>2
  <2> QED
    BY <1>1, <2>1, <2>3, AbstractStutter
<1>9. CASE k # 0
  <2>1. n < m /\ grown' = grown \cup {c}
    BY <1>2, <1>5, <1>6, <1>9
  <2> QED
    BY <1>1, <1>3, <1>5, <1>6, <1>7, <2>1, AbstractExtend
<1> QED
  BY <1>8, <1>9

LEMMA AbstractToolAnswer ==
  ASSUME LoopsInv, NEW c \in Completions, _handle_processing_tools_state(c)
  PROVE  Abstract!Next \/ UNCHANGED Abstract!absVars
<1>1. loop_pc[c] = "tool" /\ UNCHANGED << status, rewards, version >>
  BY DEF _handle_processing_tools_state
<1>2. PICK n \in Nat : n = Place(c) /\ n = Len(response[c]) /\ response[c] = Run(n)
  BY ResponsePlace DEF Place
<1>3. CASE UNCHANGED << response, grown >>
  BY <1>1, <1>3, AbstractStutter
<1>4. CASE /\ response' = [response EXCEPT ![c] = Append(@, @[Len(@)] + 1)]
           /\ grown' = grown \cup {c}
  <2>1. LoopInv(c) /\ agent_state[c] = "PROCESSING_TOOLS" /\ Continues(c)
    BY <1>1 DEF LoopsInv, LoopInv, ControlFlowInv
  <2>2. n + 1 \in Observations[c] /\ n < ResponseLength
    BY <1>2, <2>1 DEF Continues
  <2>3. n >= 2
    BY <1>2, <2>2, BehindObservation
  <2>4. n \in 1..n /\ \A i \in 1..n : Run(n)[i] = i
    <3>1. \A i \in 1..n : Run(n)[i] = i
      BY <1>2, RunFacts
    <3> QED
      BY <1>2, <2>3, <3>1
  <2>5. response'[c] = Append(Run(n), n + 1)
    BY <1>2, <1>4, <2>4 DEF LoopsInv, LoopTypes
  <2>6. PICK m \in Nat : m = n + 1
    BY <1>2
  <2>7. response'[c] = Run(m)
    BY <1>2, <2>5, <2>6, RunAppend
  <2>9. n < m
    <3>1. n \in Nat /\ m = n + 1
      BY <1>2, <2>6
    <3> QED
      BY <3>1
  <2>8. \A d \in Completions : d # c => response'[d] = response[d]
    BY <1>4 DEF LoopsInv, LoopTypes
  <2> QED
    BY <1>1, <1>2, <1>4, <2>2, <2>7, <2>8, <2>9, AbstractExtend
<1> QED
  BY <1>3, <1>4 DEF _handle_processing_tools_state

LEMMA AbstractCompleted ==
  ASSUME LoopsInv, NEW c \in Completions, Completed(c)
  PROVE  Abstract!Next
<1>1. /\ loop_pc[c] = "reward" /\ rewards' = [rewards EXCEPT ![c] = @ + 1]
      /\ UNCHANGED << status, response, version, grown >>
  BY DEF Completed
<1>2. Abstract!Working(c) /\ rewards[c] = 0
  BY <1>1, WorkingLoop
<1>3. PICK n \in Nat : n = Place(c) /\ response[c] = Run(n)
  BY ResponsePlace
<1>4. LoopInv(c)
  BY DEF LoopsInv
<1>5. Whole(c)
  BY <1>1, <1>4 DEF LoopInv, ControlFlowInv
<1>6. n > 0
  <2>1. n + 1 \in Observations[c] => n >= 2
    BY <1>3, BehindObservation
  <2>2. Length[c] > 0 /\ ResponseLength > 0
    BY TranscriptTypes, AgentLoopsAssumption
  <2> QED
    BY <1>3, <1>5, <2>1, <2>2, AgentLoopsAssumption DEF Whole
<1>7. CutAt(n) \in Nat /\ CutAt(n) > 0
  BY <1>3, <1>6, AgentLoopsAssumption DEF CutAt
<1>8. Cut(c) = Run(CutAt(n)) /\ Len(Run(CutAt(n))) = CutAt(n)
  BY <1>3, <1>7, CutRun, RunFacts
<1>9. Cut(c) # << >>
  <2>1. Len(<< >>) = 0
    OBVIOUS
  <2> QED
    BY <1>7, <1>8, <2>1
<1>10. [d \in Completions |-> Cut(d)]' = [d \in Completions |-> Cut(d)]
  <2>1. \A d \in Completions : Cut(d)' = Cut(d)
    BY <1>1 DEF Cut
  <2> QED
    BY <2>1
<1>11. rewards' = [rewards EXCEPT ![c] = 1]
  BY <1>1, <1>2
<1>12. Abstract!Score(c)
  BY <1>1, <1>2, <1>9, <1>10, <1>11 DEF Abstract!Score
<1> QED
  BY <1>12, AbstractMembers DEF Abstract!Next

LEMMA SameText ==
  ASSUME UNCHANGED response
  PROVE  [d \in Completions |-> Cut(d)]' = [d \in Completions |-> Cut(d)]
<1>1. \A d \in Completions : Cut(d)' = Cut(d)
  BY DEF Cut
<1> QED
  BY <1>1

LEMMA AbstractSample ==
  ASSUME LoopsInv, NEW s \in Samples, SampleStep(s)
  PROVE  Abstract!Next
<1>1. UNCHANGED << response, rewards, version >>
  BY DEF SampleStep, generate_single_sample_async, generate_sequences_no_post
<1>2. CASE generate_single_sample_async(s)
  <2>1. Abstract!Start(s)
    BY <1>1, <1>2, SameText DEF Abstract!Start, generate_single_sample_async
  <2> QED
    BY <2>1 DEF Abstract!Next
<1>3. CASE generate_sequences_no_post(s)
  <2>1. /\ status[s] = "running" /\ \A c \in Members[s] : loop_pc[c] = "returned"
        /\ status' = [status EXCEPT ![s] =
             IF \E c \in Members[s] : output[c] = "cancelled" THEN "interrupted" ELSE "finished"]
        /\ grown' = grown \ Members[s]
    BY <1>3 DEF generate_sequences_no_post
  <2>2. \A c \in Members[s] : /\ output[c] \in {"cancelled", "completed"}
                              /\ rewards[c] = IF output[c] = "completed" THEN 1 ELSE 0
    <3> SUFFICES ASSUME NEW c \in Members[s]
                 PROVE  /\ output[c] \in {"cancelled", "completed"}
                        /\ rewards[c] = IF output[c] = "completed" THEN 1 ELSE 0
      OBVIOUS
    <3>1. c \in Completions /\ loop_pc[c] = "returned"
      BY <2>1, SamplesAre
    <3>2. LoopInv(c) /\ output[c] \in {"none", "cancelled", "completed"}
      BY <3>1 DEF LoopsInv, LoopTypes
    <3> QED
      BY <3>1, <3>2 DEF LoopInv, ControlFlowInv, HasOutput
  <2>3. CASE \E c \in Members[s] : output[c] = "cancelled"
    <3>1. Abstract!Interrupt(s)
      BY <1>1, <2>1, <2>2, <2>3, SameText DEF Abstract!Interrupt
    <3> QED
      BY <3>1 DEF Abstract!Next
  <2>4. CASE ~ \E c \in Members[s] : output[c] = "cancelled"
    <3>1. \A c \in Members[s] : rewards[c] = 1
      BY <2>2, <2>4
    <3>2. Abstract!Finish(s)
      BY <1>1, <2>1, <2>4, <3>1, SameText DEF Abstract!Finish
    <3> QED
      BY <3>2 DEF Abstract!Next
  <2> QED
    BY <2>3, <2>4
<1> QED
  BY <1>2, <1>3 DEF SampleStep

LEMMA AbstractStep ==
  ASSUME LoopsInv, [Next]_vars
  PROVE  Abstract!Next \/ UNCHANGED Abstract!absVars
<1>1. CASE \E s \in Samples : SampleStep(s)
  BY <1>1, AbstractSample
<1>2. CASE \E c \in Completions : LoopStep(c)
  <2>1. PICK c \in Completions : LoopStep(c)
    BY <1>2
  <2>2. CASE HandleAnswer(c)
    BY <2>2, AbstractAnswer
  <2>3. CASE _handle_processing_tools_state(c)
    BY <2>3, AbstractToolAnswer
  <2>4. CASE Completed(c)
    BY <2>4, AbstractCompleted
  <2>5. CASE ~ HandleAnswer(c) /\ ~ _handle_processing_tools_state(c) /\ ~ Completed(c)
    <3>1. UNCHANGED << status, response, rewards, version, grown >>
      BY <2>1, <2>5 DEF LoopStep, SingleTurn, Cancelled, _handle_pending_state, Generate, CallTool,
                        _compute_score
    <3> QED
      BY <3>1, AbstractStutter
  <2> QED
    BY <2>2, <2>3, <2>4, <2>5
<1>3. CASE UpdateParamVersion
  <2>1. control = "transfer" /\ version' = version + 1 /\ UNCHANGED << status, response, rewards, grown >>
    BY <1>3 DEF UpdateParamVersion
  <2>2. grown = {}
    <3>1. grown \subseteq Completions /\ \A c \in Completions : FrozenInv(c)
      BY DEF LoopsInv, LoopTypes, LoopInv
    <3> QED
      BY <2>1, <3>1 DEF FrozenInv, Frozen
  <2>3. Abstract!Update
    BY <2>1, <2>2, SameText DEF Abstract!Update
  <2> QED
    BY <2>3 DEF Abstract!Next
<1>4. CASE \/ \E c \in Completions : ServerSteps(c) \/ ToolRuns(c) \/ RewardSteps(c)
           \/ PoolSteps \/ TimePasses \/ (ControlStep /\ ~ UpdateParamVersion) \/ UNCHANGED vars
  <2>1. ControlStep /\ ~ UpdateParamVersion => UNCHANGED << status, response, rewards, version, grown >>
    BY DEF ControlStep, Synchronization, Delivery, Pause, MonitorResume, AllReturned, Resume, Resumed,
           DeliverToServer, DeliverToWorker
  <2>2. UNCHANGED << status, response, rewards, version, grown >>
    BY <1>4, <2>1 DEF ServerSteps, ToolRuns, RewardSteps, PoolSteps, TimePasses, restOfServer,
                      restOfPool, restOfLimiter, vars
  <2> QED
    BY <2>2, AbstractStutter
<1>5. \/ (\E c \in Completions : ServerSteps(c)) \/ (\E c \in Completions : ToolRuns(c))
      \/ (\E c \in Completions : RewardSteps(c))
      => \E c \in Completions : ServerSteps(c) \/ ToolRuns(c) \/ RewardSteps(c)
  OBVIOUS
<1> QED
  BY <1>1, <1>2, <1>3, <1>4, <1>5, NextSteps

LEMMA AbstractInitial == Init => Abstract!Init
<1> SUFFICES ASSUME Init PROVE Abstract!Init
  OBVIOUS
<1>1. /\ response = [c \in Completions |-> << >>] /\ rewards = [c \in Completions |-> 0]
      /\ status = [s \in Samples |-> "new"] /\ version = 0 /\ grown = {}
  BY DEF Init
<1>2. \A c \in Completions : Cut(c) = << >>
  <2>1. Len(<< >>) = 0 /\ ~ (0 > ResponseLength)
    BY AgentLoopsAssumption
  <2> QED
    BY <1>1, <2>1 DEF Cut
<1> QED
  BY <1>1, <1>2, AbstractMembers DEF Abstract!Init

(* Partial rollout, with its servers, cancels, workers, tools and rewards, *)
(* keeps the promise of PartialGeneration: a response only grows along its *)
(* transcript until it is scored, once; a sample is finished when all its  *)
(* responses are; and the weights change under no response that has grown  *)
(* since its sample was submitted.  Samples that are submitted in a        *)
(* transfer, because the monitor has undone the pause, keep it too: the    *)
(* servers and workers are still cancelled until resume().                 *)
THEOREM PartialGenerationCorrect == Spec => PartialGenerationRefined
<1>1. Inv /\ [Next]_vars => [Abstract!Next]_(Abstract!absVars)
  BY AbstractStep DEF Inv
<1> QED
  BY <1>1, AbstractInitial, InvInductive, PTL DEF Spec, PartialGenerationRefined, Abstract!Spec

=============================================================================
