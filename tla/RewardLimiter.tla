---------------------------- MODULE RewardLimiter ----------------------------
(***************************************************************************)
(* RateLimitedRewardManager.run_single and AsyncTokenBucket.acquire        *)
(* (verl/experimental/reward_loop/reward_manager/limited.py): a reward     *)
(* request passes the token buckets, requests per minute before tokens per *)
(* minute, then the semaphore, and is computed under a timeout.            *)
(*                                                                         *)
(* Time goes in ticks.  A bucket's tokens are counted in what it gains in  *)
(* a tick, so that any rate is one; they are added at every tick instead   *)
(* of at the next look at the clock.  A bucket sees requests of one size,  *)
(* Need[b].                                                                *)
(*                                                                         *)
(* Buckets and semaphore are attributes of the class in each reward loop   *)
(* process (reward_model.num_workers of them): every process has its own,  *)
(* with the whole of the configured limits.                                *)
(***************************************************************************)
EXTENDS Integers, Sequences, FiniteSets

CONSTANTS
  Requesters,
  NumRewardWorkers,
  Buckets,        \* the bucket names in the order in which they are passed
  Need, Burst,    \* per bucket: size of a request, max_tokens
  MaxConcurrent   \* permits of the semaphore

ASSUME RewardLimiterAssumption ==
  /\ NumRewardWorkers \in Nat \ {0}
  /\ MaxConcurrent \in Nat \ {0} /\ Buckets \in Seq({"rpm", "tpm"})
  /\ \A i \in DOMAIN Buckets :
       Need[Buckets[i]] \in Nat \ {0} /\ Burst[Buckets[i]] \in Nat \ {0}

RewardWorkers == 1..NumRewardWorkers

VARIABLES
  tokens,         \* tokens[w][b], negative after a request larger than the burst
  reward_job,     \* reward_job[c]: in which process and where run_single is
  waiters,        \* waiters[w] of the semaphore, in order
  passed          \* history: passed[w][b], what a bucket of the documented
                  \* burst and rate has left after the requests let through

limiterVars == << tokens, reward_job, waiters, passed >>

BucketNames == { Buckets[i] : i \in DOMAIN Buckets }
Bigger(a, b) == IF a > b THEN a ELSE b
Smaller(a, b) == IF a < b THEN a ELSE b
\* a request larger than the burst may pass as a whole
Allowance(b) == Bigger(Need[b], Burst[b])

NoJob == [at |-> "none"]
\* about to acquire from bucket number layer, and asleep before it
Acquiring(w, layer) == [at |-> "acquire", worker |-> w, layer |-> layer]
Asleep(w, layer, wait, reserved) ==
  [at |-> "sleep", worker |-> w, layer |-> layer, wait |-> wait, reserved |-> reserved]
Queued(w) == [at |-> "semaphore", worker |-> w]
Calling(w) == [at |-> "call", worker |-> w]
Scored == [at |-> "scored"]

LimiterInit ==
  /\ tokens = [w \in RewardWorkers |-> [b \in BucketNames |-> Burst[b]]]
  /\ reward_job = [c \in Requesters |-> NoJob]
  /\ waiters = [w \in RewardWorkers |-> << >>]
  /\ passed = [w \in RewardWorkers |-> [b \in BucketNames |-> Allowance(b)]]

run_single(c, w) ==
  /\ reward_job[c] = NoJob
  /\ reward_job' = [reward_job EXCEPT ![c] = Acquiring(w, 1)]
  /\ UNCHANGED << tokens, waiters, passed >>

At(c, state) == reward_job[c].at = state
Process(c) == reward_job[c].worker
Bucket(c) == Buckets[reward_job[c].layer]
Pass(c) ==
  /\ reward_job' = [reward_job EXCEPT ![c] = Acquiring(@.worker, @.layer + 1)]
  /\ passed' = [passed EXCEPT ![Process(c)][Bucket(c)] = @ - Need[Bucket(c)]]
Sleep(c, reserved) ==
  LET b == Bucket(c)
  IN  /\ reward_job' = [reward_job EXCEPT ![c] =
           Asleep(@.worker, @.layer, Need[b] - tokens[@.worker][b], reserved)]
      /\ UNCHANGED passed

\* Variant: only a request that finds enough is charged.
ChargedIfEnough(b, left) == IF left >= Need[b] THEN left - Need[b] ELSE left

\* what bucket b has left after a request has looked at it
Charged(b, left) == IF Need[b] > Burst[b] \/ left >= Need[b] THEN left - Need[b] ELSE left

\* A request larger than the burst takes its tokens before it sleeps, once;
\* any other sleeps and looks again.
acquire_tokens(c) ==
  /\ At(c, "acquire")
  /\ reward_job[c].layer <= Len(Buckets)
  /\ LET b == Bucket(c)
         oversized == Need[b] > Burst[b]
     IN  /\ tokens' = [tokens EXCEPT ![Process(c)][b] = Charged(b, @)]
         /\ IF tokens[Process(c)][b] >= Need[b] THEN Pass(c) ELSE Sleep(c, oversized)
  /\ UNCHANGED waiters

Wake(c) ==
  /\ At(c, "sleep")
  /\ reward_job[c].wait = 0
  /\ IF reward_job[c].reserved THEN Pass(c)
     ELSE /\ reward_job' = [reward_job EXCEPT ![c] = Acquiring(@.worker, @.layer)]
          /\ UNCHANGED passed
  /\ UNCHANGED << tokens, waiters >>

\* timers are on time: the clock goes on when nobody is due
Tick ==
  /\ \A c \in Requesters : At(c, "sleep") => reward_job[c].wait > 0
  /\ \/ \E c \in Requesters : At(c, "sleep") /\ reward_job[c].wait > 0
     \/ \E w \in RewardWorkers, b \in BucketNames :
          tokens[w][b] < Burst[b] \/ passed[w][b] < Allowance(b)
  /\ tokens' = [w \in RewardWorkers |->
       [b \in BucketNames |-> Smaller(Burst[b], tokens[w][b] + 1)]]
  /\ passed' = [w \in RewardWorkers |->
       [b \in BucketNames |-> Smaller(Allowance(b), passed[w][b] + 1)]]
  /\ reward_job' = [c \in Requesters |->
       IF At(c, "sleep") THEN [reward_job[c] EXCEPT !.wait = Bigger(0, @ - 1)]
       ELSE reward_job[c]]
  /\ UNCHANGED waiters

InCall(w) == { c \in Requesters : reward_job[c] = Calling(w) }

\* the semaphore is free, or the request waits behind the others
EnterSemaphore(c) ==
  /\ At(c, "acquire")
  /\ reward_job[c].layer > Len(Buckets)
  /\ LET w == Process(c)
     IN  IF Cardinality(InCall(w)) < MaxConcurrent /\ waiters[w] = << >>
         THEN reward_job' = [reward_job EXCEPT ![c] = Calling(w)] /\ UNCHANGED waiters
         ELSE /\ reward_job' = [reward_job EXCEPT ![c] = Queued(w)]
              /\ waiters' = [waiters EXCEPT ![w] = Append(@, c)]
  /\ UNCHANGED << tokens, passed >>

\* The call returns a score, or raises or times out, which is a score of 0
\* and is handed on like any other; the permit goes to the next waiter.
_compute_reward(c) ==
  /\ At(c, "call")
  /\ LET w == Process(c)
     IN  /\ reward_job' = [d \in Requesters |->
              IF d = c THEN Scored
              ELSE IF waiters[w] # << >> /\ d = Head(waiters[w]) THEN Calling(w)
              ELSE reward_job[d]]
         /\ waiters' = [waiters EXCEPT ![w] = IF @ = << >> THEN @ ELSE Tail(@)]
  /\ UNCHANGED << tokens, passed >>

TakeScore(c) ==
  /\ At(c, "scored")
  /\ reward_job' = [reward_job EXCEPT ![c] = NoJob]
  /\ UNCHANGED << tokens, waiters, passed >>

LimiterStep(c) == acquire_tokens(c) \/ Wake(c) \/ EnterSemaphore(c) \/ _compute_reward(c)

=============================================================================
