------------------------------- MODULE ToolPool -------------------------------
(***************************************************************************)
(* The execution pool of verl/tools/sandbox_fusion_tools.py: a call takes  *)
(* a permit of the one TokenBucketWorker of the cluster, runs, and sends   *)
(* the permit back without waiting.  The acquire method has one thread: it *)
(* serves the calls in their order and blocks on the semaphore.            *)
(***************************************************************************)
EXTENDS Integers, Sequences

CONSTANTS
  Callers,        \* who may call the tool, one call each at a time
  RateLimit       \* rate_limit of the tool's configuration

ASSUME ToolPoolAssumption == RateLimit \in Nat \ {0}

VARIABLES
  tool_call,      \* tool_call[c]: none, acquiring, running or answered
  acquires,       \* the calls of acquire, in order
  permits,        \* of the semaphore
  releases        \* calls of release under way

poolVars == << tool_call, acquires, permits, releases >>

PoolInit ==
  /\ tool_call = [c \in Callers |-> "none"]
  /\ acquires = << >>
  /\ permits = RateLimit
  /\ releases = 0

execute(c) ==
  /\ tool_call[c] = "none"
  /\ tool_call' = [tool_call EXCEPT ![c] = "acquiring"]
  /\ acquires' = Append(acquires, c)
  /\ UNCHANGED << permits, releases >>

acquire ==
  /\ acquires # << >>
  /\ permits > 0
  /\ permits' = permits - 1
  /\ tool_call' = [tool_call EXCEPT ![Head(acquires)] = "running"]
  /\ acquires' = Tail(acquires)
  /\ UNCHANGED releases

\* Variant: the permit of a tool that raises is lost.
ExecutionLosesPermit(c) ==
  /\ tool_call[c] = "running"
  /\ tool_call' = [tool_call EXCEPT ![c] = "answered"]
  /\ releases' \in {releases, releases + 1}
  /\ UNCHANGED << acquires, permits >>

\* the tool returns, or raises, which is logged and returns nothing
Execution(c) ==
  /\ tool_call[c] = "running"
  /\ tool_call' = [tool_call EXCEPT ![c] = "answered"]
  /\ releases' = releases + 1
  /\ UNCHANGED << acquires, permits >>

release ==
  /\ releases > 0
  /\ releases' = releases - 1
  /\ permits' = permits + 1
  /\ UNCHANGED << tool_call, acquires >>

TakeAnswer(c) ==
  /\ tool_call[c] = "answered"
  /\ tool_call' = [tool_call EXCEPT ![c] = "none"]
  /\ UNCHANGED << acquires, permits, releases >>

=============================================================================
