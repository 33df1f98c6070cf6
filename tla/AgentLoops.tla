------------------------------ MODULE AgentLoops ------------------------------
(***************************************************************************)
(* Partial rollout (verl/experimental/fully_async_policy/agent_loop):      *)
(* agent loop workers run one loop for each response of a sample, single   *)
(* turn or with tools, on servers that the pause of a weight               *)
(* synchronization cancels (LLMServer), with a shared pool of tool calls   *)
(* (ToolPool) and a rate-limited reward (RewardLimiter).                   *)
(*                                                                         *)
(* The Rollouter is reduced to what the loops see of it: samples are       *)
(* submitted while it is not paused, pause() cancels workers and servers   *)
(* in any order and waits for the samples, its monitor may undo the pause  *)
(* before the new version is there, and resume() undoes it in any case.    *)
(* The Rollouter's own pauses, for stale samples, are left out, and so are *)
(* interactions and limits on the number of turns.                         *)
(***************************************************************************)
EXTENDS LLMServer, ToolPool, RewardLimiter

CONSTANTS
  Samples,
  Members,          \* Members[s]: the completions of s
  AgentNames,       \* the agent loops samples may ask for: "tool_agent"
                    \* (AsyncPartialToolAgentLoop), "single_turn_agent"
  NumWorkers,
  ResponseLength,
  MaxPauses         \* bound: weight synchronizations

ASSUME AgentLoopsAssumption ==
  /\ Callers = Completions /\ Requesters = Completions
  /\ UNION { Members[s] : s \in Samples } = Completions
  /\ \A s, t \in Samples : s # t => Members[s] \cap Members[t] = {}
  /\ AgentNames \subseteq {"tool_agent", "single_turn_agent"}
  /\ NumWorkers \in Nat \ {0} /\ ResponseLength \in Nat \ {0} /\ MaxPauses \in Nat

Workers == 1..NumWorkers

VARIABLES
  agent_name,           \* agent_name[s], from the dataset
  (* the agent loops *)
  loop_pc,              \* loop_pc[c]
  agent_state,          \* agent_state[c] of the tool state machine
  response,             \* response[c]: the response_ids so far
  response_mask,        \* response_mask[c]: 1 for the policy's tokens
  output,               \* output[c]: the last AgentLoopOutput, by is_cancel
  versions,             \* versions[c]: param_version_start and _end
  written,              \* history: versions under which tokens were generated
  strays,               \* history: loops last started before a new version
                        \* that they see
  cut,                  \* history: cut[c], the length of the response at its
                        \* last cancelled answer
  grown,                \* history: loops that have added to their response
                        \* since their sample was submitted
  rewards,              \* history: rewards computed for c
  (* workers and their server managers *)
  cancellation_event,   \* cancellation_event[w]
  request_id_to_server, \* request_id_to_server[w][c], 0 if not known
  (* AgentLoopManager and Rollouter *)
  worker_of,            \* worker_of[s]
  next_worker,          \* _worker_index
  status,               \* status[s]
  paused,
  control,              \* where pause(), the update and resume() are
  undelivered,          \* its cancel or resume calls under way
  version, pauses

loopVars == << loop_pc, agent_state, response, response_mask, output, versions, written, strays,
               cut, grown, rewards >>
workerVars == << cancellation_event, request_id_to_server >>
managerVars == << agent_name, worker_of, next_worker, status >>
controlVars == << paused, control, undelivered, version, pauses >>
vars == << serverVars, poolVars, limiterVars, loopVars, workerVars, managerVars, controlVars >>

ToWorker(w) == << "worker", w >>
ToServer(s) == << "server", s >>
Everyone == { ToWorker(w) : w \in Workers } \cup { ToServer(s) : s \in Servers }

SampleOf(c) == CHOOSE s \in Samples : c \in Members[s]
Worker(c) == worker_of[SampleOf(c)]

ToolAgents == { c \in Completions : agent_name[SampleOf(c)] = "tool_agent" }

Init ==
  /\ agent_name \in [Samples -> AgentNames]
  /\ ServersInit /\ PoolInit /\ LimiterInit
  /\ loop_pc = [c \in Completions |-> "idle"]
  /\ agent_state = [c \in Completions |-> "PENDING"]
  /\ response = [c \in Completions |-> << >>]
  /\ response_mask = [c \in Completions |-> << >>]
  /\ output = [c \in Completions |-> "none"]
  /\ versions = [c \in Completions |-> [start |-> 0, end |-> 0]]
  /\ written = [c \in Completions |-> {}]
  /\ strays = {}
  /\ cut = [c \in Completions |-> 0]
  /\ grown = {}
  /\ rewards = [c \in Completions |-> 0]
  /\ cancellation_event = [w \in Workers |-> FALSE]
  /\ request_id_to_server = [w \in Workers |-> [c \in Completions |-> 0]]
  /\ worker_of = [s \in Samples |-> 1]
  /\ next_worker = 1
  /\ status = [s \in Samples |-> "new"]
  /\ paused = FALSE
  /\ control = "running"
  /\ undelivered = {}
  /\ version = 0
  /\ pauses = 0

-----------------------------------------------------------------------------
(* AgentLoopManager.generate_single_sample_async and the worker's          *)
(* generate_sequences_no_post.                                             *)

\* Variant: the loops of an interrupted sample all run again.
HasOutputNever(c) == FALSE

HasOutput(c) == output[c] = "completed"

\* The loops of a submitted sample that run.
Restarted(s) == { c \in Members[s] : ~HasOutput(c) }

\* Not while resume() holds the lock.  Round robin; completed responses of an
\* interrupted sample are kept; the version is the Rollouter's at this moment.
generate_single_sample_async(s) ==
  /\ ~paused /\ control # "resuming"
  /\ status[s] \in {"new", "interrupted"}
  /\ status' = [status EXCEPT ![s] = "running"]
  /\ worker_of' = [worker_of EXCEPT ![s] = next_worker]
  /\ next_worker' = (next_worker % NumWorkers) + 1
  /\ loop_pc' = [c \in Completions |->
       IF c \notin Members[s] THEN loop_pc[c]
       ELSE IF HasOutput(c) THEN "returned"
       ELSE IF c \in ToolAgents THEN "top" ELSE "single_turn"]
  /\ versions' = [c \in Completions |->
       IF c \notin Restarted(s) THEN versions[c]
       ELSE IF output[c] = "none" THEN [start |-> version, end |-> version]
       ELSE [versions[c] EXCEPT !.end = version]]
  /\ strays' = IF control = "transfer" THEN strays \cup Restarted(s) ELSE strays \ Restarted(s)
  /\ UNCHANGED << serverVars, poolVars, limiterVars, agent_state, response, response_mask,
                  output, written, cut, grown, rewards, workerVars, agent_name, controlVars >>

\* gather: the sample is cancelled if any of its loops was
generate_sequences_no_post(s) ==
  /\ status[s] = "running"
  /\ \A c \in Members[s] : loop_pc[c] = "returned"
  /\ status' = [status EXCEPT ![s] =
       IF \E c \in Members[s] : output[c] = "cancelled" THEN "interrupted" ELSE "finished"]
  /\ loop_pc' = [c \in Completions |-> IF c \in Members[s] THEN "idle" ELSE loop_pc[c]]
  /\ grown' = grown \ Members[s]
  /\ UNCHANGED << serverVars, poolVars, limiterVars, agent_state, response, response_mask,
                  output, versions, written, strays, cut, rewards, workerVars, agent_name,
                  worker_of, next_worker, controlVars >>

-----------------------------------------------------------------------------
(* The loops.                                                              *)

\* the server that has had this request_id, or else one of the least loaded;
\* the loads are left out
_choose_server(known) == IF known # 0 THEN {known} ELSE Servers

Send(c, s) == request' = [request EXCEPT ![c] = Sent(s, response[c])]

\* Every call has a new request_id, whose server is never looked up again.
SingleTurn(c) ==
  /\ loop_pc[c] = "single_turn"
  /\ \E s \in _choose_server(0) : Send(c, s)
  /\ loop_pc' = [loop_pc EXCEPT ![c] = "generate"]
  /\ UNCHANGED << server_paused, poolVars, limiterVars, agent_state, response, response_mask,
                  output, versions, written, strays, cut, grown, rewards, workerVars,
                  managerVars, controlVars >>

\* _run_state_machine: the event first, whatever the state
Cancelled(c) ==
  /\ loop_pc[c] = "top"
  /\ cancellation_event[Worker(c)]
  /\ loop_pc' = [loop_pc EXCEPT ![c] = "returned"]
  /\ output' = [output EXCEPT ![c] = "cancelled"]
  /\ UNCHANGED << serverVars, poolVars, limiterVars, agent_state, response, response_mask,
                  versions, written, strays, cut, grown, rewards, workerVars, managerVars,
                  controlVars >>

NextState(c, state) ==
  /\ loop_pc[c] = "top"
  /\ ~cancellation_event[Worker(c)]
  /\ agent_state[c] = state

_handle_pending_state(c) ==
  /\ NextState(c, "PENDING")
  /\ agent_state' = [agent_state EXCEPT ![c] = "GENERATING"]
  /\ UNCHANGED << serverVars, poolVars, limiterVars, loop_pc, response, response_mask, output,
                  versions, written, strays, cut, grown, rewards, workerVars, managerVars,
                  controlVars >>

\* the request_id stays that of the agent data: its server is remembered
Generate(c) ==
  /\ NextState(c, "GENERATING")
  /\ \E s \in _choose_server(request_id_to_server[Worker(c)][c]) :
       /\ Send(c, s)
       /\ request_id_to_server' = [request_id_to_server EXCEPT ![Worker(c)][c] = s]
  /\ loop_pc' = [loop_pc EXCEPT ![c] = "generate"]
  /\ UNCHANGED << server_paused, poolVars, limiterVars, agent_state, response, response_mask,
                  output, versions, written, strays, cut, grown, rewards, cancellation_event,
                  managerVars, controlVars >>

\* A call is found if its text, the two tokens before the tool's answer, is
\* in what this request has returned: earlier fragments are not looked at.
extract_tool_calls(c, token_ids) ==
  \E o \in Observations[c] :
    {o - 2, o - 1} \subseteq { token_ids[i] : i \in DOMAIN token_ids }

Truncated(c, ids) == IF c \in ToolAgents \/ Len(ids) <= ResponseLength THEN ids
                     ELSE SubSeq(ids, 1, ResponseLength)
Ones(n) == [i \in 1..n |-> 1]

AppendTokens(c, token_ids, is_cancel) ==
  LET ids == Truncated(c, response[c] \o token_ids)
  IN  /\ response' = [response EXCEPT ![c] = ids]
      /\ response_mask' = [response_mask EXCEPT ![c] =
           IF c \in ToolAgents THEN @ \o Ones(Len(token_ids)) ELSE Ones(Len(ids))]
      /\ written' = [written EXCEPT ![c] =
           IF token_ids = << >> THEN @ ELSE @ \cup {version}]
      /\ grown' = IF token_ids = << >> THEN grown ELSE grown \cup {c}
      /\ cut' = [cut EXCEPT ![c] = IF is_cancel THEN Len(ids) ELSE @]

\* the answer to the request of a loop, in the order of the code's tests
HandleAnswer(c) ==
  /\ loop_pc[c] = "generate"
  /\ request[c].at = "answered"
  /\ LET answer == request[c]
         full == Len(response[c]) + Len(answer.token_ids) >= ResponseLength
         tool == c \in ToolAgents /\ ~full /\ ~answer.is_cancel
                   /\ extract_tool_calls(c, answer.token_ids)
         interrupted == answer.is_cancel /\ ~full
     IN  /\ AppendTokens(c, answer.token_ids, answer.is_cancel)
         /\ loop_pc' = [loop_pc EXCEPT ![c] =
              IF tool \/ (interrupted /\ c \in ToolAgents) THEN "top"
              ELSE IF interrupted THEN "returned" ELSE "postprocess"]
         /\ output' = [output EXCEPT ![c] =
              IF interrupted /\ c \notin ToolAgents THEN "cancelled" ELSE @]
         /\ agent_state' = [agent_state EXCEPT ![c] = IF tool THEN "PROCESSING_TOOLS" ELSE @]
  /\ request' = [request EXCEPT ![c] = NoRequest]
  /\ UNCHANGED << server_paused, poolVars, limiterVars, versions, strays, rewards, workerVars,
                  managerVars, controlVars >>

CallTool(c) ==
  /\ NextState(c, "PROCESSING_TOOLS")
  /\ execute(c)
  /\ loop_pc' = [loop_pc EXCEPT ![c] = "tool"]
  /\ UNCHANGED << serverVars, limiterVars, agent_state, response, response_mask, output,
                  versions, written, strays, cut, grown, rewards, workerVars, managerVars,
                  controlVars >>

\* the tool's answer is appended if it leaves room for another token
_handle_processing_tools_state(c) ==
  /\ loop_pc[c] = "tool"
  /\ TakeAnswer(c)
  /\ IF Len(response[c]) + 1 >= ResponseLength
     THEN /\ loop_pc' = [loop_pc EXCEPT ![c] = "postprocess"]
          /\ UNCHANGED << agent_state, response, response_mask, grown >>
     ELSE /\ loop_pc' = [loop_pc EXCEPT ![c] = "top"]
          /\ agent_state' = [agent_state EXCEPT ![c] = "GENERATING"]
          /\ response' = [response EXCEPT ![c] = Append(@, @[Len(@)] + 1)]
          /\ response_mask' = [response_mask EXCEPT ![c] = Append(@, 0)]
          /\ grown' = grown \cup {c}
  /\ UNCHANGED << serverVars, limiterVars, output, versions, written, strays, cut, rewards,
                  workerVars, managerVars, controlVars >>

\* _agent_loop_postprocess asks any of the reward loop workers for the score
_compute_score(c) ==
  /\ loop_pc[c] = "postprocess"
  /\ \E w \in RewardWorkers : run_single(c, w)
  /\ loop_pc' = [loop_pc EXCEPT ![c] = "reward"]
  /\ UNCHANGED << serverVars, poolVars, agent_state, response, response_mask, output, versions,
                  written, strays, cut, grown, rewards, workerVars, managerVars, controlVars >>

Completed(c) ==
  /\ loop_pc[c] = "reward"
  /\ TakeScore(c)
  /\ rewards' = [rewards EXCEPT ![c] = @ + 1]
  /\ output' = [output EXCEPT ![c] = "completed"]
  /\ loop_pc' = [loop_pc EXCEPT ![c] = "returned"]
  /\ UNCHANGED << serverVars, poolVars, agent_state, response, response_mask, versions, written,
                  strays, cut, grown, workerVars, managerVars, controlVars >>

LoopStep(c) ==
  \/ SingleTurn(c) \/ Cancelled(c) \/ _handle_pending_state(c) \/ Generate(c)
  \/ HandleAnswer(c) \/ CallTool(c) \/ _handle_processing_tools_state(c)
  \/ _compute_score(c) \/ Completed(c)

-----------------------------------------------------------------------------
(* FullyAsyncAgentLoopManager.cancel and resume, inside the Rollouter's    *)
(* pause and resume.                                                       *)

\* the lock is held until AllReturned
Pause ==
  /\ control = "running"
  /\ pauses < MaxPauses
  /\ pauses' = pauses + 1
  /\ paused' = TRUE
  /\ control' = "cancelling"
  /\ undelivered' = Everyone
  /\ UNCHANGED << serverVars, poolVars, limiterVars, loopVars, workerVars, managerVars, version >>

\* what a call does where it arrives
DeliverToServer(s) ==
  /\ ToServer(s) \in undelivered
  /\ IF control = "cancelling" THEN cancel(s) ELSE resume(s)
  /\ undelivered' = undelivered \ {ToServer(s)}
  /\ UNCHANGED << poolVars, limiterVars, loopVars, workerVars, managerVars, paused, control,
                  version, pauses >>

DeliverToWorker(w) ==
  /\ ToWorker(w) \in undelivered
  /\ cancellation_event' = [cancellation_event EXCEPT ![w] = control = "cancelling"]
  /\ undelivered' = undelivered \ {ToWorker(w)}
  /\ UNCHANGED << serverVars, poolVars, limiterVars, loopVars, request_id_to_server,
                  managerVars, paused, control, version, pauses >>

\* pause() has awaited the calls and then every active task
AllReturned ==
  /\ control = "cancelling"
  /\ undelivered = {}
  /\ \A s \in Samples : status[s] # "running"
  /\ control' = "transfer"
  /\ UNCHANGED << serverVars, poolVars, limiterVars, loopVars, workerVars, managerVars,
                  paused, undelivered, version, pauses >>

\* A monitor that has found the trigger set before pause() cleared it, and has
\* waited for the lock, has it before the update does.
MonitorResume ==
  /\ control = "transfer"
  /\ paused
  /\ paused' = FALSE
  /\ UNCHANGED << serverVars, poolVars, limiterVars, loopVars, workerVars, managerVars,
                  control, undelivered, version, pauses >>

\* the weights have been changed; the servers have been paused all the while
UpdateParamVersion ==
  /\ control = "transfer"
  /\ version' = version + 1
  /\ control' = "updated"
  /\ UNCHANGED << serverVars, poolVars, limiterVars, loopVars, workerVars, managerVars,
                  paused, undelivered, pauses >>

\* resume() holds the lock while it awaits its calls
Resume ==
  /\ control = "updated"
  /\ control' = "resuming"
  /\ undelivered' = Everyone
  /\ UNCHANGED << serverVars, poolVars, limiterVars, loopVars, workerVars, managerVars,
                  paused, version, pauses >>

Resumed ==
  /\ control = "resuming"
  /\ undelivered = {}
  /\ control' = "running"
  /\ paused' = FALSE
  /\ UNCHANGED << serverVars, poolVars, limiterVars, loopVars, workerVars, managerVars,
                  undelivered, version, pauses >>

Delivery ==
  \/ \E s \in Servers : DeliverToServer(s)
  \/ \E w \in Workers : DeliverToWorker(w)

Synchronization == Delivery \/ AllReturned \/ UpdateParamVersion \/ Resume \/ Resumed

-----------------------------------------------------------------------------
restOfServer == << poolVars, limiterVars, loopVars, workerVars, managerVars, controlVars >>
restOfPool == << serverVars, limiterVars, loopVars, workerVars, managerVars, controlVars >>
restOfLimiter == << serverVars, poolVars, loopVars, workerVars, managerVars, controlVars >>

ServerSteps(c) == ServerStep(c) /\ UNCHANGED restOfServer
PoolSteps == (acquire \/ release) /\ UNCHANGED restOfPool
ToolRuns(c) == Execution(c) /\ UNCHANGED restOfPool
RewardSteps(c) == LimiterStep(c) /\ UNCHANGED restOfLimiter
TimePasses == Tick /\ UNCHANGED restOfLimiter

SampleStep(s) == generate_single_sample_async(s) \/ generate_sequences_no_post(s)

\* the one chain of calls that goes on for a response: of the loop, or of the
\* server, the tool or the reward worker it waits for
CompletionStep(c) == LoopStep(c) \/ ServerSteps(c) \/ ToolRuns(c) \/ RewardSteps(c)

Next ==
  \/ \E s \in Samples : SampleStep(s)
  \/ \E c \in Completions : CompletionStep(c)
  \/ PoolSteps \/ TimePasses
  \/ Pause \/ Synchronization \/ MonitorResume

Spec == Init /\ [][Next]_vars

(***************************************************************************)
(* Event loops run every ready coroutine, remote calls arrive, engines and *)
(* tools answer, and the clock goes on.  Nothing makes the trainer pause,  *)
(* or the monitor wait for the lock when it does.                          *)
(***************************************************************************)
Fairness ==
  /\ \A s \in Samples : WF_vars(SampleStep(s))
  /\ \A c \in Completions : WF_vars(CompletionStep(c))
  /\ WF_vars(PoolSteps) /\ WF_vars(TimePasses)
  /\ WF_vars(Synchronization)

FairSpec == Spec /\ Fairness

=============================================================================
