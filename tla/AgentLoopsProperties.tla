------------------------- MODULE AgentLoopsProperties -------------------------
(***************************************************************************)
(* What partial rollout promises.                                          *)
(***************************************************************************)
EXTENDS AgentLoops

(* Types of the loops, of their requests and of what they share. *)
TypeOK ==
  /\ \A c \in Completions :
       /\ loop_pc[c] \in {"idle", "single_turn", "top", "generate", "tool", "postprocess",
                          "reward", "returned"}
       /\ agent_state[c] \in {"PENDING", "GENERATING", "PROCESSING_TOOLS"}
       /\ response[c] \in Seq(1..Length[c])
       /\ response_mask[c] \in Seq({0, 1})
       /\ output[c] \in {"none", "cancelled", "completed"}
       /\ request[c].at \in {"none", "sent", "generating", "answered"}
       /\ tool_call[c] \in {"none", "acquiring", "running", "answered"}
       /\ reward_job[c].at \in {"none", "acquire", "sleep", "semaphore", "call", "scored"}
  /\ \A w \in Workers : cancellation_event[w] \in BOOLEAN
  /\ \A s \in Samples : status[s] \in {"new", "running", "interrupted", "finished"}
  /\ strays \subseteq Completions /\ grown \subseteq Completions /\ cut \in [Completions -> Nat]
  /\ paused \in BOOLEAN
  /\ control \in {"running", "cancelling", "transfer", "updated", "resuming"}
  /\ undelivered \subseteq Everyone
  /\ version \in 0..MaxPauses /\ pauses \in 0..MaxPauses

Final(c) == response[c][Len(response[c])]

(* A response put together from the fragments of several requests, under   *)
(* several versions, with tool answers between them, is the policy's       *)
(* transcript: no token is lost at a cancel or generated twice, the mask   *)
(* marks exactly the tool's tokens, every token was generated under a      *)
(* version between param_version_start and param_version_end, or under the *)
(* one after it if the monitor let the loop start before that version was  *)
(* there, and a completed response is whole, cut at response_length, or    *)
(* ends with a tool call that is not answered: the loop has no tools, the  *)
(* last cancel came between the two tokens of the call, or the answer      *)
(* would not have fitted.                                                  *)
LastVersion(c) == IF c \in strays THEN versions[c].end + 1 ELSE versions[c].end

ResponsesContiguous ==
  \A c \in Completions :
    LET n == Len(response[c])
    IN  /\ response[c] = [i \in 1..n |-> i]
        /\ response_mask[c] = [i \in 1..n |-> IF i \in Observations[c] THEN 0 ELSE 1]
        /\ \A v \in written[c] : versions[c].start <= v /\ v <= LastVersion(c)
        /\ output[c] = "completed" =>
             \/ n >= ResponseLength
             \/ Final(c) = Length[c]
             \/ /\ Final(c) + 1 \in Observations[c]
                /\ c \in ToolAgents => cut[c] = n - 1 \/ n + 1 >= ResponseLength

(* Through cancels and tool errors, the tool calls of all the loops never  *)
(* exceed rate_limit and no permit is lost; and in each of the reward loop *)
(* processes, whichever the loops choose, the semaphore is never idle      *)
(* while a reward waits for it, and over any stretch of time the token     *)
(* buckets let through no more than one burst (or one request that is      *)
(* larger) and what their rate allows.                                     *)
RunningTools == { c \in Completions : tool_call[c] = "running" }

LimitsRespected ==
  /\ Cardinality(RunningTools) + releases + permits = RateLimit
  /\ permits >= 0
  /\ \A w \in RewardWorkers :
       /\ Cardinality(InCall(w)) <= MaxConcurrent
       /\ waiters[w] # << >> => Cardinality(InCall(w)) = MaxConcurrent
       /\ \A b \in BucketNames : passed[w][b] >= 0

(* "All limiters are shared globally across all workers": the rewards      *)
(* computed at the same time, in whichever reward loop process, are no     *)
(* more than max_concurrent.                                               *)
RewardLimitGlobal == Cardinality(UNION { InCall(w) : w \in RewardWorkers }) <= MaxConcurrent

(* Partial rollout implements PartialGeneration: responses only grow until *)
(* they are scored, once each; a sample finishes with all of them scored;  *)
(* and the weights never change under a response that has grown since its  *)
(* sample was submitted, the samples that the monitor lets through during  *)
(* a weight transfer included.                                             *)
Cut(c) == IF Len(response[c]) > ResponseLength THEN SubSeq(response[c], 1, ResponseLength)
          ELSE response[c]

Abstract == INSTANCE PartialGeneration
  WITH text <- [c \in Completions |-> Cut(c)], scores <- rewards

PartialGenerationRefined == Abstract!Spec

(* However the cancels and the loops, tools and rewards they meet are      *)
(* interleaved, and however often a sample is interrupted: every sample    *)
(* that pause() waits for returns, every pause ends, generation goes on    *)
(* and every sample is finished (the pauses are finitely many).            *)
PausesEndAndSamplesFinish ==
  <>[](control = "running" /\ \A s \in Samples : status[s] = "finished")

=============================================================================
