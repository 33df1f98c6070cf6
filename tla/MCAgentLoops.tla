---------------------------- MODULE MCAgentLoops ----------------------------
(***************************************************************************)
(* AgentLoops for TLC: two responses to one prompt, whose tool calls, if   *)
(* the prompt has tools, are answered with room for more (3) and without   *)
(* (4); two servers, one tool call and one reward at a time; and rewards   *)
(* that need the whole burst of requests and more than the burst of tokens.*)
(***************************************************************************)
EXTENDS AgentLoopsProperties

MCMembers == << {1, 2} >>
MCLength == << 5, 5 >>
MCObservations == << {3}, {4} >>
MCBuckets == << "rpm", "tpm" >>
MCNeed == [rpm |-> 1, tpm |-> 2]
MCBurst == [rpm |-> 1, tpm |-> 1]

(***************************************************************************)
(* Servers and reward workers are alike until they are used, and a         *)
(* response is scored once, so what response 1 uses first may have any     *)
(* number.  Loops with tools keep the server they begin on (sticky         *)
(* session): here each has its own, and their rewards contend for one      *)
(* worker; the single-turn loops of the same instance take any.            *)
(***************************************************************************)
Assigned ==
  \A c \in Completions :
    /\ request'[c].at = "sent" /\ (c \in ToolAgents \/ (c = 1 /\ output[c] = "none"))
         => request'[c].server = c
    /\ reward_job'[c].at = "acquire" /\ (c \in ToolAgents \/ c = 1)
         => reward_job'[c].worker = 1

=============================================================================
