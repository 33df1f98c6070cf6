------------------------------ MODULE LLMServer ------------------------------
(***************************************************************************)
(* The servers of partial rollout (vLLMHttpServerForPartial): a request is *)
(* a generation task raced against a cancel event, cancel() pauses the     *)
(* server and sets the events of the requests it knows, and a paused       *)
(* server answers at once with nothing.  The critical sections under the   *)
(* server's lock do not await, so each is one step.                        *)
(*                                                                         *)
(* A token is its place in the transcript of its completion, which is the  *)
(* text the policy would write undisturbed with the tool's answers in it.  *)
(* The engine continues a prompt behind its last token up to the end of    *)
(* the turn.                                                               *)
(***************************************************************************)
EXTENDS Integers, Sequences

CONSTANTS
  Servers,
  Completions,    \* the responses to generate, several of a sample
  Length,         \* Length[c]: tokens of the transcript of c
  Observations    \* Observations[c]: the places of the tool's answers in it

ASSUME LLMServerAssumption ==
  \A c \in Completions :
    /\ Length[c] \in Nat \ {0}
    /\ Observations[c] \subseteq 3..(Length[c] - 1)
    /\ \A o \in Observations[c] : {o - 2, o - 1} \cap Observations[c] = {}

VARIABLES
  server_paused,  \* server_paused[s]
  request         \* request[c]: the generate_for_partial call of c, if any

serverVars == << server_paused, request >>

\* a call on its way to a server, being generated, and answered
NoRequest == [at |-> "none"]
Sent(s, prompt) == [at |-> "sent", server |-> s, prompt |-> prompt]
Generating(s, prompt) ==
  [at |-> "generating", server |-> s, prompt |-> prompt, req_output |-> << >>,
   cancel_event |-> FALSE, generated |-> FALSE]
Answered(token_ids, is_cancel) ==
  [at |-> "answered", token_ids |-> token_ids, is_cancel |-> is_cancel]

ServersInit ==
  /\ server_paused = [s \in Servers |-> FALSE]
  /\ request = [c \in Completions |-> NoRequest]

\* Variant: generation does not stop at the end of the transcript.
LastTokenEndless(c, place) == place + 1 \in Observations[c]

LastToken(c, place) == place = Length[c] \/ place + 1 \in Observations[c]

StartGeneration(c) ==
  /\ request[c].at = "sent"
  /\ request' = [request EXCEPT ![c] =
       IF server_paused[@.server] THEN Answered(<< >>, TRUE)
       ELSE Generating(@.server, @.prompt)]
  /\ UNCHANGED server_paused

\* The engine streams the output so far; the generation task is over with
\* the output that finishes.
_generate_step(c) ==
  /\ request[c].at = "generating"
  /\ ~request[c].generated
  /\ LET text == request[c].prompt \o request[c].req_output
         next == IF text = << >> THEN 1 ELSE text[Len(text)] + 1
     IN  request' = [request EXCEPT ![c].req_output = Append(@, next),
                                    ![c].generated = LastToken(c, next)]
  /\ UNCHANGED server_paused

\* Variant: an answer is cancelled if the event is set, finished or not.
PartialByEvent(c) ==
  /\ request[c].at = "generating"
  /\ request[c].generated \/ request[c].cancel_event
  /\ request' = [request EXCEPT ![c] = Answered(@.req_output, @.cancel_event)]
  /\ UNCHANGED server_paused

\* whatever is there when the wait is over counts, and is a cancelled answer
\* only if the generation is not over
generate_for_partial(c) ==
  /\ request[c].at = "generating"
  /\ request[c].generated \/ request[c].cancel_event
  /\ request' = [request EXCEPT ![c] = Answered(@.req_output, ~@.generated)]
  /\ UNCHANGED server_paused

cancel(s) ==
  /\ server_paused' = [server_paused EXCEPT ![s] = TRUE]
  /\ request' = [c \in Completions |->
       IF request[c].at = "generating" /\ request[c].server = s
       THEN [request[c] EXCEPT !.cancel_event = TRUE] ELSE request[c]]

resume(s) ==
  /\ server_paused' = [server_paused EXCEPT ![s] = FALSE]
  /\ UNCHANGED request

ServerStep(c) == StartGeneration(c) \/ _generate_step(c) \/ generate_for_partial(c)

=============================================================================
