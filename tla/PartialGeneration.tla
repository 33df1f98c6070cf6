-------------------------- MODULE PartialGeneration --------------------------
(***************************************************************************)
(* What partial rollout promises the Rollouter and the Trainer, whatever   *)
(* servers, workers, tools and reward services are behind it: a sample's   *)
(* responses grow along their transcripts, across interruptions, and each  *)
(* is scored once, when it is final; a sample is finished when all its     *)
(* responses are scored; and what is added to a response between a start   *)
(* of its sample and the next interruption is of one version: the weights  *)
(* may change under a sample that has been started, but under none that    *)
(* has gone on since.                                                      *)
(***************************************************************************)
EXTENDS Integers, Sequences

CONSTANTS
  Samples,
  Members         \* Members[s]: the completions of sample s

VARIABLES
  status, text, scores, version,
  grown           \* the responses that have grown since their sample's start

absVars == << status, text, scores, version, grown >>

AllMembers == UNION { Members[s] : s \in Samples }
Working(c) == \E s \in Samples : c \in Members[s] /\ status[s] = "running"
Tokens(from, to) == [i \in 1..(to - from + 1) |-> from + i - 1]

Init ==
  /\ status = [s \in Samples |-> "new"]
  /\ text = [c \in AllMembers |-> << >>]
  /\ scores = [c \in AllMembers |-> 0]
  /\ version \in Nat
  /\ grown = {}

Start(s) ==
  /\ status[s] \in {"new", "interrupted"}
  /\ status' = [status EXCEPT ![s] = "running"]
  /\ UNCHANGED << text, scores, version, grown >>

Extend(c) ==
  /\ Working(c)
  /\ scores[c] = 0
  /\ text'[c] = Tokens(1, Len(text'[c]))
  /\ Len(text'[c]) > Len(text[c])
  /\ text' = [text EXCEPT ![c] = text'[c]]
  /\ grown' = grown \cup {c}
  /\ UNCHANGED << status, scores, version >>

Score(c) ==
  /\ Working(c)
  /\ scores[c] = 0
  /\ text[c] # << >>
  /\ scores' = [scores EXCEPT ![c] = 1]
  /\ UNCHANGED << status, text, version, grown >>

Interrupt(s) ==
  /\ status[s] = "running"
  /\ \E c \in Members[s] : scores[c] = 0
  /\ status' = [status EXCEPT ![s] = "interrupted"]
  /\ grown' = grown \ Members[s]
  /\ UNCHANGED << text, scores, version >>

Finish(s) ==
  /\ status[s] = "running"
  /\ \A c \in Members[s] : scores[c] = 1
  /\ status' = [status EXCEPT ![s] = "finished"]
  /\ grown' = grown \ Members[s]
  /\ UNCHANGED << text, scores, version >>

Update ==
  /\ grown = {}
  /\ version' = version + 1
  /\ UNCHANGED << status, text, scores, grown >>

Next ==
  \/ \E s \in Samples : Start(s) \/ Interrupt(s) \/ Finish(s)
  \/ \E c \in AllMembers : Extend(c) \/ Score(c)
  \/ Update

Spec == Init /\ [][Next]_absVars

=============================================================================
