---------------------------- MODULE SampleStream ----------------------------
(***************************************************************************)
(* What the message queue promises its users: a stream of samples,         *)
(* numbered as they are sent, that is delivered in order and never twice,  *)
(* and that under overrun loses the oldest sample and nothing else.        *)
(***************************************************************************)
EXTENDS Integers, Sequences

CONSTANT Capacity    \* samples the stream can hold

VARIABLES
  sent,      \* number of the last sample sent
  next,      \* number of the next sample to deliver
  received   \* the samples delivered, in order

streamVars == << sent, next, received >>

StreamInit == sent = 0 /\ next = 1 /\ received = << >>

Send ==
  /\ sent' = sent + 1
  /\ next' = IF sent' - next >= Capacity THEN next + 1 ELSE next
  /\ UNCHANGED received

Deliver ==
  /\ next <= sent
  /\ next' = next + 1
  /\ received' = Append(received, next)
  /\ UNCHANGED sent

\* Whoever ends the run may throw away what has not been delivered.
Purge ==
  /\ next' = sent + 1
  /\ UNCHANGED << sent, received >>

StreamNext == Send \/ Deliver \/ Purge

StreamSpec == StreamInit /\ [][StreamNext]_streamVars

=============================================================================
