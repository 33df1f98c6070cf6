---------------------------- MODULE MCFullyAsync ----------------------------
(***************************************************************************)
(* Instances of FullyAsync for TLC: the derived limits are computed from   *)
(* the configuration the way set_max_required_samples computes them.       *)
(***************************************************************************)
EXTENDS FullyAsyncProperties

CONSTANTS
  StalenessPercent,     \* 100 * staleness_threshold
  ConcurrencyLimit      \* 16 * number of servers

MCMaxRequiredSamples ==
  (RequiredSamples * (StalenessPercent + 100) * TriggerParameterSyncStep) \div 100

MCMaxConcurrentSamples ==
  IF ConcurrencyLimit < MCMaxRequiredSamples THEN ConcurrencyLimit ELSE MCMaxRequiredSamples

=============================================================================
