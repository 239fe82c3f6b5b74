\* Two agents that name their requests differently.
CONSTANTS
  Jill = Jill
  Bob = Bob
  bobReceiveDumUsd = bobReceiveDumUsd
  jillReceiveDumEth = jillReceiveDumEth
  Agent = {Jill, Bob}
  Config <- Configured
  Alias = {bobReceiveDumUsd, jillReceiveDumEth}
  Own <- OwnAliases
  MaxCalls = 3
  MaxFaults = 1
SPECIFICATION RunnerSpec
INVARIANTS RunnerTypeOK AliasesAgree OwnersAreRight
PROPERTIES FinalizedStaysQuiet SendsComplete AckedIsHeard
CHECK_DEADLOCK FALSE
