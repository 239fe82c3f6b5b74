SPECIFICATION StoreSpec
CONSTANTS
  Requesting = {request1, request2}
  Checking = {check}
  Withdrawing = {withdraw}
  Asset = {coin}
  Settings = {{"kvRpcUrl"}, {"kvRpcUrl", "flowAddress"}}
  MaxRestarts = 2
  MaxFaults = 1
CHECK_DEADLOCK FALSE
INVARIANTS
  StoreTypeOK
  ReliablyFresh
  StatusIsTrue
PROPERTY RequestsAreHandedOut
