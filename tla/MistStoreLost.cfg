SPECIFICATION StoreSpec
CONSTANTS
  Requesting = {request1, request2}
  Checking = {check}
  Withdrawing = {withdraw}
  Asset = {coin}
  Settings = {{"kvRpcUrl", "flowAddress"}}
  MaxRestarts = 1
  MaxFaults = 0
CHECK_DEADLOCK FALSE
INVARIANT RequestsSurvive
