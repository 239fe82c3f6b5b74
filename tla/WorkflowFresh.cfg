\* Two requests of one organization.
CONSTANTS
  Jill = Jill
  Bob = Bob
  eth = eth
  usd = usd
  jillRequest = jillRequest
  bobRequest = bobRequest
  otherRequest = otherRequest
  blinding = blinding
  fund = fund
  claim = claim
  pay = pay
  check = check
  show = show
  Caller = {blinding, bobRequest, otherRequest, pay}
  Organization = {Jill, Bob}
  Asset = {eth, usd}
  Args <- RequestArgs
  MaxFaults = 0
SPECIFICATION WorkflowSpec
INVARIANT HandedOutIsPayable
CHECK_DEADLOCK FALSE
