\* A swap and a payment, with two throwing awaits, stale answers or restarts.
CONSTANTS
  Jill = Jill
  Bob = Bob
  eth = eth
  usd = usd
  jillRequest = jillRequest
  bobRequest = bobRequest
  otherRequest = otherRequest
  blinding = blinding
  fund = fund
  claim = claim
  pay = pay
  check = check
  show = show
  Caller = {blinding, jillRequest, bobRequest, fund, claim, pay, check, show}
  Organization = {Jill, Bob}
  Asset = {eth, usd}
  Args <- SwapArgs
  MaxFaults = 2
SPECIFICATION WorkflowSpec
INVARIANTS WorkflowTypeOK SuccessIsTrue ProverIsMist
PROPERTIES PaidClaimsConsume StepsEnd
CHECK_DEADLOCK FALSE
