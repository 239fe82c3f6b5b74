SPECIFICATION SwapSpec
CONSTANTS
  alice = alice
  bob = bob
  idAlice = idAlice
  idBob = idBob
  escrow = escrow
  x = x
  y = y
  ka = ka
  kb = kb
  kc = kc
  blind = blind
  Address = {alice, bob, escrow}
  ChamberAddress = chamber
  ContractOwner = alice
  EscrowAddress = escrow
  Blinding = {blind}
  Expected = {}
  Identity = {idAlice, idBob}
  Asset = {x, y}
  NoAsset = noAsset
  Recipient = {bob}
  KeyBase <- MCKeyBase
  Key <- MCKey
  Secrets <- MCSecrets
  Verifier = {groth16}
  NoVerifier = noVerifier
  InitialBalance <- MCInitialBalance
  Approval <- MCApproval
  fund = fund
  claim = claim
  pay = pay
  ToolCall = {fund, claim, pay}
  Args <- MCArgs
  MaxAmountSupported = 2
  MaxTx = 5
  MaxFaults = 0
CHECK_DEADLOCK FALSE
INVARIANT CompletedIsPaid
