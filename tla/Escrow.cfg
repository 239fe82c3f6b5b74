SPECIFICATION EscrowSpec
CONSTANTS
  alice = alice
  bob = bob
  idAlice = idAlice
  idBob = idBob
  escrow = escrow
  x = x
  y = y
  ka = ka
  kb = kb
  blind = blind
  Address = {alice, bob, escrow}
  ChamberAddress = chamber
  ContractOwner = alice
  EscrowAddress = escrow
  Blinding = {blind}
  Expected <- MCExpected
  Identity = {idAlice, idBob}
  Asset = {x, y}
  NoAsset = noAsset
  Recipient = {bob}
  KeyBase <- MCKeyBase
  Key <- MCKey
  Secrets <- MCSecrets
  Verifier = {groth16}
  NoVerifier = noVerifier
  InitialBalance <- MCInitialBalance
  Approval <- MCApproval
  MaxAmountSupported = 2
  MaxTx = 4
INVARIANTS
  ConsumedIsSettled
  FundedEscrowIsClaimable
PROPERTY
  EscrowsAreSpentOnTerms
