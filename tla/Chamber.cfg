SPECIFICATION Spec
CONSTANTS
  alice = alice
  bob = bob
  tok = tok
  Address = {alice, bob}
  ChamberAddress = chamber
  ContractOwner = alice
  Identity = {idBob}
  Asset = {tok}
  NoAsset = noAsset
  Recipient = {alice, bob}
  KeyBase = {k}
  Key <- MCKey
  Secrets <- MCSecrets
  Verifier = {groth16}
  NoVerifier = noVerifier
  InitialBalance <- MCInitialBalance
  Approval <- MCApproval
  MaxAmountSupported = 3
  MaxTx = 4
INVARIANTS
  TypeOK
  RootsAreSnapshots
  NothingFromNowhere
  Solvent
PROPERTIES
  EveryStepConserves
  ImplementsAccumulator
