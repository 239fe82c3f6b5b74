SPECIFICATION Spec
CONSTANTS
  Leaf = {a, b}
  Zero = zero
  MaxLeaves = 9
  MaxHeight = 4
  CircuitDepth = 3
  Field = 13
  RoundsFullHalf = 3
  RoundsPartial = 8
  Keys2 <- SomeKeys2
  Keys3 <- SomeKeys3
INVARIANTS
  TypeOK
  NodesAreSubtreeRoots
  LevelsHalve
  ProofsVerify
  PaddedProofsPassCircuit
  NodesHashAsReference
  NodeHashesPermute
PROPERTY
  ImplementsAccumulator
