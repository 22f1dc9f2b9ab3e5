SPECIFICATION Spec
CONSTANTS
  allocA = allocA
  allocB = allocB
  placeA = placeA
  placeB = placeB
SYMMETRY Symmetry
INVARIANTS
  AddressesExact
  MappingsExact
  HugeExact
  
  PokesWhileNeeded
  BytesSynced
  BytesCopied
\* A unit stops when its bounds are reached.
CHECK_DEADLOCK FALSE
