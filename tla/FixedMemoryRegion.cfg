CONSTANTS
  StartAddress = 3
  RegionSize = 10
  Sizes = {1, 2, 3}
  Aligns = {1, 2, 4}
SPECIFICATION Spec
INVARIANTS TypeOK NoOverlap NoOtherPlaceMissed
PROPERTIES AllocateKeeps
