CONSTANTS
  HeaderSize <- MCHeaderSize
  VendorHeaderSize <- MCVendorHeaderSize
  ModernPage = 4
  Images <- MCImages
  MinPage = 4
  TableAlign = 2
  MaxU64 = 31
SPECIFICATION Spec
CHECK_DEADLOCK FALSE
INVARIANTS
  AcceptedSectionsDisjoint
