CONSTANTS
  Archives <- MCArchives
  Sentinel16 = 65535
  Sentinel = 16777215
  MaxU64 = 1000000000
  MaxUsize = 1048576
  MaxReserve = 200000
  Misread = 9999
  NoArchive <- MCNoArchive
  Documents <- MCDocuments
  Cuts <- MCCuts
  HeaderSize <- MCHeaderSize
  VendorHeaderSize <- MCVendorHeaderSize
  ModernPage = 4096
SPECIFICATION InspectSpec
INVARIANTS
  InspectTypeOK
  ListedAsWritten
  IntactIsListed
  ReadsAreBounded
  PrefixIsEnough
  LabelFitsDetails
  IntactIsShown
CHECK_DEADLOCK FALSE
