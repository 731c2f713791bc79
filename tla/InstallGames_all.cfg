SPECIFICATION FairSpec
CONSTANTS
  IPKS <- AllIpks
  Kind <- Kinds
  Size <- Sizes
  Grown <- Unpack
  Disk = 245
  MinFree = 100
  MaxLost = 2
INVARIANTS
  TypeOK
  OkIsAsPacked
  ReserveKept
PROPERTIES
  RerunsRepair
