SPECIFICATION Spec
CONSTANTS
  Perm <- Permissions
  MaxAddr = 40
  Representable <- NearBounds
  CompartmentId <- Compartments
  stack_size <- StackSizes
  seal_id <- SealIds
  PageSize = 4
  SizeMod = 40
  Function <- Api
  Libraries <- SomeLibraries
  Frame = 2
  MmapAt <- Places
  MmapPerms = {"load", "store", "executive"}
  Round <- EvenBounds
  AT_CHERI_SEAL_CAP <- SealRoot
  AT_CHERI_EXEC_RX_CAP <- ExecRoot
INVARIANT MadeWithStack
