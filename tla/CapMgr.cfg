SPECIFICATION Spec
CONSTANTS
  CommandLines <- Lines
  Perm <- Permissions
  MaxAddr = 16
  Representable <- NearBounds
  Slot <- Slots
  Page = {"text", "got", "ld"}
  PageOf <- PageOfSlot
  Images <- Processes
  fixup_cap <- Root
  MaxWrites = 1
  Id = "example"
  stack_size <- StackSize
  seal_id <- SealId
  PageSize = 4
  UIntMod = 64
  Function <- Names
  Libraries <- SomeLibraries
  Frame = 2
  MmapAt <- Places
  MmapPerms = {"load", "store", "executive"}
  Round <- Exact
  AT_CHERI_SEAL_CAP <- Root
  AT_CHERI_EXEC_RX_CAP <- Root
  Char = {"T", "h", "s"}
  NUL = "NUL"
  Block = {"p"}
  NULL = "NULL"
  Inputs <- Main
  ShortHalf = 4
  IntHalf = 8
  SizeMod = 32
INVARIANTS
  RunsConfined
  GoodEnd
  LevelInForce
PROPERTIES
  Ends
