SPECIFICATION Spec
CONSTANTS
  Perm <- Permissions
  MaxAddr = 15
  Representable <- NearBounds
  Slot <- Slots
  Page <- Pages
  PageOf <- PageOfSlot
  Images <- Processes
  fixup_cap <- Root
  MaxWrites = 2
INVARIANT OriginalProtection
