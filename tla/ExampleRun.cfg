SPECIFICATION Spec
CONSTANTS
  Char = {"a", "b"}
  NUL = "NUL"
  Block = {"p", "q"}
  NULL = "NULL"
  Inputs <- SomeInputs
  ShortHalf = 4
  IntHalf = 8
  SizeMod = 32
INVARIANTS
  TypeOK
  FaultOnlyWithoutMemory
  HeapBalanced
  StringIntact
  PrintedAsAsked
  ResultsReachMain
