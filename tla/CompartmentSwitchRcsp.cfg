SPECIFICATION Spec
CONSTANTS
  ExecTop = 22
  RestSlots = 12
  CallerFrame = 5
  CallerFp = 0
  CalleeSave = 2
  UnwrapFrame = 3
  UnwrapFp = 0
  HandlerFrame = 4
  HandlerFp = 0
  InitRestricted <- SomeRestricted
  Arg = {"a", "b"}
  MaxCalls = 3
  ApiFn <- Api
  DllSymbols <- DllApi
  Service <- Services
  ServiceTable <- Table
  Script <- SomeScript
INVARIANT RestrictedStateRestored
