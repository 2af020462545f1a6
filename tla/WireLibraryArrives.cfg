CONSTANTS
  ScriptRequests <- RunScriptRequests
  OtherRequests <- RunOtherRequests
SPECIFICATION Spec
INVARIANTS LibraryArrives
CHECK_DEADLOCK FALSE
