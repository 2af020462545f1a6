CONSTANTS
  ScriptRequests <- RunScriptRequests
  OtherRequests <- RunOtherRequests
SPECIFICATION Spec
INVARIANTS ScriptsUnderstood MisreadsKnown
CHECK_DEADLOCK FALSE
