SPECIFICATION Spec
CONSTANTS
  None = None
  MaxRestarts = 1
  MaxHeight = 1
  MaxKills = 1
  MaxFailures = 1
  MaxRpcErrors = 1
  MaxFaults = 2
INVARIANTS
  EngineServesOneChain
  ScriptFilesAreCurrent
PROPERTIES
  RunningChainIsKept
  BringupCompletes
