CONSTANTS
  Grammar <- AllGrammars
  Asked <- AskAll
  Prog <- MCProg
  Jobs <- MCJobs
  Scope <- MCScope
  Meaning <- MCMeaning
  ExternParse <- MCExtern
SPECIFICATION Spec
INVARIANTS
  SInv
  InBuffer
  StackOnlyShrinks
  Confined
  SavedWindowsIntact
  TopLevelReturnHasNoCaller
  StaticDispatchIsDynamic
  NothingLeftOpen
  AgreesWithIPG
