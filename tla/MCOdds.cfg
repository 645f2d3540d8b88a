CONSTANTS
  Grammar <- Odds
  Asked <- AskOdds
  Prog <- MCProg
  Jobs <- MCJobs
  Scope <- Unscoped
  Meaning <- MCMeaning
  ExternParse <- MCExtern
SPECIFICATION Spec
INVARIANTS
  AgreesWithIPG
  StaticDispatchIsDynamic
