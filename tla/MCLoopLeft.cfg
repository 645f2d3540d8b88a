CONSTANTS
  Grammar <- Odds
  Asked <- AskLoopLeft
  Prog <- MCProg
  Jobs <- MCJobs
  Scope <- Unscoped
  Meaning <- MCMeaning
  ExternParse <- MCExtern
SPECIFICATION Spec
INVARIANTS
  TopLevelReturnHasNoCaller
