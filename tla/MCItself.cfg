CONSTANTS
  Grammar <- AcceptedOdds
  Asked <- AskItself
  Prog <- MCProg
  Jobs <- MCJobs
  Scope <- Unscoped
  Meaning <- NotAsked
  ExternParse <- MCExtern
SPECIFICATION Spec
INVARIANTS
  CallsAreFed
