CONSTANTS
  Grammar <- AcceptedOdds
  Asked <- AskSeekBack
  Prog <- MCProg
  Jobs <- MCJobs
  Scope <- Unscoped
  Meaning <- NotAsked
  ExternParse <- MCExtern
SPECIFICATION Spec
INVARIANTS
  LoopsAreFed
