CONSTANTS
  Grammar <- AcceptedOdds
  Asked <- AskNeverTried
  Prog <- MCProg
  Jobs <- MCJobs
  Scope <- Unscoped
  Meaning <- NotAsked
  ExternParse <- MCExtern
SPECIFICATION Spec
INVARIANTS
  LoopsAreFed
