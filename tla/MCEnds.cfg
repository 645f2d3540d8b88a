CONSTANTS
  Grammar <- Offered
  Asked <- AskOffered
  Prog <- MCProg
  Jobs <- MCJobs
  Scope <- Unscoped
  Meaning <- NotAsked
  ExternParse <- MCExtern
SPECIFICATION Spec
INVARIANTS
  LoopsAreFed
  CallsAreFed
PROPERTIES
  Termination
CONSTRAINT NodesBounded
