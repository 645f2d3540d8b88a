CONSTANTS
    Ops = {"x", "zero", "one", "xor"}
    Arity <- Arities
    Meaning <- Bits
    Eval <- BitOf
    Fact <- Known
    Make <- KnownMake
    Join <- KnownJoin
    Implied <- KnownConst
    Holds <- KnownHolds
    Cost <- Costs
    Excludable = {"zero"}
    MaxNodes = 4
    FactRounds = 64
SPECIFICATION XFairSpec
INVARIANTS WInv Congruent Kept FactsExact Cheapest Extracted
PROPERTIES CallsEnd
CHECK_DEADLOCK FALSE
