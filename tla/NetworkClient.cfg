SPECIFICATION FairSpec
CHECK_DEADLOCK FALSE
CONSTANTS
  MaxTokens = 2
  MaxEvents = 4
INVARIANTS NumbersAgree ShowsNewest
PROPERTY ComesBack
