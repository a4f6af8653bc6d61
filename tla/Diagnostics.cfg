SPECIFICATION Spec
CONSTANTS
  Cap = 2
  MaxCalls = 2
  MaxPosts = 3
  MaxDriver = 2
INVARIANTS
  OnlyTheLastCall
  ListKeepsOrder

  
CHECK_DEADLOCK FALSE
