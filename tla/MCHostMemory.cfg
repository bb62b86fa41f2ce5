SPECIFICATION FairSpec
CONSTANTS
  t1 = t1
  t2 = t2
  d1 = d1
  None = None
  Staging = Staging
  Threads <- MCThreads
  Dmas <- MCDmas
  Pinned <- MCPinned
  Pageable <- MCPageable
  Base <- MCBase
  Capacity <- MCCapacity
  MaxGen = 2
INVARIANTS DmaPagesAlive NoActiveAllocation RetainOwns NoBlockLost
PROPERTY BlockReleased
