SPECIFICATION Spec
CONSTANTS
  NUM_EVENT_NODES = 3
  EventType = {VI_HALFLINE, PI_DMA_COMPLETE}
  NoEvent = NoEvent
  Ticks <- MCTicks
  Delays <- MCDelays
  MaxTicks = 4
INVARIANT Sorted NodesConserved IdleSkipIsExact
PROPERTY ImplementsEventQueue
CHECK_DEADLOCK FALSE
