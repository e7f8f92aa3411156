SPECIFICATION MCSpec
CONSTANTS
  Programs = {"statistics"}
  PidBlock = 2
  PidEnd = 4
  Cars <- MCCars
  MaxFaults = 2
  ProtoQueue = 2
  NmeaQueue = 1
  NmeaHeap = 2
  LiveQueue = 3
  TestQueue = 3
  LedQueue = 2
  Builds <- MCBuilds
  Needs <- MCNeeds
  MapCars = {"a", "b"}
  Places = {"p", "q", "r"}
  MaxRefresh = 2
  ChartCars = {"a", "b"}
  Parameters = {"speed", "rpm"}
  OfferedParameters = {"speed", "rpm"}
  CarParameters <- MCParameters
  MaxSearches = 2
CONSTRAINT StillClear
INVARIANT OfferedForAll
CHECK_DEADLOCK FALSE
