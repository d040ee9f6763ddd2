SPECIFICATION FairHistorySpec
CONSTANT MaxCrashes = 2
PROPERTIES EveryQueuedRunEnds KeepsRow WatcherSeesTheEnd
CHECK_DEADLOCK FALSE
