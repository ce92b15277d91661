SPECIFICATION ServicesSpec
CONSTANTS
  Services = {"lighter", "cfd", "virtual", "registry", "backtest", "gatefeed", "tradfi"}
  Txs = {1, 2}
  MaxFills = 1
  MaxFaults = 1
  MaxCrashes = 1
  LegCount = 2
  Books <- SafeVolumes
  Groups <- SafeGroups
  CfdCrashes = 1
  TickCount = 2
  VirtualCrashes = 0
  Updates = {1, 2}
  LinkFaults = 1
  BacktestCrashes = 1
  Listeners = {1, 2}
  MaxPrice = 3
  MaxFeeds = 2
  FeedFaults = 3
  Markets = {1, 2}
  MaxQuote = 2
  MaxCommands = 3
  LineFaults = 2
INVARIANTS
  WriteAhead JournalTrue SafeDecided
  FailedClean ProtectedBacked 
  PositionIsTrades  
  OneStream
  RowsAccounted
  ServedAsWanted
  ServicesTypeOK
PROPERTIES
  PriceNeverOlder
CHECK_DEADLOCK FALSE
