SPECIFICATION ServicesFairSpec
CONSTANTS
  Services = {"lighter", "cfd", "virtual", "registry", "gatefeed", "tradfi"}
  Txs = {1}
  MaxFills = 1
  MaxFaults = 2
  MaxCrashes = 1
  LegCount = 2
  Books <- LiveVolumes
  Groups <- LiveGroups
  CfdCrashes = 1
  TickCount = 1
  VirtualCrashes = 1
  Updates = {1}
  LinkFaults = 2
  BacktestCrashes = 0
  Listeners = {1}
  MaxPrice = 2
  MaxFeeds = 2
  FeedFaults = 2
  Markets = {1, 2}
  MaxQuote = 2
  MaxCommands = 2
  LineFaults = 2
PROPERTIES  FillAnswered   FillSeen PricesFollow
CHECK_DEADLOCK FALSE
