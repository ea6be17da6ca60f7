CONSTANTS
  Goroutines = {g1, g2, g3}
  NoGoroutine = NoGoroutine
  Addresses <- MCAddresses
  OptionLists <- MCOptionLists
  AttemptsArgs = {1}
  DefaultAddrs <- MCDefaultAddrs
  MaxServers = 2
SPECIFICATION FairSpec
INVARIANTS NoDataRace ServersNotEmpty
PROPERTIES OnlyAppends Linearizable EveryCallReturns
