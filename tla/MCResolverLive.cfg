CONSTANTS
  Hosts = {"example"}
  IPLiterals = {}
  Onions = {}
  Puny <- MCPuny
  Invalid = "invalid"
  Ids = {7}
  Replies <- MCFewReplies
  NoReply = NoReply
  ConfigServers <- MCConfigServers
  DefaultServers <- MCDefaultServers
  AttemptsArgs = {1}
  MaxServers = 1
  Lower <- MCLower
  Text <- MCText
  V6 = {"ip6"}
SPECIFICATION FairSpec
PROPERTIES CancelledReturns TimeoutsReturn
