CONSTANTS
  Hosts <- MCHosts
  IPLiterals = {"ip6"}
  Onions = {"tor"}
  Puny <- MCPuny
  Invalid = "invalid"
  Ids = {7}
  Replies <- MCReplies
  NoReply = NoReply
  ConfigServers <- MCConfigServers
  DefaultServers <- MCDefaultServers
  AttemptsArgs <- MCAttemptsArgs
  MaxServers = 1
  Lower <- MCLower
  Text <- MCText
  V6 = {"ip6"}
SPECIFICATION Spec
INVARIANTS   AddressesFromValidAnswers
INVARIANTS HonestError NoGoroutineLeft
