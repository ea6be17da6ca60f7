CONSTANTS
  small = small
  big = big
  Garbage = Garbage
  None = None
  Msgs <- MCMsgs
  Size <- MCSize
  Extras <- MCExtras
  MaxDatagrams = 2
  QuerySizes <- MCQuerySizes
  Streams <- MCStreams
  Replies <- MCReplies
  PieceEnds <- MCPieceEnds
  Protocols = {"udp", "tcp", "dot", "doh", "doq"}
SPECIFICATION FairSpec
INVARIANTS NeverStuck FirstMessage FirstFrame QueryFramed ConnOwned
INVARIANTS AbortOnlyWhenDone WholeOrLimited ReadsBounded BodyClosed
PROPERTIES Implements DoneContextReturns ResourcesReleased
