CONSTANTS
  Protocols = {"udp", "doh"}
  Names <- MCNames
  QueryOptionLists <- MCOptionLists
  IDs = {0, 1, 7}
SPECIFICATION BuilderSpec
INVARIANTS PaddedToBlock IDRule AllOrNothing
