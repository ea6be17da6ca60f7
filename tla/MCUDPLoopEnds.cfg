CONSTANTS
  small = small
  big = big
  Garbage = Garbage
  None = None
  Msgs <- MCMsgs
  Size <- MCSize
  Extras <- MCExtras
  MaxDatagrams = 3
  Cap = 2
SPECIFICATION DupSpec
INVARIANT LoopsUntilContextDone
