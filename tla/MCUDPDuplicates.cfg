CONSTANTS
  small = small
  big = big
  Garbage = Garbage
  None = None
  Msgs <- MCMsgs
  Size <- MCSize
  Extras <- MCExtras
  MaxDatagrams = 3
  Cap = 2
SPECIFICATION DupFairSpec
INVARIANTS NeverStuck ErrorIsLast NoLossWhileLive SilentCloseOnlyWhenDone
PROPERTIES NoSendAfterClose DoneContextCloses ConnReleased
