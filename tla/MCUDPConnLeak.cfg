CONSTANTS
  small = small
  big = big
  Garbage = Garbage
  None = None
  Msgs <- MCMsgs
  Size <- MCSize
  Extras <- MCExtras
  MaxDatagrams = 2
SPECIFICATION Spec
INVARIANT NoOrphanConn
