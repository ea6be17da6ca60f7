CONSTANTS
  Lower <- MCLower
  Text <- MCText
  V6 <- MCV6
  asked <- MCAsked
  Records <- MCRecords
  RCodes = {"NOERROR", "NXDOMAIN", "SERVFAIL", "REFUSED"}
  AddrTexts <- MCAddrTexts
  MaxAnswers = 4
  MaxAddrs = 5
SPECIFICATION InputSpec
INVARIANT NoValidRRsIsNoError
CHECK_DEADLOCK FALSE
