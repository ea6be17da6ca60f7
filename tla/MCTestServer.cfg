CONSTANTS
  s1 = s1
  s2 = s2
  c1 = c1
  c2 = c2
  Calls <- MCCalls
  Clients <- MCClients
  None = None
  Waits = TRUE
SPECIFICATION TestFairSpec
INVARIANTS CloseIsComplete 
PROPERTIES QueryIsAnswered LoopsEnd
