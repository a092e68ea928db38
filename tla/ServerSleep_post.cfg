SPECIFICATION FairSpec
CONSTANTS
  c1 = c1
  c2 = c2
  c3 = c3
  Main = Main
  Clients <- TwoClients
  PromptWake = TRUE
  SignalAt = "never"
  SignalOn <- OnOther
PROPERTY PostedIsDone
CHECK_DEADLOCK FALSE
