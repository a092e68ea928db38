SPECIFICATION FairSpec
CONSTANTS
  c1 = c1
  c2 = c2
  c3 = c3
  Main = Main
  Clients <- TwoClients
  PromptWake = FALSE
  SignalAt = "never"
  SignalOn <- OnOther
PROPERTY GateOpensUnlessStopped
CHECK_DEADLOCK FALSE
