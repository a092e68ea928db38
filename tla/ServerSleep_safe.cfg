SPECIFICATION FairSpec
CONSTANTS
  c1 = c1
  c2 = c2
  c3 = c3
  Main = Main
  Clients <- ThreeClients
  PromptWake = TRUE
  SignalAt = "loop"
  SignalOn <- OnOther
INVARIANTS ProcessesLoaded FlagCoversUnload
PROPERTIES GateOpensUnlessStopped TerminateEndsLoop
CHECK_DEADLOCK FALSE
