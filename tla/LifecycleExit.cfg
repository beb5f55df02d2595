SPECIFICATION FairSpec
CONSTANTS
  f1 = f1
  f2 = f2
  f3 = f3
  k1 = k1
  a1 = a1
  Flows <- MCTwoFlows
  Archives = {"a.apk"}
  Paths = {"a.dexdb"}
  Symbols <- MCSymbols
  Aliases <- MCAliases
  Nothing = Nothing
  MaxCommands = 2
  MaxSessions = 1
  ModalDialogs = TRUE
  OneReplacement = TRUE
CHECK_DEADLOCK FALSE
INVARIANTS PromptIsHeld HistoryFits
PROPERTIES PromptEnds ImplementsTimeline
