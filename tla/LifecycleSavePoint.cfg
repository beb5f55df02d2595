SPECIFICATION LifecycleSpec
CONSTANTS
  f1 = f1
  f2 = f2
  f3 = f3
  k1 = k1
  a1 = a1
  Flows <- MCTwoFlows
  Archives = {"app.apk"}
  Paths = {"app.dexdb"}
  Symbols <- MCSymbols
  Aliases <- MCAliases
  Nothing = Nothing
  MaxCommands = 1
  MaxSessions = 2
  ModalDialogs = TRUE
  OneReplacement = TRUE
CHECK_DEADLOCK FALSE
SYMMETRY MCSymmetryTwo
INVARIANT SavePointIsOnDisk
