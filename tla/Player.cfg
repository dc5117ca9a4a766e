SPECIFICATION FairSpec
CONSTANTS
  ta = ta
  tb = tb
  tc = tc
  td = td
  Items <- ItemsMC
  Keys <- KeysMC
  Nodes = {1, 2, 3}
  LastIndex = 3
  Nil = Nil
CHECK_DEADLOCK FALSE
INVARIANTS ControlsMatch OnlyGhostsStay PatientReaderSeesTheStep ScriptsAreRight
PROPERTY PlaysToTheEnd
