SPECIFICATION FairSpec
CONSTANTS
  home = home
  old = old
  new = new
  Pages = {home, old, new}
  Replicas = {r1, r2}
  LastBuild = 2
  Content <- ContentMC
  Settings <- SettingsMC
  Boots = 3
  Faults = 1
  Nil = Nil
CHECK_DEADLOCK FALSE
INVARIANTS LiveIsWhole RecordedWasServed
PROPERTIES KeepsAnswering SearchComesUp
