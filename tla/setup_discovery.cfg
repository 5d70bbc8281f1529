SPECIFICATION Spec
CONSTANTS
  c1 = c1
  c2 = c2
  Cameras <- TwoCameras
  Findings <- TwoSearches
  Workers = 1
  DefaultCap = 2
  LicenseCap = 1
  MaxLogins = 2
  None = None
INVARIANTS OwnAnswer NoCameraTwice AddedAreActivated NoRowLeftBehind
PROPERTIES CapInForce ButtonComesBack
