SPECIFICATION Safety
CONSTANTS
  c1 = c1
  c2 = c2
  Cameras <- TwoCameras
  Findings <- TwoSearches
  Workers = 1
  DefaultCap = 2
  LicenseCap = 1
  MaxLogins = 1
  None = None
INVARIANT ChannelCarriesItsCamera
