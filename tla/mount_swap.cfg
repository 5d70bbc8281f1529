SPECIFICATION Spec
CONSTANTS
  SlotCount = 5
  ThirdSlots = {"free"}
  None = None
  MaxCuts = 1
INVARIANT DoneMeansSwapReady
