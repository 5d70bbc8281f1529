SPECIFICATION FairSpec
CONSTANTS
  SlotCount = 7
  ThirdSlots = {"free", "other", "mysql"}
  None = None
  MaxCuts = 2
INVARIANTS OnePair DoneMeansFormatted
PROPERTIES DatabaseIsKept EndsUpMounted
