SPECIFICATION Spec
CONSTANTS
  Symbols <- MCSymbols
  ConstSymbols <- MCConst
  SymbolYes = "y"
  SymbolMod = "m"
  SymbolNo = "n"
  TypeOf <- MCType
  Rank <- MCRank
  IntOf <- MCInt
  HexOf <- MCHex
  AutoOf <- MCInt
  Wrap = 1000
  Absent = Absent
  NotNumber = NotNumber
  Infinite = Infinite
  NoModel = NoModel
  Tiers = {"basic", "pro", "gold"}
  Skus = {"", "EVRPRO16"}
  Halves <- MCHalves
  Block = 8
  LengthSize = 2
  LoWrap = 16
  HiWrap = 2
  Chunks = {1, 5, 6, 7, 8, 9, 17}
  MaxFed = 35
  Sizes = {0, 6}
  LowBits = 0
  MidBits = 0
  HighBits = 0
  DistanceBits = 4
  EndPosModelIndex = 6
  AlignBits = 1
  Heights = {1, 3}
  ItemLists <- MCItems
  Texts <- MCTexts
  Lines = {1, 2}
  MaxScroll = 1
  Inits <- MCInits
  Printable = {"o"}
  Width = 3
  MaxLen = 5
  Lists = {"one", "two"}
  Entries = {"a", "b"}
  Accounts = {"x", "z"}
  MaxClicks = 7
  MaxCalls = 2
  MaxDetours = 2
INVARIANTS
  MeaningKept HangingIsSound RequestsAreBuilt MacrosExpand TokensOfLines
  DigestOfMessage LoadedAsTold ScreenIsTrue SetupInOrder
CHECK_DEADLOCK FALSE
