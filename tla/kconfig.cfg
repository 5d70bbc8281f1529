SPECIFICATION Spec
CONSTANTS
  Symbols <- MCSymbols
  ConstSymbols <- MCConst
  SymbolYes = "y"
  SymbolMod = "m"
  SymbolNo = "n"
  TypeOf <- MCType
  Rank <- MCRank
  IntOf <- MCInt
  HexOf <- MCHex
  AutoOf <- MCInt
  Wrap = 1000
  IntLiterals = {"1", "5", "7", "9"}
  HexLiterals = {"1", "5", "7", "9", "0x5"}
  Prefixed <- MCPrefixed
  Lines <- MCLines
  Setups <- MCSetups
  MaxCuts = 1
  Typed = {"1", "9", "b"}
  Entries = {"1", "9", "0x5", "c"}
  Patterns <- MCPatterns
INVARIANTS
  ParsedWhole ValuesAreFresh ValuesAreLegal WrittenReadsBack
  AskingEnds SavedSurvives QuitAsks JumpShown
CHECK_DEADLOCK FALSE
