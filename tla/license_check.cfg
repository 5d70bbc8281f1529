SPECIFICATION FairSpec
CONSTANTS
  Runs = {cron, resync}
  None = None
  Partial = Partial
  MaxChanges = 2
  MaxFaults = 2
INVARIANTS ExitCodeTellsOfTheFile OnlyKillsLitter
PROPERTIES CatchesUp StoresWholeAnswers
