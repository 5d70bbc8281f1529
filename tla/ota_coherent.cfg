SPECIFICATION Spec
CONSTANTS
  Last = 2
  Space = 3
  MaxBreaks = 2
INVARIANT UiBelongsToBackend
