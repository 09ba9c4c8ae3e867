SPECIFICATION FairFileSpec
CHECK_DEADLOCK FALSE
CONSTANTS
  Octet = {1, 2, 3}
  Gap = 0
  Size = 3
  MaxLen = 4
  Data <- FileData
  Counts = {2, 4}
  Targets = {1, 4}
  Outcomes = {"all", "some"}
  Seekable = TRUE
  Strict = FALSE
  Rewinds = FALSE
  FlushesInput = FALSE
  Resets = FALSE
PROPERTY FlushReturns
