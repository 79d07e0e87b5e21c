CONSTANTS
  Keys <- MCKeys
  Callables = {f, g}
  MaxSites = 3
  Callable = callable
  MaxTokens = 8
  MaxReported = 3
  None = None
SPECIFICATION ReportSpec
INVARIANTS
  OwnersAgree
  CapturesAreAtHand
  OneEntryPerKey
  EntriesAreWhatWasFound
  GraphIsTheSites
CHECK_DEADLOCK FALSE
