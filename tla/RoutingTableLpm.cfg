CONSTANTS
  Width = 3
  MaxEntries = 4
  NoEntry = NoEntry
SPECIFICATION Spec
CHECK_DEADLOCK FALSE
INVARIANT LongestPrefixMatch
