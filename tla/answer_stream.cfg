CONSTANTS
  edit = edit
  browser = browser
  Names = {edit, browser}
  Bound = {edit}
  CallLists <- MCCallLists
  Continues = TRUE
  Sums = TRUE
  StaleRetries = 1
  OverflowRetries = 1
  BuildRetries = 1
  MaxEvents = 4
SPECIFICATION FairSpec
INVARIANTS TypeOK NoSilentEnd PassesBounded
PROPERTIES Promise Delivered
