CONSTANTS
  Base <- MCBase
  CommandLines <- MCCommandLines
  MaxDeaths = 1
  MaxForkFails = 1
SPECIFICATION FairSpec
INVARIANTS TypeOK NoRowTwice TableComplete WaitsForAll PartsContinue
PROPERTIES LoadsTables Ends
CHECK_DEADLOCK FALSE
