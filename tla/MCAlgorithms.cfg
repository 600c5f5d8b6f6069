SPECIFICATION MCSpec
CONSTANTS
  MaxTokens = 3
  Lines <- MCLines
  ThisYear = 102
  Dates <- MCDates
  MaxEntries = 3
  Header = 2
  PartitionStart = 4
  EccBytes = 2
  BlocksPerPage = 2
  RomSize = 16
  MaxRead = 5
  Sizes = {0, 1, 3, 5, 6, 7, 8, 9, 10, 11, 12, 13, 15, 16}
INVARIANTS
  WhereTheReaderIs
  ConditionsDecided
  DatesReadAsMeant
  TablesPutIn
  WrongBitsLocated
  DirectivesFound
  FlashWhole
