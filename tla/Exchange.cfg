CONSTANTS
  NONE = NONE
  Word <- Strings
  DateTime <- Times
  User <- Users
  Joined <- Channels
  File <- Files
  NameOrder <- Names
  Cut <- CutOff
  MaxReports = 2
SPECIFICATION Spec
CHECK_DEADLOCK FALSE
INVARIANTS
  ExchangeInv ReceivedInOrder SummaryFaithful ReportsArrive
