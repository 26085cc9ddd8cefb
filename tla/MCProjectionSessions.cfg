CONSTANTS
  MonthEnds <- Calendar
  WeekDays = 2
  MaxOccurrenceCount = 3
  NoDate = NoDate
  MaxBalance = 8
  NoPolicy = NoPolicy
  NoRequest = NoRequest
  NoAnswer = NoAnswer
  Sessions = {1, 2, 3, 4}
  Today = {2, 8}
  Cases <- AllCases
SPECIFICATION Spec
INVARIANTS
  TablesTypeOK
  ExpansionsAreExact
  SafeToSpendIsExact
  EveryRowIsCountedOnce
  AnswersAreOfOneMoment
PROPERTIES
  PolicyChangesAreSound
  EverySessionEnds
