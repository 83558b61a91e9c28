\* Query 2: four persons, two tags of four, four queries; the task ends when all
\* are answered.  The heap: four tags with ranges 0 to 2.
SPECIFICATION PartsSpec
CONSTANTS
    NPerson = 4
    NTag = 4
    MaxRange = 2
    Name <- Names
    Birthdays <- BirthdaysHere
    Interests <- AllInterests
    Queries <- QueriesHere
INVARIANTS TypeOK SetsExact AnswersRight IInv
PROPERTIES EveryQueryAnswered RankingSpec
CHECK_DEADLOCK FALSE
