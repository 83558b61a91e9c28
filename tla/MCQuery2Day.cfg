\* The same tasks, against what the task says of the birthdays.
SPECIFICATION PartsSpec
CONSTANTS
    NPerson = 4
    NTag = 4
    MaxRange = 2
    Name <- Names
    Birthdays <- BirthdaysHere
    Interests <- AllInterests
    Queries <- QueriesHere
INVARIANTS AnswersAsDocumented
CHECK_DEADLOCK FALSE
