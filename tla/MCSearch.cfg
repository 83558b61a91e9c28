\* Query 1 on 7776 networks of five persons, query 3 on all networks of four.
\* A query of type 3 that is not answered has a step.
SPECIFICATION SearchSpec
CONSTANTS
    NPerson = 5
    Friendships <- FriendshipsHere
    Counts <- CountsHere
    Queries <- QueriesHere
    NTag = 3
    Networks <- NetworksHere
    Interests <- InterestsHere
    Places <- PlacesHere
    Questions <- QuestionsHere
INVARIANTS Shortest NotFoundMeansApart SearchInv HeapRight AnswerIsBest
PROPERTIES Answered
