\* The same queries, against what the task says of the edges of query 1.
SPECIFICATION SearchSpec
CONSTANTS
    NPerson = 5
    Friendships <- FriendshipsHere
    Counts <- CountsHere
    Queries <- QueriesHere
    NTag = 3
    Networks <- NetworksHere
    Interests <- InterestsHere
    Places <- PlacesHere
    Questions <- QuestionsHere
INVARIANTS ShortestAsDocumented
