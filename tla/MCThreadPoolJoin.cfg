\* The claim of the destructor, on two workers and three tasks.
SPECIFICATION FairSpec
CONSTANTS
    comments = comments
    forum = forum
    q3 = q3
    q4a = q4a
    q4b = q4b
    Tasks <- FewTasks
    MainTasks <- FewFromMain
    Children <- FewSpawned
    Prio <- FewPriority
    Workers = {w1, w2}
    NoTask = NoTask
    NoThread = NoThread
    MaxSpurious = 0
PROPERTIES DestructorReturns
CHECK_DEADLOCK FALSE
