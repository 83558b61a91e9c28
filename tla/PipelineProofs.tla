--------------------------- MODULE PipelineProofs ---------------------------
(***************************************************************************)
(* Proofs about Pipeline for any number of queries and of workers: every   *)
(* phase finds its data ready, main prints only complete answers, and the  *)
(* pool is used as TaskPool specifies.                                     *)
(***************************************************************************)
EXTENDS Pipeline, FiniteSetTheorems, TLAPS

------------------------------------------------------------------------------
(* The inductive invariant, part by part.                                   *)

Phases == [t \in Threads |-> pc[t]]

\* Each thread and task is in one of the phases of its own line.
PhaseInv ==
    /\ pc = Phases
    /\ pc["main"] \in {"begin", "read", "submit", "test", "drowsy", "asleep", "passed",
                       "start3", "join", "print"}
    /\ pc["hasher"] \in {"new", "hash", "raise", "notify", "done"}
    /\ pc["places"] \in {"new", "places", "raise", "notify", "done"}
    /\ pc["nameDestroyer"] \in {"new", "test", "drowsy", "asleep", "passed", "done"}
    /\ pc["comments"] \in {"new", "queued", "owners", "test", "drowsy", "asleep", "passed",
                           "filter", "merge", "query1", "done"}
    /\ pc["forum"] \in {"new", "queued", "tags", "forum", "start4", "done"}
    /\ pc["q2"] \in {"new", "queued", "query2", "raise", "notify", "done"}
    /\ \A q \in Q3 :
          /\ pc[q] \in {"new", "queued", "query3", "cont", "look", "done"}
          /\ pc[Destroyer[q]] \in {"new", "clear", "test", "drowsy", "asleep", "passed", "done"}
    /\ \A q \in Q4 : pc[q] \in {"new", "queued", "query4", "done"}

\* What main and the forum task have started, and what they have not.
MainInv ==
    /\ pc["comments"] = "new" <=> pc["main"] = "begin"
    /\ pc["hasher"] = "new" <=> pc["main"] \in {"begin", "read"}
    /\ pc["forum"] = "new" <=> pc["main"] \in {"begin", "read", "submit"}
    /\ pc["q2"] = "new" <=> pc["main"] \notin {"start3", "join", "print"}
    /\ \A q \in Q3 : pc[q] # "new" => pc["main"] \in {"start3", "join", "print"}
    /\ pc["main"] \in {"join", "print"} => \A q \in Q3 : pc[q] # "new"

ForumInv ==
    /\ pc["places"] = "new" <=> pc["forum"] \in {"new", "queued", "tags"}
    /\ pc["nameDestroyer"] = "new" <=> pc["forum"] \in {"new", "queued", "tags", "forum"}
    /\ \A q \in Q4 : pc[q] # "new" => pc["forum"] \in {"start4", "done"}
    /\ pc["forum"] = "done" => \A q \in Q4 : pc[q] # "new"

\* A boolean is set only by the thread that raises its signal, after the work
\* that the signal tells of, and nobody passes a wait before that.
SignalInv ==
    /\ flag = [s \in Signals |-> flag[s]]
    /\ flag["friends_hash_built"] => pc["hasher"] \in {"notify", "done"}
    /\ flag["tag_read"] => pc["places"] \in {"notify", "done"}
    /\ flag["q2_finished"] => pc["q2"] \in {"notify", "done"}
    /\ pc["main"] \in {"passed", "start3", "join", "print"} => flag["tag_read"]
    /\ pc["comments"] \in {"passed", "filter", "merge", "query1", "done"}
          => flag["friends_hash_built"]
    /\ pc["nameDestroyer"] \in {"passed", "done"} => flag["q2_finished"]
    /\ \A q \in Q3 : pc[Destroyer[q]] \in {"passed", "done"} => flag["q2_finished"]

\* The query-3 tasks that have not counted down yet.
ToCount == {q \in Q3 : pc[q] \notin {"look", "done"}}

\* The counter of q3.continuation, and what it keeps back.
CountInv ==
    /\ large \in BOOLEAN
    /\ count = IF large THEN Cardinality(ToCount) ELSE Cardinality(Q3)
    /\ \A q \in Q3 : pc[Destroyer[q]] # "new" => pc[q] = "done" /\ ToCount = {}

\* No thread in destroy_q3_data has freed the places, or the tags.
PlacesKept == \A q \in Q3 : pc[Destroyer[q]] \in {"new", "clear"}
TagsKept == \A q \in Q3 : pc[Destroyer[q]] # "done"

\* From when to when each datum is ready.
DataInv ==
    /\ data = [d \in Items |-> data[d]]
    /\ pc["main"] \notin {"begin", "read"} => data["friends"] = "ready"
    /\ pc["main"] \notin {"begin", "read"} /\ pc["q2"] \in {"new", "queued", "query2"}
          => data["birthday"] = "ready"
    /\ pc["hasher"] \in {"raise", "notify", "done"}
          => pc["comments"] \in {"merge", "query1", "done"} \/ data["friends_hash"] = "ready"
    /\ pc["comments"] \in {"query1", "done"} => data["counts"] = "ready"
    /\ pc["forum"] \in {"forum", "start4", "done"} =>
          /\ pc["nameDestroyer"] # "done" => data["tag_name"] = "ready"
          /\ TagsKept => data["tags"] = "ready"
          /\ pc["q2"] \in {"new", "queued", "query2"} => data["person_in_tags"] = "ready"
    /\ pc["forum"] \in {"start4", "done"} => data["q4_persons"] = "ready"
    /\ pc["places"] \in {"raise", "notify", "done"} /\ PlacesKept => data["places"] = "ready"

IInv == PhaseInv /\ MainInv /\ ForumInv /\ SignalInv /\ CountInv /\ DataInv /\ AnswersComplete
-----------------------------------------------------------------------------
(* Names.                                                                  *)

Fixed == {"main", "hasher", "places", "nameDestroyer", "comments", "forum", "q2"}

\* Threads and tasks have names of their own.
LEMMA Names ==
    /\ Threads = Fixed \cup Q3 \cup Q4 \cup {Destroyer[q] : q \in Q3}
    /\ \A q \in Q3 : /\ q \notin Fixed /\ q \notin Q4
                     /\ Destroyer[q] \notin Fixed \cup Q3 \cup Q4
    /\ \A q \in Q4 : q \notin Fixed
    /\ \A p, q \in Q3 : Destroyer[p] = Destroyer[q] => p = q
  BY PipelineAssumption DEF Threads, Detached, Tasks, Solo, Fixed

\* The comment task is submitted before any datum is there.
LEMMA MainBeginStep ==
    ASSUME IInv, MainBegin PROVE IInv'
  <1> USE Names DEF IInv, Fixed
  <1>1. /\ pc["main"] = "begin" /\ pc'["main"] = "read"
        /\ pc'["comments"] = "queued"
        /\ pc'["hasher"] = pc["hasher"] /\ pc'["places"] = pc["places"] /\ pc'["nameDestroyer"] = pc["nameDestroyer"]
        /\ pc'["forum"] = pc["forum"] /\ pc'["q2"] = pc["q2"]
        /\ \A p \in Q3 : pc'[p] = pc[p]
        /\ \A p \in Q3 : pc'[Destroyer[p]] = pc[Destroyer[p]]
        /\ \A p \in Q4 : pc'[p] = pc[p]
        /\ UNCHANGED <<data, flag, count, large>>
    BY DEF MainBegin, GotoAndStart, PhaseInv, Phases
  <1>2. pc' = Phases'
    BY DEF MainBegin, GotoAndStart, PhaseInv, Phases
  <1>3. PhaseInv' /\ MainInv' /\ ForumInv' /\ SignalInv'
    BY <1>1, <1>2 DEF PhaseInv, MainInv, ForumInv, SignalInv
  <1>4. ToCount' = ToCount
    BY <1>1 DEF ToCount
  <1>5. CountInv'
    BY <1>1, <1>4 DEF CountInv
  <1>6. (PlacesKept' => PlacesKept) /\ (TagsKept' => TagsKept)
    BY <1>1 DEF PlacesKept, TagsKept
  <1>7. DataInv'
    BY <1>1, <1>6 DEF PhaseInv, MainInv, ForumInv, SignalInv, DataInv, Items
  <1>8. AnswersComplete'
    BY <1>1 DEF PhaseInv, MainInv, ForumInv, AnswersComplete, Tasks
  <1>9. QED
    BY <1>3, <1>5, <1>7, <1>8

\* read_data makes the friends and birthdays and starts the hasher.
LEMMA ReadDataStep ==
    ASSUME IInv, ReadData PROVE IInv'
  <1> USE Names DEF IInv, Fixed
  <1>1. /\ pc["main"] = "read" /\ pc'["main"] = "submit"
        /\ pc'["hasher"] = "hash"
        /\ pc'["places"] = pc["places"] /\ pc'["nameDestroyer"] = pc["nameDestroyer"] /\ pc'["comments"] = pc["comments"]
        /\ pc'["forum"] = pc["forum"] /\ pc'["q2"] = pc["q2"]
        /\ \A p \in Q3 : pc'[p] = pc[p]
        /\ \A p \in Q3 : pc'[Destroyer[p]] = pc[Destroyer[p]]
        /\ \A p \in Q4 : pc'[p] = pc[p]
        /\ data' = [d \in Items |-> IF d \in {"friends", "birthday"} THEN "ready" ELSE data[d]]
        /\ UNCHANGED <<flag, count, large>>
    BY DEF ReadData, GotoAndStart, Ready, PhaseInv, Phases
  <1>2. pc' = Phases'
    BY DEF ReadData, GotoAndStart, PhaseInv, Phases
  <1>3. PhaseInv' /\ MainInv' /\ ForumInv' /\ SignalInv'
    BY <1>1, <1>2 DEF PhaseInv, MainInv, ForumInv, SignalInv
  <1>4. ToCount' = ToCount
    BY <1>1 DEF ToCount
  <1>5. CountInv'
    BY <1>1, <1>4 DEF CountInv
  <1>6. (PlacesKept' => PlacesKept) /\ (TagsKept' => TagsKept)
    BY <1>1 DEF PlacesKept, TagsKept
  <1>7. DataInv'
    BY <1>1, <1>6 DEF PhaseInv, MainInv, ForumInv, SignalInv, DataInv, Items
  <1>8. AnswersComplete'
    BY <1>1 DEF PhaseInv, MainInv, ForumInv, AnswersComplete, Tasks
  <1>9. QED
    BY <1>3, <1>5, <1>7, <1>8

\* The forum task is submitted; main goes on to wait for the tags.
LEMMA SubmitForumStep ==
    ASSUME IInv, SubmitForum PROVE IInv'
  <1> USE Names DEF IInv, Fixed
  <1>1. /\ pc["main"] = "submit" /\ pc'["main"] = "test"
        /\ pc'["forum"] = "queued"
        /\ pc'["hasher"] = pc["hasher"] /\ pc'["places"] = pc["places"] /\ pc'["nameDestroyer"] = pc["nameDestroyer"]
        /\ pc'["comments"] = pc["comments"] /\ pc'["q2"] = pc["q2"]
        /\ \A p \in Q3 : pc'[p] = pc[p]
        /\ \A p \in Q3 : pc'[Destroyer[p]] = pc[Destroyer[p]]
        /\ \A p \in Q4 : pc'[p] = pc[p]
        /\ UNCHANGED <<data, flag, count, large>>
    BY DEF SubmitForum, GotoAndStart, PhaseInv, Phases
  <1>2. pc' = Phases'
    BY DEF SubmitForum, GotoAndStart, PhaseInv, Phases
  <1>3. PhaseInv' /\ MainInv' /\ ForumInv' /\ SignalInv'
    BY <1>1, <1>2 DEF PhaseInv, MainInv, ForumInv, SignalInv
  <1>4. ToCount' = ToCount
    BY <1>1 DEF ToCount
  <1>5. CountInv'
    BY <1>1, <1>4 DEF CountInv
  <1>6. (PlacesKept' => PlacesKept) /\ (TagsKept' => TagsKept)
    BY <1>1 DEF PlacesKept, TagsKept
  <1>7. DataInv'
    BY <1>1, <1>6 DEF PhaseInv, MainInv, ForumInv, SignalInv, DataInv, Items
  <1>8. AnswersComplete'
    BY <1>1 DEF PhaseInv, MainInv, ForumInv, AnswersComplete, Tasks
  <1>9. QED
    BY <1>3, <1>5, <1>7, <1>8

\* Query 2 is submitted when main has passed its wait, so after the tags.
LEMMA SubmitQ2Step ==
    ASSUME IInv, SubmitQ2 PROVE IInv'
  <1> USE Names DEF IInv, Fixed
  <1>1. /\ pc["main"] = "passed" /\ pc'["main"] = "start3"
        /\ pc'["q2"] = "queued"
        /\ pc'["hasher"] = pc["hasher"] /\ pc'["places"] = pc["places"] /\ pc'["nameDestroyer"] = pc["nameDestroyer"]
        /\ pc'["comments"] = pc["comments"] /\ pc'["forum"] = pc["forum"]
        /\ \A p \in Q3 : pc'[p] = pc[p]
        /\ \A p \in Q3 : pc'[Destroyer[p]] = pc[Destroyer[p]]
        /\ \A p \in Q4 : pc'[p] = pc[p]
        /\ UNCHANGED <<data, flag, count, large>>
    BY DEF SubmitQ2, GotoAndStart, PhaseInv, Phases
  <1>2. pc' = Phases'
    BY DEF SubmitQ2, GotoAndStart, PhaseInv, Phases
  <1>3. PhaseInv' /\ MainInv' /\ ForumInv' /\ SignalInv'
    BY <1>1, <1>2 DEF PhaseInv, MainInv, ForumInv, SignalInv
  <1>4. ToCount' = ToCount
    BY <1>1 DEF ToCount
  <1>5. CountInv'
    BY <1>1, <1>4 DEF CountInv
  <1>6. (PlacesKept' => PlacesKept) /\ (TagsKept' => TagsKept)
    BY <1>1 DEF PlacesKept, TagsKept
  <1>7. DataInv'
    BY <1>1, <1>6 DEF PhaseInv, MainInv, ForumInv, SignalInv, DataInv, Items
  <1>8. AnswersComplete'
    BY <1>1 DEF PhaseInv, MainInv, ForumInv, AnswersComplete, Tasks
  <1>9. QED
    BY <1>3, <1>5, <1>7, <1>8

\* start_3 submits a query that was not submitted before.
LEMMA SubmitQ3Step ==
    ASSUME NEW q \in Q3, IInv, SubmitQ3(q) PROVE IInv'
  <1> USE Names DEF IInv, Fixed
  <1>1. /\ pc["main"] = "start3" /\ pc'["main"] = "start3"
        /\ pc'["hasher"] = pc["hasher"] /\ pc'["places"] = pc["places"] /\ pc'["nameDestroyer"] = pc["nameDestroyer"]
        /\ pc'["comments"] = pc["comments"] /\ pc'["forum"] = pc["forum"] /\ pc'["q2"] = pc["q2"]
        /\ \A p \in Q3 : pc'[p] = IF p = q THEN "queued" ELSE pc[p]
        /\ \A p \in Q3 : pc'[Destroyer[p]] = pc[Destroyer[p]]
        /\ \A p \in Q4 : pc'[p] = pc[p]
        /\ pc[q] = "new"
        /\ UNCHANGED <<data, flag, count, large>>
    BY DEF SubmitQ3, GotoAndStart, PhaseInv, Phases
  <1>2. pc' = Phases'
    BY DEF SubmitQ3, GotoAndStart, PhaseInv, Phases
  <1>3. PhaseInv' /\ MainInv' /\ ForumInv' /\ SignalInv'
    BY <1>1, <1>2 DEF PhaseInv, MainInv, ForumInv, SignalInv
  <1>4. ToCount' = ToCount
    BY <1>1 DEF ToCount
  <1>5. CountInv'
    BY <1>1, <1>4 DEF CountInv
  <1>6. (PlacesKept' => PlacesKept) /\ (TagsKept' => TagsKept)
    BY <1>1 DEF PlacesKept, TagsKept
  <1>7. DataInv'
    BY <1>1, <1>6 DEF PhaseInv, MainInv, ForumInv, SignalInv, DataInv, Items
  <1>8. AnswersComplete'
    BY <1>1 DEF PhaseInv, MainInv, ForumInv, AnswersComplete, Tasks
  <1>9. QED
    BY <1>3, <1>5, <1>7, <1>8

\* The forum task has the tags ready before it starts the thread of places.
LEMMA ReadTagsStep ==
    ASSUME IInv, ReadTags PROVE IInv'
  <1> USE Names DEF IInv, Fixed
  <1>1. /\ pc["forum"] = "tags" /\ pc'["forum"] = "forum"
        /\ pc'["places"] = "places"
        /\ pc'["main"] = pc["main"] /\ pc'["hasher"] = pc["hasher"] /\ pc'["nameDestroyer"] = pc["nameDestroyer"]
        /\ pc'["comments"] = pc["comments"] /\ pc'["q2"] = pc["q2"]
        /\ \A p \in Q3 : pc'[p] = pc[p]
        /\ \A p \in Q3 : pc'[Destroyer[p]] = pc[Destroyer[p]]
        /\ \A p \in Q4 : pc'[p] = pc[p]
        /\ data' = [d \in Items |-> IF d \in {"tag_name", "tags", "person_in_tags"} THEN "ready" ELSE data[d]]
        /\ UNCHANGED <<flag, count, large>>
    BY DEF ReadTags, GotoAndStart, Ready, PhaseInv, Phases
  <1>2. pc' = Phases'
    BY DEF ReadTags, GotoAndStart, PhaseInv, Phases
  <1>3. PhaseInv' /\ MainInv' /\ ForumInv' /\ SignalInv'
    BY <1>1, <1>2 DEF PhaseInv, MainInv, ForumInv, SignalInv
  <1>4. ToCount' = ToCount
    BY <1>1 DEF ToCount
  <1>5. CountInv'
    BY <1>1, <1>4 DEF CountInv
  <1>6. (PlacesKept' => PlacesKept) /\ (TagsKept' => TagsKept)
    BY <1>1 DEF PlacesKept, TagsKept
  <1>7. DataInv'
    BY <1>1, <1>6 DEF PhaseInv, MainInv, ForumInv, SignalInv, DataInv, Items
  <1>8. AnswersComplete'
    BY <1>1 DEF PhaseInv, MainInv, ForumInv, AnswersComplete, Tasks
  <1>9. QED
    BY <1>3, <1>5, <1>7, <1>8

\* The persons of query 4 are ready before its queries are submitted.
LEMMA ReadForumStep ==
    ASSUME IInv, ReadForum PROVE IInv'
  <1> USE Names DEF IInv, Fixed
  <1>1. /\ pc["forum"] = "forum" /\ pc'["forum"] = "start4"
        /\ pc'["nameDestroyer"] = "test"
        /\ pc'["main"] = pc["main"] /\ pc'["hasher"] = pc["hasher"] /\ pc'["places"] = pc["places"]
        /\ pc'["comments"] = pc["comments"] /\ pc'["q2"] = pc["q2"]
        /\ \A p \in Q3 : pc'[p] = pc[p]
        /\ \A p \in Q3 : pc'[Destroyer[p]] = pc[Destroyer[p]]
        /\ \A p \in Q4 : pc'[p] = pc[p]
        /\ data' = [d \in Items |-> IF d \in {"q4_persons"} THEN "ready" ELSE data[d]]
        /\ UNCHANGED <<flag, count, large>>
    BY DEF ReadForum, GotoAndStart, Ready, PhaseInv, Phases
  <1>2. pc' = Phases'
    BY DEF ReadForum, GotoAndStart, PhaseInv, Phases
  <1>3. PhaseInv' /\ MainInv' /\ ForumInv' /\ SignalInv'
    BY <1>1, <1>2 DEF PhaseInv, MainInv, ForumInv, SignalInv
  <1>4. ToCount' = ToCount
    BY <1>1 DEF ToCount
  <1>5. CountInv'
    BY <1>1, <1>4 DEF CountInv
  <1>6. (PlacesKept' => PlacesKept) /\ (TagsKept' => TagsKept)
    BY <1>1 DEF PlacesKept, TagsKept
  <1>7. DataInv'
    BY <1>1, <1>6 DEF PhaseInv, MainInv, ForumInv, SignalInv, DataInv, Items
  <1>8. AnswersComplete'
    BY <1>1 DEF PhaseInv, MainInv, ForumInv, AnswersComplete, Tasks
  <1>9. QED
    BY <1>3, <1>5, <1>7, <1>8

\* start_4 submits a query that was not submitted before.
LEMMA SubmitQ4Step ==
    ASSUME NEW q \in Q4, IInv, SubmitQ4(q) PROVE IInv'
  <1> USE Names DEF IInv, Fixed
  <1>1. /\ pc["forum"] = "start4" /\ pc'["forum"] = "start4"
        /\ pc'["main"] = pc["main"] /\ pc'["hasher"] = pc["hasher"] /\ pc'["places"] = pc["places"]
        /\ pc'["nameDestroyer"] = pc["nameDestroyer"] /\ pc'["comments"] = pc["comments"] /\ pc'["q2"] = pc["q2"]
        /\ \A p \in Q3 : pc'[p] = pc[p]
        /\ \A p \in Q3 : pc'[Destroyer[p]] = pc[Destroyer[p]]
        /\ \A p \in Q4 : pc'[p] = IF p = q THEN "queued" ELSE pc[p]
        /\ pc[q] = "new"
        /\ UNCHANGED <<data, flag, count, large>>
    BY DEF SubmitQ4, GotoAndStart, PhaseInv, Phases
  <1>2. pc' = Phases'
    BY DEF SubmitQ4, GotoAndStart, PhaseInv, Phases
  <1>3. PhaseInv' /\ MainInv' /\ ForumInv' /\ SignalInv'
    BY <1>1, <1>2 DEF PhaseInv, MainInv, ForumInv, SignalInv
  <1>4. ToCount' = ToCount
    BY <1>1 DEF ToCount
  <1>5. CountInv'
    BY <1>1, <1>4 DEF CountInv
  <1>6. (PlacesKept' => PlacesKept) /\ (TagsKept' => TagsKept)
    BY <1>1 DEF PlacesKept, TagsKept
  <1>7. DataInv'
    BY <1>1, <1>6 DEF PhaseInv, MainInv, ForumInv, SignalInv, DataInv, Items
  <1>8. AnswersComplete'
    BY <1>1 DEF PhaseInv, MainInv, ForumInv, AnswersComplete, Tasks
  <1>9. QED
    BY <1>3, <1>5, <1>7, <1>8

\* main joins when every query 3 is submitted.
LEMMA ShutdownStep ==
    ASSUME IInv, Shutdown PROVE IInv'
  <1> USE Names DEF IInv, Fixed
  <1>1. /\ pc["main"] = "start3" /\ pc'["main"] = "join"
        /\ pc'["hasher"] = pc["hasher"] /\ pc'["places"] = pc["places"] /\ pc'["nameDestroyer"] = pc["nameDestroyer"]
        /\ pc'["comments"] = pc["comments"] /\ pc'["forum"] = pc["forum"] /\ pc'["q2"] = pc["q2"]
        /\ \A p \in Q3 : pc'[p] = pc[p]
        /\ \A p \in Q3 : pc'[Destroyer[p]] = pc[Destroyer[p]]
        /\ \A p \in Q4 : pc'[p] = pc[p]
        /\ \A p \in Q3 : pc[p] # "new"
        /\ UNCHANGED <<data, flag, count, large>>
    BY DEF Shutdown, Goto, PhaseInv, Phases
  <1>2. pc' = Phases'
    BY DEF Shutdown, Goto, PhaseInv, Phases
  <1>3. PhaseInv' /\ MainInv' /\ ForumInv' /\ SignalInv'
    BY <1>1, <1>2 DEF PhaseInv, MainInv, ForumInv, SignalInv
  <1>4. ToCount' = ToCount
    BY <1>1 DEF ToCount
  <1>5. CountInv'
    BY <1>1, <1>4 DEF CountInv
  <1>6. (PlacesKept' => PlacesKept) /\ (TagsKept' => TagsKept)
    BY <1>1 DEF PlacesKept, TagsKept
  <1>7. DataInv'
    BY <1>1, <1>6 DEF PhaseInv, MainInv, ForumInv, SignalInv, DataInv, Items
  <1>8. AnswersComplete'
    BY <1>1 DEF PhaseInv, MainInv, ForumInv, AnswersComplete, Tasks
  <1>9. QED
    BY <1>3, <1>5, <1>7, <1>8

\* Nothing is queued or running at the join, so that every task is done:
\* nobody is left who could submit one.
LEMMA JoinedStep ==
    ASSUME IInv, Joined PROVE IInv'
  <1> USE Names DEF IInv, Fixed
  <1>1. /\ pc["main"] = "join" /\ pc'["main"] = "print"
        /\ pc'["hasher"] = pc["hasher"] /\ pc'["places"] = pc["places"] /\ pc'["nameDestroyer"] = pc["nameDestroyer"]
        /\ pc'["comments"] = pc["comments"] /\ pc'["forum"] = pc["forum"] /\ pc'["q2"] = pc["q2"]
        /\ \A p \in Q3 : pc'[p] = pc[p]
        /\ \A p \in Q3 : pc'[Destroyer[p]] = pc[Destroyer[p]]
        /\ \A p \in Q4 : pc'[p] = pc[p]
        /\ Queued = {} /\ Running = {}
        /\ UNCHANGED <<data, flag, count, large>>
    BY DEF Joined, Goto, PhaseInv, Phases
  <1>2. pc' = Phases'
    BY DEF Joined, Goto, PhaseInv, Phases
  <1>3. PhaseInv' /\ MainInv' /\ ForumInv' /\ SignalInv'
    BY <1>1, <1>2 DEF PhaseInv, MainInv, ForumInv, SignalInv
  <1>4. ToCount' = ToCount
    BY <1>1 DEF ToCount
  <1>5. CountInv'
    BY <1>1, <1>4 DEF CountInv
  <1>6. (PlacesKept' => PlacesKept) /\ (TagsKept' => TagsKept)
    BY <1>1 DEF PlacesKept, TagsKept
  <1>7. DataInv'
    BY <1>1, <1>6 DEF PhaseInv, MainInv, ForumInv, SignalInv, DataInv, Items
  <1>8. AnswersComplete'
    <2>1. ASSUME NEW t \in Tasks PROVE pc[t] \in {"new", "done"}
      BY <1>1, <2>1 DEF Queued, Running, Outside
    <2>2. \A t \in {"comments", "forum", "q2"} \cup Q3 : pc[t] = "done"
      BY <1>1, <2>1 DEF MainInv, Tasks
    <2>3. \A q \in Q4 : pc[q] = "done"
      BY <2>1, <2>2 DEF ForumInv, Tasks
    <2>4. QED
      BY <1>1, <2>2, <2>3 DEF AnswersComplete, Tasks
  <1>9. QED
    BY <1>3, <1>5, <1>7, <1>8

\* The hash is built before the signal is raised.
LEMMA BuildFriendsHashStep ==
    ASSUME IInv, BuildFriendsHash PROVE IInv'
  <1> USE Names DEF IInv, Fixed
  <1>1. /\ pc["hasher"] = "hash" /\ pc'["hasher"] = "raise"
        /\ pc'["main"] = pc["main"] /\ pc'["places"] = pc["places"] /\ pc'["nameDestroyer"] = pc["nameDestroyer"]
        /\ pc'["comments"] = pc["comments"] /\ pc'["forum"] = pc["forum"] /\ pc'["q2"] = pc["q2"]
        /\ \A p \in Q3 : pc'[p] = pc[p]
        /\ \A p \in Q3 : pc'[Destroyer[p]] = pc[Destroyer[p]]
        /\ \A p \in Q4 : pc'[p] = pc[p]
        /\ data' = [d \in Items |-> IF d \in {"friends_hash"} THEN "ready" ELSE data[d]]
        /\ UNCHANGED <<flag, count, large>>
    BY DEF BuildFriendsHash, Goto, Ready, PhaseInv, Phases
  <1>2. pc' = Phases'
    BY DEF BuildFriendsHash, Goto, PhaseInv, Phases
  <1>3. PhaseInv' /\ MainInv' /\ ForumInv' /\ SignalInv'
    BY <1>1, <1>2 DEF PhaseInv, MainInv, ForumInv, SignalInv
  <1>4. ToCount' = ToCount
    BY <1>1 DEF ToCount
  <1>5. CountInv'
    BY <1>1, <1>4 DEF CountInv
  <1>6. (PlacesKept' => PlacesKept) /\ (TagsKept' => TagsKept)
    BY <1>1 DEF PlacesKept, TagsKept
  <1>7. DataInv'
    BY <1>1, <1>6 DEF PhaseInv, MainInv, ForumInv, SignalInv, DataInv, Items
  <1>8. AnswersComplete'
    BY <1>1 DEF PhaseInv, MainInv, ForumInv, AnswersComplete, Tasks
  <1>9. QED
    BY <1>3, <1>5, <1>7, <1>8

\* The places are ready before the signal is raised.
LEMMA ReadPlacesStep ==
    ASSUME IInv, ReadPlaces PROVE IInv'
  <1> USE Names DEF IInv, Fixed
  <1>1. /\ pc["places"] = "places" /\ pc'["places"] = "raise"
        /\ pc'["main"] = pc["main"] /\ pc'["hasher"] = pc["hasher"] /\ pc'["nameDestroyer"] = pc["nameDestroyer"]
        /\ pc'["comments"] = pc["comments"] /\ pc'["forum"] = pc["forum"] /\ pc'["q2"] = pc["q2"]
        /\ \A p \in Q3 : pc'[p] = pc[p]
        /\ \A p \in Q3 : pc'[Destroyer[p]] = pc[Destroyer[p]]
        /\ \A p \in Q4 : pc'[p] = pc[p]
        /\ data' = [d \in Items |-> IF d \in {"places"} THEN "ready" ELSE data[d]]
        /\ UNCHANGED <<flag, count, large>>
    BY DEF ReadPlaces, Goto, Ready, PhaseInv, Phases
  <1>2. pc' = Phases'
    BY DEF ReadPlaces, Goto, PhaseInv, Phases
  <1>3. PhaseInv' /\ MainInv' /\ ForumInv' /\ SignalInv'
    BY <1>1, <1>2 DEF PhaseInv, MainInv, ForumInv, SignalInv
  <1>4. ToCount' = ToCount
    BY <1>1 DEF ToCount
  <1>5. CountInv'
    BY <1>1, <1>4 DEF CountInv
  <1>6. (PlacesKept' => PlacesKept) /\ (TagsKept' => TagsKept)
    BY <1>1 DEF PlacesKept, TagsKept
  <1>7. DataInv'
    BY <1>1, <1>6 DEF PhaseInv, MainInv, ForumInv, SignalInv, DataInv, Items
  <1>8. AnswersComplete'
    BY <1>1 DEF PhaseInv, MainInv, ForumInv, AnswersComplete, Tasks
  <1>9. QED
    BY <1>3, <1>5, <1>7, <1>8

\* A worker takes the comment task.
LEMMA StartCommentsStep ==
    ASSUME IInv, Start("comments", "owners") PROVE IInv'
  <1> USE Names DEF IInv, Fixed
  <1>1. /\ pc["comments"] = "queued" /\ pc'["comments"] = "owners"
        /\ pc'["main"] = pc["main"] /\ pc'["hasher"] = pc["hasher"] /\ pc'["places"] = pc["places"]
        /\ pc'["nameDestroyer"] = pc["nameDestroyer"] /\ pc'["forum"] = pc["forum"] /\ pc'["q2"] = pc["q2"]
        /\ \A p \in Q3 : pc'[p] = pc[p]
        /\ \A p \in Q3 : pc'[Destroyer[p]] = pc[Destroyer[p]]
        /\ \A p \in Q4 : pc'[p] = pc[p]
        /\ UNCHANGED <<data, flag, count, large>>
    BY DEF Start, PhaseInv, Phases
  <1>2. pc' = Phases'
    BY DEF Start, PhaseInv, Phases
  <1>3. PhaseInv' /\ MainInv' /\ ForumInv' /\ SignalInv'
    BY <1>1, <1>2 DEF PhaseInv, MainInv, ForumInv, SignalInv
  <1>4. ToCount' = ToCount
    BY <1>1 DEF ToCount
  <1>5. CountInv'
    BY <1>1, <1>4 DEF CountInv
  <1>6. (PlacesKept' => PlacesKept) /\ (TagsKept' => TagsKept)
    BY <1>1 DEF PlacesKept, TagsKept
  <1>7. DataInv'
    BY <1>1, <1>6 DEF PhaseInv, MainInv, ForumInv, SignalInv, DataInv, Items
  <1>8. AnswersComplete'
    BY <1>1 DEF PhaseInv, MainInv, ForumInv, AnswersComplete, Tasks
  <1>9. QED
    BY <1>3, <1>5, <1>7, <1>8

\* The comment task reads the owners and comes to its wait.
LEMMA ReadOwnersStep ==
    ASSUME IInv, ReadOwners PROVE IInv'
  <1> USE Names DEF IInv, Fixed
  <1>1. /\ pc["comments"] = "owners" /\ pc'["comments"] = "test"
        /\ pc'["main"] = pc["main"] /\ pc'["hasher"] = pc["hasher"] /\ pc'["places"] = pc["places"]
        /\ pc'["nameDestroyer"] = pc["nameDestroyer"] /\ pc'["forum"] = pc["forum"] /\ pc'["q2"] = pc["q2"]
        /\ \A p \in Q3 : pc'[p] = pc[p]
        /\ \A p \in Q3 : pc'[Destroyer[p]] = pc[Destroyer[p]]
        /\ \A p \in Q4 : pc'[p] = pc[p]
        /\ UNCHANGED <<data, flag, count, large>>
    BY DEF ReadOwners, Goto, PhaseInv, Phases
  <1>2. pc' = Phases'
    BY DEF ReadOwners, Goto, PhaseInv, Phases
  <1>3. PhaseInv' /\ MainInv' /\ ForumInv' /\ SignalInv'
    BY <1>1, <1>2 DEF PhaseInv, MainInv, ForumInv, SignalInv
  <1>4. ToCount' = ToCount
    BY <1>1 DEF ToCount
  <1>5. CountInv'
    BY <1>1, <1>4 DEF CountInv
  <1>6. (PlacesKept' => PlacesKept) /\ (TagsKept' => TagsKept)
    BY <1>1 DEF PlacesKept, TagsKept
  <1>7. DataInv'
    BY <1>1, <1>6 DEF PhaseInv, MainInv, ForumInv, SignalInv, DataInv, Items
  <1>8. AnswersComplete'
    BY <1>1 DEF PhaseInv, MainInv, ForumInv, AnswersComplete, Tasks
  <1>9. QED
    BY <1>3, <1>5, <1>7, <1>8

\* Only after its wait does the comment task use the hash.
LEMMA BeginFilterStep ==
    ASSUME IInv, BeginFilter PROVE IInv'
  <1> USE Names DEF IInv, Fixed
  <1>1. /\ pc["comments"] = "passed" /\ pc'["comments"] = "filter"
        /\ pc'["main"] = pc["main"] /\ pc'["hasher"] = pc["hasher"] /\ pc'["places"] = pc["places"]
        /\ pc'["nameDestroyer"] = pc["nameDestroyer"] /\ pc'["forum"] = pc["forum"] /\ pc'["q2"] = pc["q2"]
        /\ \A p \in Q3 : pc'[p] = pc[p]
        /\ \A p \in Q3 : pc'[Destroyer[p]] = pc[Destroyer[p]]
        /\ \A p \in Q4 : pc'[p] = pc[p]
        /\ UNCHANGED <<data, flag, count, large>>
    BY DEF BeginFilter, Goto, PhaseInv, Phases
  <1>2. pc' = Phases'
    BY DEF BeginFilter, Goto, PhaseInv, Phases
  <1>3. PhaseInv' /\ MainInv' /\ ForumInv' /\ SignalInv'
    BY <1>1, <1>2 DEF PhaseInv, MainInv, ForumInv, SignalInv
  <1>4. ToCount' = ToCount
    BY <1>1 DEF ToCount
  <1>5. CountInv'
    BY <1>1, <1>4 DEF CountInv
  <1>6. (PlacesKept' => PlacesKept) /\ (TagsKept' => TagsKept)
    BY <1>1 DEF PlacesKept, TagsKept
  <1>7. DataInv'
    BY <1>1, <1>6 DEF PhaseInv, MainInv, ForumInv, SignalInv, DataInv, Items
  <1>8. AnswersComplete'
    BY <1>1 DEF PhaseInv, MainInv, ForumInv, AnswersComplete, Tasks
  <1>9. QED
    BY <1>3, <1>5, <1>7, <1>8

\* The hash is freed when the filter, its only reader, is done.
LEMMA EndFilterStep ==
    ASSUME IInv, EndFilter PROVE IInv'
  <1> USE Names DEF IInv, Fixed
  <1>1. /\ pc["comments"] = "filter" /\ pc'["comments"] = "merge"
        /\ pc'["main"] = pc["main"] /\ pc'["hasher"] = pc["hasher"] /\ pc'["places"] = pc["places"]
        /\ pc'["nameDestroyer"] = pc["nameDestroyer"] /\ pc'["forum"] = pc["forum"] /\ pc'["q2"] = pc["q2"]
        /\ \A p \in Q3 : pc'[p] = pc[p]
        /\ \A p \in Q3 : pc'[Destroyer[p]] = pc[Destroyer[p]]
        /\ \A p \in Q4 : pc'[p] = pc[p]
        /\ data' = [d \in Items |-> IF d \in {"friends_hash"} THEN "freed" ELSE data[d]]
        /\ UNCHANGED <<flag, count, large>>
    BY DEF EndFilter, Goto, Free, PhaseInv, Phases
  <1>2. pc' = Phases'
    BY DEF EndFilter, Goto, PhaseInv, Phases
  <1>3. PhaseInv' /\ MainInv' /\ ForumInv' /\ SignalInv'
    BY <1>1, <1>2 DEF PhaseInv, MainInv, ForumInv, SignalInv
  <1>4. ToCount' = ToCount
    BY <1>1 DEF ToCount
  <1>5. CountInv'
    BY <1>1, <1>4 DEF CountInv
  <1>6. (PlacesKept' => PlacesKept) /\ (TagsKept' => TagsKept)
    BY <1>1 DEF PlacesKept, TagsKept
  <1>7. DataInv'
    BY <1>1, <1>6 DEF PhaseInv, MainInv, ForumInv, SignalInv, DataInv, Items
  <1>8. AnswersComplete'
    BY <1>1 DEF PhaseInv, MainInv, ForumInv, AnswersComplete, Tasks
  <1>9. QED
    BY <1>3, <1>5, <1>7, <1>8

\* The counts are ready before query 1 starts.
LEMMA MergeCountsStep ==
    ASSUME IInv, MergeCounts PROVE IInv'
  <1> USE Names DEF IInv, Fixed
  <1>1. /\ pc["comments"] = "merge" /\ pc'["comments"] = "query1"
        /\ pc'["main"] = pc["main"] /\ pc'["hasher"] = pc["hasher"] /\ pc'["places"] = pc["places"]
        /\ pc'["nameDestroyer"] = pc["nameDestroyer"] /\ pc'["forum"] = pc["forum"] /\ pc'["q2"] = pc["q2"]
        /\ \A p \in Q3 : pc'[p] = pc[p]
        /\ \A p \in Q3 : pc'[Destroyer[p]] = pc[Destroyer[p]]
        /\ \A p \in Q4 : pc'[p] = pc[p]
        /\ data' = [d \in Items |-> IF d \in {"counts"} THEN "ready" ELSE data[d]]
        /\ UNCHANGED <<flag, count, large>>
    BY DEF MergeCounts, Goto, Ready, PhaseInv, Phases
  <1>2. pc' = Phases'
    BY DEF MergeCounts, Goto, PhaseInv, Phases
  <1>3. PhaseInv' /\ MainInv' /\ ForumInv' /\ SignalInv'
    BY <1>1, <1>2 DEF PhaseInv, MainInv, ForumInv, SignalInv
  <1>4. ToCount' = ToCount
    BY <1>1 DEF ToCount
  <1>5. CountInv'
    BY <1>1, <1>4 DEF CountInv
  <1>6. (PlacesKept' => PlacesKept) /\ (TagsKept' => TagsKept)
    BY <1>1 DEF PlacesKept, TagsKept
  <1>7. DataInv'
    BY <1>1, <1>6 DEF PhaseInv, MainInv, ForumInv, SignalInv, DataInv, Items
  <1>8. AnswersComplete'
    BY <1>1 DEF PhaseInv, MainInv, ForumInv, AnswersComplete, Tasks
  <1>9. QED
    BY <1>3, <1>5, <1>7, <1>8

\* The callback of the comment task ends.
LEMMA AnswerQuery1Step ==
    ASSUME IInv, AnswerQuery1 PROVE IInv'
  <1> USE Names DEF IInv, Fixed
  <1>1. /\ pc["comments"] = "query1" /\ pc'["comments"] = "done"
        /\ pc'["main"] = pc["main"] /\ pc'["hasher"] = pc["hasher"] /\ pc'["places"] = pc["places"]
        /\ pc'["nameDestroyer"] = pc["nameDestroyer"] /\ pc'["forum"] = pc["forum"] /\ pc'["q2"] = pc["q2"]
        /\ \A p \in Q3 : pc'[p] = pc[p]
        /\ \A p \in Q3 : pc'[Destroyer[p]] = pc[Destroyer[p]]
        /\ \A p \in Q4 : pc'[p] = pc[p]
        /\ UNCHANGED <<data, flag, count, large>>
    BY DEF AnswerQuery1, Goto, PhaseInv, Phases
  <1>2. pc' = Phases'
    BY DEF AnswerQuery1, Goto, PhaseInv, Phases
  <1>3. PhaseInv' /\ MainInv' /\ ForumInv' /\ SignalInv'
    BY <1>1, <1>2 DEF PhaseInv, MainInv, ForumInv, SignalInv
  <1>4. ToCount' = ToCount
    BY <1>1 DEF ToCount
  <1>5. CountInv'
    BY <1>1, <1>4 DEF CountInv
  <1>6. (PlacesKept' => PlacesKept) /\ (TagsKept' => TagsKept)
    BY <1>1 DEF PlacesKept, TagsKept
  <1>7. DataInv'
    BY <1>1, <1>6 DEF PhaseInv, MainInv, ForumInv, SignalInv, DataInv, Items
  <1>8. AnswersComplete'
    BY <1>1 DEF PhaseInv, MainInv, ForumInv, AnswersComplete, Tasks
  <1>9. QED
    BY <1>3, <1>5, <1>7, <1>8

\* A worker takes the forum task.
LEMMA StartForumStep ==
    ASSUME IInv, Start("forum", "tags") PROVE IInv'
  <1> USE Names DEF IInv, Fixed
  <1>1. /\ pc["forum"] = "queued" /\ pc'["forum"] = "tags"
        /\ pc'["main"] = pc["main"] /\ pc'["hasher"] = pc["hasher"] /\ pc'["places"] = pc["places"]
        /\ pc'["nameDestroyer"] = pc["nameDestroyer"] /\ pc'["comments"] = pc["comments"] /\ pc'["q2"] = pc["q2"]
        /\ \A p \in Q3 : pc'[p] = pc[p]
        /\ \A p \in Q3 : pc'[Destroyer[p]] = pc[Destroyer[p]]
        /\ \A p \in Q4 : pc'[p] = pc[p]
        /\ UNCHANGED <<data, flag, count, large>>
    BY DEF Start, PhaseInv, Phases
  <1>2. pc' = Phases'
    BY DEF Start, PhaseInv, Phases
  <1>3. PhaseInv' /\ MainInv' /\ ForumInv' /\ SignalInv'
    BY <1>1, <1>2 DEF PhaseInv, MainInv, ForumInv, SignalInv
  <1>4. ToCount' = ToCount
    BY <1>1 DEF ToCount
  <1>5. CountInv'
    BY <1>1, <1>4 DEF CountInv
  <1>6. (PlacesKept' => PlacesKept) /\ (TagsKept' => TagsKept)
    BY <1>1 DEF PlacesKept, TagsKept
  <1>7. DataInv'
    BY <1>1, <1>6 DEF PhaseInv, MainInv, ForumInv, SignalInv, DataInv, Items
  <1>8. AnswersComplete'
    BY <1>1 DEF PhaseInv, MainInv, ForumInv, AnswersComplete, Tasks
  <1>9. QED
    BY <1>3, <1>5, <1>7, <1>8

\* The forum task ends when every query 4 is submitted.
LEMMA EndForumStep ==
    ASSUME IInv, EndForum PROVE IInv'
  <1> USE Names DEF IInv, Fixed
  <1>1. /\ pc["forum"] = "start4" /\ pc'["forum"] = "done"
        /\ pc'["main"] = pc["main"] /\ pc'["hasher"] = pc["hasher"] /\ pc'["places"] = pc["places"]
        /\ pc'["nameDestroyer"] = pc["nameDestroyer"] /\ pc'["comments"] = pc["comments"] /\ pc'["q2"] = pc["q2"]
        /\ \A p \in Q3 : pc'[p] = pc[p]
        /\ \A p \in Q3 : pc'[Destroyer[p]] = pc[Destroyer[p]]
        /\ \A p \in Q4 : pc'[p] = pc[p]
        /\ \A p \in Q4 : pc[p] # "new"
        /\ UNCHANGED <<data, flag, count, large>>
    BY DEF EndForum, Goto, PhaseInv, Phases
  <1>2. pc' = Phases'
    BY DEF EndForum, Goto, PhaseInv, Phases
  <1>3. PhaseInv' /\ MainInv' /\ ForumInv' /\ SignalInv'
    BY <1>1, <1>2 DEF PhaseInv, MainInv, ForumInv, SignalInv
  <1>4. ToCount' = ToCount
    BY <1>1 DEF ToCount
  <1>5. CountInv'
    BY <1>1, <1>4 DEF CountInv
  <1>6. (PlacesKept' => PlacesKept) /\ (TagsKept' => TagsKept)
    BY <1>1 DEF PlacesKept, TagsKept
  <1>7. DataInv'
    BY <1>1, <1>6 DEF PhaseInv, MainInv, ForumInv, SignalInv, DataInv, Items
  <1>8. AnswersComplete'
    BY <1>1 DEF PhaseInv, MainInv, ForumInv, AnswersComplete, Tasks
  <1>9. QED
    BY <1>3, <1>5, <1>7, <1>8

\* A worker takes query 2.
LEMMA StartQ2Step ==
    ASSUME IInv, Start("q2", "query2") PROVE IInv'
  <1> USE Names DEF IInv, Fixed
  <1>1. /\ pc["q2"] = "queued" /\ pc'["q2"] = "query2"
        /\ pc'["main"] = pc["main"] /\ pc'["hasher"] = pc["hasher"] /\ pc'["places"] = pc["places"]
        /\ pc'["nameDestroyer"] = pc["nameDestroyer"] /\ pc'["comments"] = pc["comments"] /\ pc'["forum"] = pc["forum"]
        /\ \A p \in Q3 : pc'[p] = pc[p]
        /\ \A p \in Q3 : pc'[Destroyer[p]] = pc[Destroyer[p]]
        /\ \A p \in Q4 : pc'[p] = pc[p]
        /\ UNCHANGED <<data, flag, count, large>>
    BY DEF Start, PhaseInv, Phases
  <1>2. pc' = Phases'
    BY DEF Start, PhaseInv, Phases
  <1>3. PhaseInv' /\ MainInv' /\ ForumInv' /\ SignalInv'
    BY <1>1, <1>2 DEF PhaseInv, MainInv, ForumInv, SignalInv
  <1>4. ToCount' = ToCount
    BY <1>1 DEF ToCount
  <1>5. CountInv'
    BY <1>1, <1>4 DEF CountInv
  <1>6. (PlacesKept' => PlacesKept) /\ (TagsKept' => TagsKept)
    BY <1>1 DEF PlacesKept, TagsKept
  <1>7. DataInv'
    BY <1>1, <1>6 DEF PhaseInv, MainInv, ForumInv, SignalInv, DataInv, Items
  <1>8. AnswersComplete'
    BY <1>1 DEF PhaseInv, MainInv, ForumInv, AnswersComplete, Tasks
  <1>9. QED
    BY <1>3, <1>5, <1>7, <1>8

\* Query 2 frees what nobody else reads after it.
LEMMA AnswerQuery2Step ==
    ASSUME IInv, AnswerQuery2 PROVE IInv'
  <1> USE Names DEF IInv, Fixed
  <1>1. /\ pc["q2"] = "query2" /\ pc'["q2"] = "raise"
        /\ pc'["main"] = pc["main"] /\ pc'["hasher"] = pc["hasher"] /\ pc'["places"] = pc["places"]
        /\ pc'["nameDestroyer"] = pc["nameDestroyer"] /\ pc'["comments"] = pc["comments"] /\ pc'["forum"] = pc["forum"]
        /\ \A p \in Q3 : pc'[p] = pc[p]
        /\ \A p \in Q3 : pc'[Destroyer[p]] = pc[Destroyer[p]]
        /\ \A p \in Q4 : pc'[p] = pc[p]
        /\ data' = [d \in Items |-> IF d \in {"birthday", "person_in_tags"} THEN "freed" ELSE data[d]]
        /\ UNCHANGED <<flag, count, large>>
    BY DEF AnswerQuery2, Goto, Free, PhaseInv, Phases
  <1>2. pc' = Phases'
    BY DEF AnswerQuery2, Goto, PhaseInv, Phases
  <1>3. PhaseInv' /\ MainInv' /\ ForumInv' /\ SignalInv'
    BY <1>1, <1>2 DEF PhaseInv, MainInv, ForumInv, SignalInv
  <1>4. ToCount' = ToCount
    BY <1>1 DEF ToCount
  <1>5. CountInv'
    BY <1>1, <1>4 DEF CountInv
  <1>6. (PlacesKept' => PlacesKept) /\ (TagsKept' => TagsKept)
    BY <1>1 DEF PlacesKept, TagsKept
  <1>7. DataInv'
    BY <1>1, <1>6 DEF PhaseInv, MainInv, ForumInv, SignalInv, DataInv, Items
  <1>8. AnswersComplete'
    BY <1>1 DEF PhaseInv, MainInv, ForumInv, AnswersComplete, Tasks
  <1>9. QED
    BY <1>3, <1>5, <1>7, <1>8

\* A worker takes a query 3.
LEMMA StartQ3Step ==
    ASSUME NEW q \in Q3, IInv, Start(q, "query3") PROVE IInv'
  <1> USE Names DEF IInv, Fixed
  <1>1. /\ pc'["main"] = pc["main"] /\ pc'["hasher"] = pc["hasher"] /\ pc'["places"] = pc["places"]
        /\ pc'["nameDestroyer"] = pc["nameDestroyer"] /\ pc'["comments"] = pc["comments"] /\ pc'["forum"] = pc["forum"]
        /\ pc'["q2"] = pc["q2"]
        /\ pc[q] = "queued" /\ \A p \in Q3 : pc'[p] = IF p = q THEN "query3" ELSE pc[p]
        /\ \A p \in Q3 : pc'[Destroyer[p]] = pc[Destroyer[p]]
        /\ \A p \in Q4 : pc'[p] = pc[p]
        /\ UNCHANGED <<data, flag, count, large>>
    BY DEF Start, PhaseInv, Phases
  <1>2. pc' = Phases'
    BY DEF Start, PhaseInv, Phases
  <1>3. PhaseInv' /\ MainInv' /\ ForumInv' /\ SignalInv'
    BY <1>1, <1>2 DEF PhaseInv, MainInv, ForumInv, SignalInv
  <1>4. ToCount' = ToCount
    BY <1>1 DEF ToCount
  <1>5. CountInv'
    BY <1>1, <1>4 DEF CountInv
  <1>6. (PlacesKept' => PlacesKept) /\ (TagsKept' => TagsKept)
    BY <1>1 DEF PlacesKept, TagsKept
  <1>7. DataInv'
    BY <1>1, <1>6 DEF PhaseInv, MainInv, ForumInv, SignalInv, DataInv, Items
  <1>8. AnswersComplete'
    BY <1>1 DEF PhaseInv, MainInv, ForumInv, AnswersComplete, Tasks
  <1>9. QED
    BY <1>3, <1>5, <1>7, <1>8

\* A query 3 is answered; it has not counted down yet.
LEMMA AnswerQuery3Step ==
    ASSUME NEW q \in Q3, IInv, AnswerQuery3(q) PROVE IInv'
  <1> USE Names DEF IInv, Fixed
  <1>1. /\ pc'["main"] = pc["main"] /\ pc'["hasher"] = pc["hasher"] /\ pc'["places"] = pc["places"]
        /\ pc'["nameDestroyer"] = pc["nameDestroyer"] /\ pc'["comments"] = pc["comments"] /\ pc'["forum"] = pc["forum"]
        /\ pc'["q2"] = pc["q2"]
        /\ pc[q] = "query3" /\ \A p \in Q3 : pc'[p] = IF p = q THEN "cont" ELSE pc[p]
        /\ \A p \in Q3 : pc'[Destroyer[p]] = pc[Destroyer[p]]
        /\ \A p \in Q4 : pc'[p] = pc[p]
        /\ UNCHANGED <<data, flag, count, large>>
    BY DEF AnswerQuery3, Goto, PhaseInv, Phases
  <1>2. pc' = Phases'
    BY DEF AnswerQuery3, Goto, PhaseInv, Phases
  <1>3. PhaseInv' /\ MainInv' /\ ForumInv' /\ SignalInv'
    BY <1>1, <1>2 DEF PhaseInv, MainInv, ForumInv, SignalInv
  <1>4. ToCount' = ToCount
    BY <1>1 DEF ToCount
  <1>5. CountInv'
    BY <1>1, <1>4 DEF CountInv
  <1>6. (PlacesKept' => PlacesKept) /\ (TagsKept' => TagsKept)
    BY <1>1 DEF PlacesKept, TagsKept
  <1>7. DataInv'
    BY <1>1, <1>6 DEF PhaseInv, MainInv, ForumInv, SignalInv, DataInv, Items
  <1>8. AnswersComplete'
    BY <1>1 DEF PhaseInv, MainInv, ForumInv, AnswersComplete, Tasks
  <1>9. QED
    BY <1>3, <1>5, <1>7, <1>8

\* A worker takes a query 4.
LEMMA StartQ4Step ==
    ASSUME NEW q \in Q4, IInv, Start(q, "query4") PROVE IInv'
  <1> USE Names DEF IInv, Fixed
  <1>1. /\ pc'["main"] = pc["main"] /\ pc'["hasher"] = pc["hasher"] /\ pc'["places"] = pc["places"]
        /\ pc'["nameDestroyer"] = pc["nameDestroyer"] /\ pc'["comments"] = pc["comments"] /\ pc'["forum"] = pc["forum"]
        /\ pc'["q2"] = pc["q2"]
        /\ \A p \in Q3 : pc'[p] = pc[p]
        /\ \A p \in Q3 : pc'[Destroyer[p]] = pc[Destroyer[p]]
        /\ pc[q] = "queued" /\ \A p \in Q4 : pc'[p] = IF p = q THEN "query4" ELSE pc[p]
        /\ UNCHANGED <<data, flag, count, large>>
    BY DEF Start, PhaseInv, Phases
  <1>2. pc' = Phases'
    BY DEF Start, PhaseInv, Phases
  <1>3. PhaseInv' /\ MainInv' /\ ForumInv' /\ SignalInv'
    BY <1>1, <1>2 DEF PhaseInv, MainInv, ForumInv, SignalInv
  <1>4. ToCount' = ToCount
    BY <1>1 DEF ToCount
  <1>5. CountInv'
    BY <1>1, <1>4 DEF CountInv
  <1>6. (PlacesKept' => PlacesKept) /\ (TagsKept' => TagsKept)
    BY <1>1 DEF PlacesKept, TagsKept
  <1>7. DataInv'
    BY <1>1, <1>6 DEF PhaseInv, MainInv, ForumInv, SignalInv, DataInv, Items
  <1>8. AnswersComplete'
    BY <1>1 DEF PhaseInv, MainInv, ForumInv, AnswersComplete, Tasks
  <1>9. QED
    BY <1>3, <1>5, <1>7, <1>8

\* A query 4 is answered.
LEMMA AnswerQuery4Step ==
    ASSUME NEW q \in Q4, IInv, AnswerQuery4(q) PROVE IInv'
  <1> USE Names DEF IInv, Fixed
  <1>1. /\ pc'["main"] = pc["main"] /\ pc'["hasher"] = pc["hasher"] /\ pc'["places"] = pc["places"]
        /\ pc'["nameDestroyer"] = pc["nameDestroyer"] /\ pc'["comments"] = pc["comments"] /\ pc'["forum"] = pc["forum"]
        /\ pc'["q2"] = pc["q2"]
        /\ \A p \in Q3 : pc'[p] = pc[p]
        /\ \A p \in Q3 : pc'[Destroyer[p]] = pc[Destroyer[p]]
        /\ pc[q] = "query4" /\ \A p \in Q4 : pc'[p] = IF p = q THEN "done" ELSE pc[p]
        /\ UNCHANGED <<data, flag, count, large>>
    BY DEF AnswerQuery4, Goto, PhaseInv, Phases
  <1>2. pc' = Phases'
    BY DEF AnswerQuery4, Goto, PhaseInv, Phases
  <1>3. PhaseInv' /\ MainInv' /\ ForumInv' /\ SignalInv'
    BY <1>1, <1>2 DEF PhaseInv, MainInv, ForumInv, SignalInv
  <1>4. ToCount' = ToCount
    BY <1>1 DEF ToCount
  <1>5. CountInv'
    BY <1>1, <1>4 DEF CountInv
  <1>6. (PlacesKept' => PlacesKept) /\ (TagsKept' => TagsKept)
    BY <1>1 DEF PlacesKept, TagsKept
  <1>7. DataInv'
    BY <1>1, <1>6 DEF PhaseInv, MainInv, ForumInv, SignalInv, DataInv, Items
  <1>8. AnswersComplete'
    BY <1>1 DEF PhaseInv, MainInv, ForumInv, AnswersComplete, Tasks
  <1>9. QED
    BY <1>3, <1>5, <1>7, <1>8

\* The names of tags are freed after query 2, their only reader.
LEMMA DestroyTagNameStep ==
    ASSUME IInv, DestroyTagName PROVE IInv'
  <1> USE Names DEF IInv, Fixed
  <1>1. /\ pc["nameDestroyer"] = "passed" /\ pc'["nameDestroyer"] = "done"
        /\ pc'["main"] = pc["main"] /\ pc'["hasher"] = pc["hasher"] /\ pc'["places"] = pc["places"]
        /\ pc'["comments"] = pc["comments"] /\ pc'["forum"] = pc["forum"] /\ pc'["q2"] = pc["q2"]
        /\ \A p \in Q3 : pc'[p] = pc[p]
        /\ \A p \in Q3 : pc'[Destroyer[p]] = pc[Destroyer[p]]
        /\ \A p \in Q4 : pc'[p] = pc[p]
        /\ data' = [d \in Items |-> IF d \in {"tag_name"} THEN "freed" ELSE data[d]]
        /\ UNCHANGED <<flag, count, large>>
    BY DEF DestroyTagName, Goto, Free, PhaseInv, Phases
  <1>2. pc' = Phases'
    BY DEF DestroyTagName, Goto, PhaseInv, Phases
  <1>3. PhaseInv' /\ MainInv' /\ ForumInv' /\ SignalInv'
    BY <1>1, <1>2 DEF PhaseInv, MainInv, ForumInv, SignalInv
  <1>4. ToCount' = ToCount
    BY <1>1 DEF ToCount
  <1>5. CountInv'
    BY <1>1, <1>4 DEF CountInv
  <1>6. (PlacesKept' => PlacesKept) /\ (TagsKept' => TagsKept)
    BY <1>1 DEF PlacesKept, TagsKept
  <1>7. DataInv'
    BY <1>1, <1>6 DEF PhaseInv, MainInv, ForumInv, SignalInv, DataInv, Items
  <1>8. AnswersComplete'
    BY <1>1 DEF PhaseInv, MainInv, ForumInv, AnswersComplete, Tasks
  <1>9. QED
    BY <1>3, <1>5, <1>7, <1>8

\* The places are freed by the thread of the last query 3 only.
LEMMA DestroyPlacesStep ==
    ASSUME NEW q \in Q3, IInv, DestroyPlaces(Destroyer[q]) PROVE IInv'
  <1> USE Names DEF IInv, Fixed
  <1>1. /\ pc'["main"] = pc["main"] /\ pc'["hasher"] = pc["hasher"] /\ pc'["places"] = pc["places"]
        /\ pc'["nameDestroyer"] = pc["nameDestroyer"] /\ pc'["comments"] = pc["comments"] /\ pc'["forum"] = pc["forum"]
        /\ pc'["q2"] = pc["q2"]
        /\ \A p \in Q3 : pc'[p] = pc[p]
        /\ pc[Destroyer[q]] = "clear"
        /\ \A p \in Q3 : pc'[Destroyer[p]] = IF p = q THEN "test" ELSE pc[Destroyer[p]]
        /\ \A p \in Q4 : pc'[p] = pc[p]
        /\ data' = [d \in Items |-> IF d \in {"places"} THEN "freed" ELSE data[d]]
        /\ UNCHANGED <<flag, count, large>>
    BY DEF DestroyPlaces, Goto, Free, PhaseInv, Phases
  <1>2. pc' = Phases'
    BY DEF DestroyPlaces, Goto, PhaseInv, Phases
  <1>3. PhaseInv' /\ MainInv' /\ ForumInv' /\ SignalInv'
    BY <1>1, <1>2 DEF PhaseInv, MainInv, ForumInv, SignalInv
  <1>4. ToCount' = ToCount
    BY <1>1 DEF ToCount
  <1>5. CountInv'
    BY <1>1, <1>4 DEF CountInv
  <1>6. (PlacesKept' => PlacesKept) /\ (TagsKept' => TagsKept)
    BY <1>1 DEF PlacesKept, TagsKept
  <1>7. DataInv'
    <2>1. ~PlacesKept'
      BY <1>1 DEF PlacesKept
    <2>2. QED
      BY <1>1, <1>6, <2>1 DEF PhaseInv, MainInv, ForumInv, SignalInv, DataInv, Items
  <1>8. AnswersComplete'
    BY <1>1 DEF PhaseInv, MainInv, ForumInv, AnswersComplete, Tasks
  <1>9. QED
    BY <1>3, <1>5, <1>7, <1>8

\* The tags are freed after query 3, and after query 2 by the wait.
LEMMA DestroyTagsStep ==
    ASSUME NEW q \in Q3, IInv, DestroyTags(Destroyer[q]) PROVE IInv'
  <1> USE Names DEF IInv, Fixed
  <1>1. /\ pc'["main"] = pc["main"] /\ pc'["hasher"] = pc["hasher"] /\ pc'["places"] = pc["places"]
        /\ pc'["nameDestroyer"] = pc["nameDestroyer"] /\ pc'["comments"] = pc["comments"] /\ pc'["forum"] = pc["forum"]
        /\ pc'["q2"] = pc["q2"]
        /\ \A p \in Q3 : pc'[p] = pc[p]
        /\ pc[Destroyer[q]] = "passed"
        /\ \A p \in Q3 : pc'[Destroyer[p]] = IF p = q THEN "done" ELSE pc[Destroyer[p]]
        /\ \A p \in Q4 : pc'[p] = pc[p]
        /\ data' = [d \in Items |-> IF d \in {"tags"} THEN "freed" ELSE data[d]]
        /\ UNCHANGED <<flag, count, large>>
    BY DEF DestroyTags, Goto, Free, PhaseInv, Phases
  <1>2. pc' = Phases'
    BY DEF DestroyTags, Goto, PhaseInv, Phases
  <1>3. PhaseInv' /\ MainInv' /\ ForumInv' /\ SignalInv'
    BY <1>1, <1>2 DEF PhaseInv, MainInv, ForumInv, SignalInv
  <1>4. ToCount' = ToCount
    BY <1>1 DEF ToCount
  <1>5. CountInv'
    BY <1>1, <1>4 DEF CountInv
  <1>6. (PlacesKept' => PlacesKept) /\ (TagsKept' => TagsKept)
    BY <1>1 DEF PlacesKept, TagsKept
  <1>7. DataInv'
    <2>1. ~TagsKept'
      BY <1>1 DEF TagsKept
    <2>2. QED
      BY <1>1, <1>6, <2>1 DEF PhaseInv, MainInv, ForumInv, SignalInv, DataInv, Items
  <1>8. AnswersComplete'
    BY <1>1 DEF PhaseInv, MainInv, ForumInv, AnswersComplete, Tasks
  <1>9. QED
    BY <1>3, <1>5, <1>7, <1>8

\* main tests the boolean of the tags and passes only if it is set.
LEMMA TestMainStep ==
    ASSUME IInv, TestSignal("main") PROVE IInv'
  <1> USE Names DEF IInv, Fixed
  <1>1. /\ pc["main"] = "test" /\ pc'["main"] = IF flag["tag_read"] THEN "passed" ELSE "drowsy"
        /\ pc'["hasher"] = pc["hasher"] /\ pc'["places"] = pc["places"] /\ pc'["nameDestroyer"] = pc["nameDestroyer"]
        /\ pc'["comments"] = pc["comments"] /\ pc'["forum"] = pc["forum"] /\ pc'["q2"] = pc["q2"]
        /\ \A p \in Q3 : pc'[p] = pc[p]
        /\ \A p \in Q3 : pc'[Destroyer[p]] = pc[Destroyer[p]]
        /\ \A p \in Q4 : pc'[p] = pc[p]
        /\ UNCHANGED <<data, flag, count, large>>
    BY DEF TestSignal, SignalOf, PhaseInv, Phases
  <1>2. pc' = Phases'
    BY DEF TestSignal, SignalOf, PhaseInv, Phases
  <1>3. PhaseInv' /\ MainInv' /\ ForumInv' /\ SignalInv'
    BY <1>1, <1>2 DEF PhaseInv, MainInv, ForumInv, SignalInv
  <1>4. ToCount' = ToCount
    BY <1>1 DEF ToCount
  <1>5. CountInv'
    BY <1>1, <1>4 DEF CountInv
  <1>6. (PlacesKept' => PlacesKept) /\ (TagsKept' => TagsKept)
    BY <1>1 DEF PlacesKept, TagsKept
  <1>7. DataInv'
    BY <1>1, <1>6 DEF PhaseInv, MainInv, ForumInv, SignalInv, DataInv, Items
  <1>8. AnswersComplete'
    BY <1>1 DEF PhaseInv, MainInv, ForumInv, AnswersComplete, Tasks
  <1>9. QED
    BY <1>3, <1>5, <1>7, <1>8

\* The comment task tests the boolean of the hash.
LEMMA TestCommentsStep ==
    ASSUME IInv, TestSignal("comments") PROVE IInv'
  <1> USE Names DEF IInv, Fixed
  <1>1. /\ pc["comments"] = "test" /\ pc'["comments"] = IF flag["friends_hash_built"] THEN "passed" ELSE "drowsy"
        /\ pc'["main"] = pc["main"] /\ pc'["hasher"] = pc["hasher"] /\ pc'["places"] = pc["places"]
        /\ pc'["nameDestroyer"] = pc["nameDestroyer"] /\ pc'["forum"] = pc["forum"] /\ pc'["q2"] = pc["q2"]
        /\ \A p \in Q3 : pc'[p] = pc[p]
        /\ \A p \in Q3 : pc'[Destroyer[p]] = pc[Destroyer[p]]
        /\ \A p \in Q4 : pc'[p] = pc[p]
        /\ UNCHANGED <<data, flag, count, large>>
    BY DEF TestSignal, SignalOf, PhaseInv, Phases
  <1>2. pc' = Phases'
    BY DEF TestSignal, SignalOf, PhaseInv, Phases
  <1>3. PhaseInv' /\ MainInv' /\ ForumInv' /\ SignalInv'
    BY <1>1, <1>2 DEF PhaseInv, MainInv, ForumInv, SignalInv
  <1>4. ToCount' = ToCount
    BY <1>1 DEF ToCount
  <1>5. CountInv'
    BY <1>1, <1>4 DEF CountInv
  <1>6. (PlacesKept' => PlacesKept) /\ (TagsKept' => TagsKept)
    BY <1>1 DEF PlacesKept, TagsKept
  <1>7. DataInv'
    BY <1>1, <1>6 DEF PhaseInv, MainInv, ForumInv, SignalInv, DataInv, Items
  <1>8. AnswersComplete'
    BY <1>1 DEF PhaseInv, MainInv, ForumInv, AnswersComplete, Tasks
  <1>9. QED
    BY <1>3, <1>5, <1>7, <1>8

\* destroy_tag_name tests the boolean of query 2.
LEMMA TestNameDestroyerStep ==
    ASSUME IInv, TestSignal("nameDestroyer") PROVE IInv'
  <1> USE Names DEF IInv, Fixed
  <1>1. /\ pc["nameDestroyer"] = "test" /\ pc'["nameDestroyer"] = IF flag["q2_finished"] THEN "passed" ELSE "drowsy"
        /\ pc'["main"] = pc["main"] /\ pc'["hasher"] = pc["hasher"] /\ pc'["places"] = pc["places"]
        /\ pc'["comments"] = pc["comments"] /\ pc'["forum"] = pc["forum"] /\ pc'["q2"] = pc["q2"]
        /\ \A p \in Q3 : pc'[p] = pc[p]
        /\ \A p \in Q3 : pc'[Destroyer[p]] = pc[Destroyer[p]]
        /\ \A p \in Q4 : pc'[p] = pc[p]
        /\ UNCHANGED <<data, flag, count, large>>
    BY DEF TestSignal, SignalOf, PhaseInv, Phases
  <1>2. pc' = Phases'
    BY DEF TestSignal, SignalOf, PhaseInv, Phases
  <1>3. PhaseInv' /\ MainInv' /\ ForumInv' /\ SignalInv'
    BY <1>1, <1>2 DEF PhaseInv, MainInv, ForumInv, SignalInv
  <1>4. ToCount' = ToCount
    BY <1>1 DEF ToCount
  <1>5. CountInv'
    BY <1>1, <1>4 DEF CountInv
  <1>6. (PlacesKept' => PlacesKept) /\ (TagsKept' => TagsKept)
    BY <1>1 DEF PlacesKept, TagsKept
  <1>7. DataInv'
    BY <1>1, <1>6 DEF PhaseInv, MainInv, ForumInv, SignalInv, DataInv, Items
  <1>8. AnswersComplete'
    BY <1>1 DEF PhaseInv, MainInv, ForumInv, AnswersComplete, Tasks
  <1>9. QED
    BY <1>3, <1>5, <1>7, <1>8

\* destroy_q3_data tests the boolean of query 2.
LEMMA TestDestroyerStep ==
    ASSUME NEW q \in Q3, IInv, TestSignal(Destroyer[q]) PROVE IInv'
  <1> USE Names DEF IInv, Fixed
  <1>1. /\ pc'["main"] = pc["main"] /\ pc'["hasher"] = pc["hasher"] /\ pc'["places"] = pc["places"]
        /\ pc'["nameDestroyer"] = pc["nameDestroyer"] /\ pc'["comments"] = pc["comments"] /\ pc'["forum"] = pc["forum"]
        /\ pc'["q2"] = pc["q2"]
        /\ \A p \in Q3 : pc'[p] = pc[p]
        /\ pc[Destroyer[q]] = "test"
        /\ \A p \in Q3 : pc'[Destroyer[p]] = IF p = q THEN IF flag["q2_finished"] THEN "passed" ELSE "drowsy" ELSE pc[Destroyer[p]]
        /\ \A p \in Q4 : pc'[p] = pc[p]
        /\ UNCHANGED <<data, flag, count, large>>
    BY DEF TestSignal, SignalOf, PhaseInv, Phases
  <1>2. pc' = Phases'
    BY DEF TestSignal, SignalOf, PhaseInv, Phases
  <1>3. PhaseInv' /\ MainInv' /\ ForumInv' /\ SignalInv'
    BY <1>1, <1>2 DEF PhaseInv, MainInv, ForumInv, SignalInv
  <1>4. ToCount' = ToCount
    BY <1>1 DEF ToCount
  <1>5. CountInv'
    BY <1>1, <1>4 DEF CountInv
  <1>6. (PlacesKept' => PlacesKept) /\ (TagsKept' => TagsKept)
    BY <1>1 DEF PlacesKept, TagsKept
  <1>7. DataInv'
    BY <1>1, <1>6 DEF PhaseInv, MainInv, ForumInv, SignalInv, DataInv, Items
  <1>8. AnswersComplete'
    BY <1>1 DEF PhaseInv, MainInv, ForumInv, AnswersComplete, Tasks
  <1>9. QED
    BY <1>3, <1>5, <1>7, <1>8

\* main falls asleep; a notification may have been missed.
LEMMA SleepMainStep ==
    ASSUME IInv, FallAsleep("main") PROVE IInv'
  <1> USE Names DEF IInv, Fixed
  <1>1. /\ pc["main"] = "drowsy" /\ pc'["main"] = "asleep"
        /\ pc'["hasher"] = pc["hasher"] /\ pc'["places"] = pc["places"] /\ pc'["nameDestroyer"] = pc["nameDestroyer"]
        /\ pc'["comments"] = pc["comments"] /\ pc'["forum"] = pc["forum"] /\ pc'["q2"] = pc["q2"]
        /\ \A p \in Q3 : pc'[p] = pc[p]
        /\ \A p \in Q3 : pc'[Destroyer[p]] = pc[Destroyer[p]]
        /\ \A p \in Q4 : pc'[p] = pc[p]
        /\ UNCHANGED <<data, flag, count, large>>
    BY DEF FallAsleep, Goto, PhaseInv, Phases
  <1>2. pc' = Phases'
    BY DEF FallAsleep, Goto, PhaseInv, Phases
  <1>3. PhaseInv' /\ MainInv' /\ ForumInv' /\ SignalInv'
    BY <1>1, <1>2 DEF PhaseInv, MainInv, ForumInv, SignalInv
  <1>4. ToCount' = ToCount
    BY <1>1 DEF ToCount
  <1>5. CountInv'
    BY <1>1, <1>4 DEF CountInv
  <1>6. (PlacesKept' => PlacesKept) /\ (TagsKept' => TagsKept)
    BY <1>1 DEF PlacesKept, TagsKept
  <1>7. DataInv'
    BY <1>1, <1>6 DEF PhaseInv, MainInv, ForumInv, SignalInv, DataInv, Items
  <1>8. AnswersComplete'
    BY <1>1 DEF PhaseInv, MainInv, ForumInv, AnswersComplete, Tasks
  <1>9. QED
    BY <1>3, <1>5, <1>7, <1>8

\* The comment task falls asleep.
LEMMA SleepCommentsStep ==
    ASSUME IInv, FallAsleep("comments") PROVE IInv'
  <1> USE Names DEF IInv, Fixed
  <1>1. /\ pc["comments"] = "drowsy" /\ pc'["comments"] = "asleep"
        /\ pc'["main"] = pc["main"] /\ pc'["hasher"] = pc["hasher"] /\ pc'["places"] = pc["places"]
        /\ pc'["nameDestroyer"] = pc["nameDestroyer"] /\ pc'["forum"] = pc["forum"] /\ pc'["q2"] = pc["q2"]
        /\ \A p \in Q3 : pc'[p] = pc[p]
        /\ \A p \in Q3 : pc'[Destroyer[p]] = pc[Destroyer[p]]
        /\ \A p \in Q4 : pc'[p] = pc[p]
        /\ UNCHANGED <<data, flag, count, large>>
    BY DEF FallAsleep, Goto, PhaseInv, Phases
  <1>2. pc' = Phases'
    BY DEF FallAsleep, Goto, PhaseInv, Phases
  <1>3. PhaseInv' /\ MainInv' /\ ForumInv' /\ SignalInv'
    BY <1>1, <1>2 DEF PhaseInv, MainInv, ForumInv, SignalInv
  <1>4. ToCount' = ToCount
    BY <1>1 DEF ToCount
  <1>5. CountInv'
    BY <1>1, <1>4 DEF CountInv
  <1>6. (PlacesKept' => PlacesKept) /\ (TagsKept' => TagsKept)
    BY <1>1 DEF PlacesKept, TagsKept
  <1>7. DataInv'
    BY <1>1, <1>6 DEF PhaseInv, MainInv, ForumInv, SignalInv, DataInv, Items
  <1>8. AnswersComplete'
    BY <1>1 DEF PhaseInv, MainInv, ForumInv, AnswersComplete, Tasks
  <1>9. QED
    BY <1>3, <1>5, <1>7, <1>8

\* destroy_tag_name falls asleep.
LEMMA SleepNameDestroyerStep ==
    ASSUME IInv, FallAsleep("nameDestroyer") PROVE IInv'
  <1> USE Names DEF IInv, Fixed
  <1>1. /\ pc["nameDestroyer"] = "drowsy" /\ pc'["nameDestroyer"] = "asleep"
        /\ pc'["main"] = pc["main"] /\ pc'["hasher"] = pc["hasher"] /\ pc'["places"] = pc["places"]
        /\ pc'["comments"] = pc["comments"] /\ pc'["forum"] = pc["forum"] /\ pc'["q2"] = pc["q2"]
        /\ \A p \in Q3 : pc'[p] = pc[p]
        /\ \A p \in Q3 : pc'[Destroyer[p]] = pc[Destroyer[p]]
        /\ \A p \in Q4 : pc'[p] = pc[p]
        /\ UNCHANGED <<data, flag, count, large>>
    BY DEF FallAsleep, Goto, PhaseInv, Phases
  <1>2. pc' = Phases'
    BY DEF FallAsleep, Goto, PhaseInv, Phases
  <1>3. PhaseInv' /\ MainInv' /\ ForumInv' /\ SignalInv'
    BY <1>1, <1>2 DEF PhaseInv, MainInv, ForumInv, SignalInv
  <1>4. ToCount' = ToCount
    BY <1>1 DEF ToCount
  <1>5. CountInv'
    BY <1>1, <1>4 DEF CountInv
  <1>6. (PlacesKept' => PlacesKept) /\ (TagsKept' => TagsKept)
    BY <1>1 DEF PlacesKept, TagsKept
  <1>7. DataInv'
    BY <1>1, <1>6 DEF PhaseInv, MainInv, ForumInv, SignalInv, DataInv, Items
  <1>8. AnswersComplete'
    BY <1>1 DEF PhaseInv, MainInv, ForumInv, AnswersComplete, Tasks
  <1>9. QED
    BY <1>3, <1>5, <1>7, <1>8

\* destroy_q3_data falls asleep.
LEMMA SleepDestroyerStep ==
    ASSUME NEW q \in Q3, IInv, FallAsleep(Destroyer[q]) PROVE IInv'
  <1> USE Names DEF IInv, Fixed
  <1>1. /\ pc'["main"] = pc["main"] /\ pc'["hasher"] = pc["hasher"] /\ pc'["places"] = pc["places"]
        /\ pc'["nameDestroyer"] = pc["nameDestroyer"] /\ pc'["comments"] = pc["comments"] /\ pc'["forum"] = pc["forum"]
        /\ pc'["q2"] = pc["q2"]
        /\ \A p \in Q3 : pc'[p] = pc[p]
        /\ pc[Destroyer[q]] = "drowsy"
        /\ \A p \in Q3 : pc'[Destroyer[p]] = IF p = q THEN "asleep" ELSE pc[Destroyer[p]]
        /\ \A p \in Q4 : pc'[p] = pc[p]
        /\ UNCHANGED <<data, flag, count, large>>
    BY DEF FallAsleep, Goto, PhaseInv, Phases
  <1>2. pc' = Phases'
    BY DEF FallAsleep, Goto, PhaseInv, Phases
  <1>3. PhaseInv' /\ MainInv' /\ ForumInv' /\ SignalInv'
    BY <1>1, <1>2 DEF PhaseInv, MainInv, ForumInv, SignalInv
  <1>4. ToCount' = ToCount
    BY <1>1 DEF ToCount
  <1>5. CountInv'
    BY <1>1, <1>4 DEF CountInv
  <1>6. (PlacesKept' => PlacesKept) /\ (TagsKept' => TagsKept)
    BY <1>1 DEF PlacesKept, TagsKept
  <1>7. DataInv'
    BY <1>1, <1>6 DEF PhaseInv, MainInv, ForumInv, SignalInv, DataInv, Items
  <1>8. AnswersComplete'
    BY <1>1 DEF PhaseInv, MainInv, ForumInv, AnswersComplete, Tasks
  <1>9. QED
    BY <1>3, <1>5, <1>7, <1>8

\* The boolean of the hash is set when the hash is built.
LEMMA RaiseHasherStep ==
    ASSUME IInv, Raise("hasher", "friends_hash_built") PROVE IInv'
  <1> USE Names DEF IInv, Fixed
  <1>1. /\ pc["hasher"] = "raise" /\ pc'["hasher"] = "notify"
        /\ pc'["main"] = pc["main"] /\ pc'["places"] = pc["places"] /\ pc'["nameDestroyer"] = pc["nameDestroyer"]
        /\ pc'["comments"] = pc["comments"] /\ pc'["forum"] = pc["forum"] /\ pc'["q2"] = pc["q2"]
        /\ \A p \in Q3 : pc'[p] = pc[p]
        /\ \A p \in Q3 : pc'[Destroyer[p]] = pc[Destroyer[p]]
        /\ \A p \in Q4 : pc'[p] = pc[p]
        /\ flag' = [flag EXCEPT !["friends_hash_built"] = TRUE]
        /\ UNCHANGED <<data, count, large>>
    BY DEF Raise, Goto, PhaseInv, Phases
  <1>2. pc' = Phases'
    BY DEF Raise, Goto, PhaseInv, Phases
  <1>3. PhaseInv' /\ MainInv' /\ ForumInv'
    BY <1>1, <1>2 DEF PhaseInv, MainInv, ForumInv
  <1>4. SignalInv'
    BY <1>1 DEF PhaseInv, SignalInv, Signals
  <1>5. ToCount' = ToCount
    BY <1>1 DEF ToCount
  <1>6. CountInv'
    BY <1>1, <1>5 DEF CountInv
  <1>7. (PlacesKept' => PlacesKept) /\ (TagsKept' => TagsKept)
    BY <1>1 DEF PlacesKept, TagsKept
  <1>8. DataInv'
    BY <1>1, <1>7 DEF PhaseInv, MainInv, ForumInv, SignalInv, DataInv, Items
  <1>9. AnswersComplete'
    BY <1>1 DEF PhaseInv, MainInv, ForumInv, AnswersComplete, Tasks
  <1>10. QED
    BY <1>3, <1>4, <1>6, <1>8, <1>9

\* The boolean of the tags is set when the places are ready too.
LEMMA RaisePlacesStep ==
    ASSUME IInv, Raise("places", "tag_read") PROVE IInv'
  <1> USE Names DEF IInv, Fixed
  <1>1. /\ pc["places"] = "raise" /\ pc'["places"] = "notify"
        /\ pc'["main"] = pc["main"] /\ pc'["hasher"] = pc["hasher"] /\ pc'["nameDestroyer"] = pc["nameDestroyer"]
        /\ pc'["comments"] = pc["comments"] /\ pc'["forum"] = pc["forum"] /\ pc'["q2"] = pc["q2"]
        /\ \A p \in Q3 : pc'[p] = pc[p]
        /\ \A p \in Q3 : pc'[Destroyer[p]] = pc[Destroyer[p]]
        /\ \A p \in Q4 : pc'[p] = pc[p]
        /\ flag' = [flag EXCEPT !["tag_read"] = TRUE]
        /\ UNCHANGED <<data, count, large>>
    BY DEF Raise, Goto, PhaseInv, Phases
  <1>2. pc' = Phases'
    BY DEF Raise, Goto, PhaseInv, Phases
  <1>3. PhaseInv' /\ MainInv' /\ ForumInv'
    BY <1>1, <1>2 DEF PhaseInv, MainInv, ForumInv
  <1>4. SignalInv'
    BY <1>1 DEF PhaseInv, SignalInv, Signals
  <1>5. ToCount' = ToCount
    BY <1>1 DEF ToCount
  <1>6. CountInv'
    BY <1>1, <1>5 DEF CountInv
  <1>7. (PlacesKept' => PlacesKept) /\ (TagsKept' => TagsKept)
    BY <1>1 DEF PlacesKept, TagsKept
  <1>8. DataInv'
    BY <1>1, <1>7 DEF PhaseInv, MainInv, ForumInv, SignalInv, DataInv, Items
  <1>9. AnswersComplete'
    BY <1>1 DEF PhaseInv, MainInv, ForumInv, AnswersComplete, Tasks
  <1>10. QED
    BY <1>3, <1>4, <1>6, <1>8, <1>9

\* The boolean of query 2 is set when it is answered.
LEMMA RaiseQ2Step ==
    ASSUME IInv, Raise("q2", "q2_finished") PROVE IInv'
  <1> USE Names DEF IInv, Fixed
  <1>1. /\ pc["q2"] = "raise" /\ pc'["q2"] = "notify"
        /\ pc'["main"] = pc["main"] /\ pc'["hasher"] = pc["hasher"] /\ pc'["places"] = pc["places"]
        /\ pc'["nameDestroyer"] = pc["nameDestroyer"] /\ pc'["comments"] = pc["comments"] /\ pc'["forum"] = pc["forum"]
        /\ \A p \in Q3 : pc'[p] = pc[p]
        /\ \A p \in Q3 : pc'[Destroyer[p]] = pc[Destroyer[p]]
        /\ \A p \in Q4 : pc'[p] = pc[p]
        /\ flag' = [flag EXCEPT !["q2_finished"] = TRUE]
        /\ UNCHANGED <<data, count, large>>
    BY DEF Raise, Goto, PhaseInv, Phases
  <1>2. pc' = Phases'
    BY DEF Raise, Goto, PhaseInv, Phases
  <1>3. PhaseInv' /\ MainInv' /\ ForumInv'
    BY <1>1, <1>2 DEF PhaseInv, MainInv, ForumInv
  <1>4. SignalInv'
    BY <1>1 DEF PhaseInv, SignalInv, Signals
  <1>5. ToCount' = ToCount
    BY <1>1 DEF ToCount
  <1>6. CountInv'
    BY <1>1, <1>5 DEF CountInv
  <1>7. (PlacesKept' => PlacesKept) /\ (TagsKept' => TagsKept)
    BY <1>1 DEF PlacesKept, TagsKept
  <1>8. DataInv'
    BY <1>1, <1>7 DEF PhaseInv, MainInv, ForumInv, SignalInv, DataInv, Items
  <1>9. AnswersComplete'
    BY <1>1 DEF PhaseInv, MainInv, ForumInv, AnswersComplete, Tasks
  <1>10. QED
    BY <1>3, <1>4, <1>6, <1>8, <1>9

\* Who slept on the hash goes back to its test.
LEMMA NotifyHasherStep ==
    ASSUME IInv, NotifyWaiters("hasher", "friends_hash_built") PROVE IInv'
  <1> USE Names DEF IInv, Fixed
  <1>1. /\ pc'["comments"] = IF pc["comments"] = "asleep" THEN "test" ELSE pc["comments"]
        /\ pc["hasher"] = "notify" /\ pc'["hasher"] = "done"
        /\ pc'["main"] = pc["main"] /\ pc'["places"] = pc["places"] /\ pc'["nameDestroyer"] = pc["nameDestroyer"]
        /\ pc'["forum"] = pc["forum"] /\ pc'["q2"] = pc["q2"]
        /\ \A p \in Q3 : pc'[p] = pc[p]
        /\ \A p \in Q3 : pc'[Destroyer[p]] = pc[Destroyer[p]]
        /\ \A p \in Q4 : pc'[p] = pc[p]
        /\ UNCHANGED <<data, flag, count, large>>
    BY DEF NotifyWaiters, SignalOf, PhaseInv, Phases
  <1>2. pc' = Phases'
    BY DEF NotifyWaiters, SignalOf, PhaseInv, Phases
  <1>3. PhaseInv' /\ MainInv' /\ ForumInv' /\ SignalInv'
    BY <1>1, <1>2 DEF PhaseInv, MainInv, ForumInv, SignalInv
  <1>4. ToCount' = ToCount
    BY <1>1 DEF ToCount
  <1>5. CountInv'
    BY <1>1, <1>4 DEF CountInv
  <1>6. (PlacesKept' => PlacesKept) /\ (TagsKept' => TagsKept)
    BY <1>1 DEF PlacesKept, TagsKept
  <1>7. DataInv'
    BY <1>1, <1>6 DEF PhaseInv, MainInv, ForumInv, SignalInv, DataInv, Items
  <1>8. AnswersComplete'
    BY <1>1 DEF PhaseInv, MainInv, ForumInv, AnswersComplete, Tasks
  <1>9. QED
    BY <1>3, <1>5, <1>7, <1>8

\* Who slept on the tags goes back to its test.
LEMMA NotifyPlacesStep ==
    ASSUME IInv, NotifyWaiters("places", "tag_read") PROVE IInv'
  <1> USE Names DEF IInv, Fixed
  <1>1. /\ pc'["main"] = IF pc["main"] = "asleep" THEN "test" ELSE pc["main"]
        /\ pc["places"] = "notify" /\ pc'["places"] = "done"
        /\ pc'["hasher"] = pc["hasher"] /\ pc'["nameDestroyer"] = pc["nameDestroyer"] /\ pc'["comments"] = pc["comments"]
        /\ pc'["forum"] = pc["forum"] /\ pc'["q2"] = pc["q2"]
        /\ \A p \in Q3 : pc'[p] = pc[p]
        /\ \A p \in Q3 : pc'[Destroyer[p]] = pc[Destroyer[p]]
        /\ \A p \in Q4 : pc'[p] = pc[p]
        /\ UNCHANGED <<data, flag, count, large>>
    BY DEF NotifyWaiters, SignalOf, PhaseInv, Phases
  <1>2. pc' = Phases'
    BY DEF NotifyWaiters, SignalOf, PhaseInv, Phases
  <1>3. PhaseInv' /\ MainInv' /\ ForumInv' /\ SignalInv'
    BY <1>1, <1>2 DEF PhaseInv, MainInv, ForumInv, SignalInv
  <1>4. ToCount' = ToCount
    BY <1>1 DEF ToCount
  <1>5. CountInv'
    BY <1>1, <1>4 DEF CountInv
  <1>6. (PlacesKept' => PlacesKept) /\ (TagsKept' => TagsKept)
    BY <1>1 DEF PlacesKept, TagsKept
  <1>7. DataInv'
    BY <1>1, <1>6 DEF PhaseInv, MainInv, ForumInv, SignalInv, DataInv, Items
  <1>8. AnswersComplete'
    BY <1>1 DEF PhaseInv, MainInv, ForumInv, AnswersComplete, Tasks
  <1>9. QED
    BY <1>3, <1>5, <1>7, <1>8

\* Who slept on query 2 goes back to its test.
LEMMA NotifyQ2Step ==
    ASSUME IInv, NotifyWaiters("q2", "q2_finished") PROVE IInv'
  <1> USE Names DEF IInv, Fixed
  <1>1. /\ pc'["nameDestroyer"] = IF pc["nameDestroyer"] = "asleep" THEN "test" ELSE pc["nameDestroyer"]
        /\ pc["q2"] = "notify" /\ pc'["q2"] = "done"
        /\ pc'["main"] = pc["main"] /\ pc'["hasher"] = pc["hasher"] /\ pc'["places"] = pc["places"]
        /\ pc'["comments"] = pc["comments"] /\ pc'["forum"] = pc["forum"]
        /\ \A p \in Q3 : pc'[p] = pc[p]
        /\ \A p \in Q3 : pc'[Destroyer[p]] = IF pc[Destroyer[p]] = "asleep" THEN "test" ELSE pc[Destroyer[p]]
        /\ \A p \in Q4 : pc'[p] = pc[p]
        /\ UNCHANGED <<data, flag, count, large>>
    BY DEF NotifyWaiters, SignalOf, PhaseInv, Phases
  <1>2. pc' = Phases'
    BY DEF NotifyWaiters, SignalOf, PhaseInv, Phases
  <1>3. PhaseInv' /\ MainInv' /\ ForumInv' /\ SignalInv'
    BY <1>1, <1>2 DEF PhaseInv, MainInv, ForumInv, SignalInv
  <1>4. ToCount' = ToCount
    BY <1>1 DEF ToCount
  <1>5. CountInv'
    BY <1>1, <1>4 DEF CountInv
  <1>6. (PlacesKept' => PlacesKept) /\ (TagsKept' => TagsKept)
    BY <1>1 DEF PlacesKept, TagsKept
  <1>7. DataInv'
    BY <1>1, <1>6 DEF PhaseInv, MainInv, ForumInv, SignalInv, DataInv, Items
  <1>8. AnswersComplete'
    BY <1>1 DEF PhaseInv, MainInv, ForumInv, AnswersComplete, Tasks
  <1>9. QED
    BY <1>3, <1>5, <1>7, <1>8

\* A query 3 leaves those that have to count down: the counter stays their number.
LEMMA CountDownStep ==
    ASSUME NEW q \in Q3, IInv, CountDown(q) PROVE IInv'
  <1> USE Names DEF IInv, Fixed
  <1>1. /\ pc'["main"] = pc["main"] /\ pc'["hasher"] = pc["hasher"] /\ pc'["places"] = pc["places"]
        /\ pc'["nameDestroyer"] = pc["nameDestroyer"] /\ pc'["comments"] = pc["comments"] /\ pc'["forum"] = pc["forum"]
        /\ pc'["q2"] = pc["q2"]
        /\ pc[q] = "cont" /\ \A p \in Q3 : pc'[p] = IF p = q THEN "look" ELSE pc[p]
        /\ \A p \in Q3 : pc'[Destroyer[p]] = pc[Destroyer[p]]
        /\ \A p \in Q4 : pc'[p] = pc[p]
        /\ count' = (IF large THEN count - 1 ELSE count)
        /\ UNCHANGED <<data, flag, large>>
    BY DEF CountDown, Goto, PhaseInv, Phases
  <1>2. pc' = Phases'
    BY DEF CountDown, Goto, PhaseInv, Phases
  <1>3. PhaseInv' /\ MainInv' /\ ForumInv' /\ SignalInv'
    BY <1>1, <1>2 DEF PhaseInv, MainInv, ForumInv, SignalInv
  <1>4. ToCount' = ToCount \ {q}
    BY <1>1 DEF ToCount
  <1>5. CountInv'
    <2>1. q \in ToCount /\ IsFiniteSet(ToCount)
      <3>1. IsFiniteSet(Q3) /\ ToCount \subseteq Q3
        BY PipelineAssumption DEF ToCount
      <3>2. QED
        BY <1>1, <3>1, FS_Subset DEF ToCount
    <2>2. Cardinality(ToCount \ {q}) = Cardinality(ToCount) - 1
      BY <2>1, FS_RemoveElement
    <2>3. \A p \in Q3 : pc[Destroyer[p]] = "new"
      BY <2>1 DEF CountInv
    <2>4. QED
      BY <1>1, <1>4, <2>2, <2>3 DEF CountInv
  <1>6. (PlacesKept' => PlacesKept) /\ (TagsKept' => TagsKept)
    BY <1>1 DEF PlacesKept, TagsKept
  <1>7. DataInv'
    BY <1>1, <1>6 DEF PhaseInv, MainInv, ForumInv, SignalInv, DataInv, Items
  <1>8. AnswersComplete'
    BY <1>1 DEF PhaseInv, MainInv, ForumInv, AnswersComplete, Tasks
  <1>9. QED
    BY <1>3, <1>5, <1>7, <1>8

\* The counter at 0 with many persons means that all have counted down.
LEMMA LookAtCountStep ==
    ASSUME NEW q \in Q3, IInv, LookAtCount(q) PROVE IInv'
  <1> USE Names DEF IInv, Fixed
  <1>1. /\ pc'["main"] = pc["main"] /\ pc'["hasher"] = pc["hasher"] /\ pc'["places"] = pc["places"]
        /\ pc'["nameDestroyer"] = pc["nameDestroyer"] /\ pc'["comments"] = pc["comments"] /\ pc'["forum"] = pc["forum"]
        /\ pc'["q2"] = pc["q2"]
        /\ pc[q] = "look" /\ \A p \in Q3 : pc'[p] = IF p = q THEN "done" ELSE pc[p]
        /\ \A p \in Q3 : pc'[Destroyer[p]] =
              IF p = q /\ count = 0 THEN "clear" ELSE pc[Destroyer[p]]
        /\ \A p \in Q4 : pc'[p] = pc[p]
        /\ UNCHANGED <<data, flag, count, large>>
    BY DEF LookAtCount, Goto, GotoAndStart, PhaseInv, Phases
  <1>2. pc' = Phases'
    BY DEF LookAtCount, Goto, GotoAndStart, PhaseInv, Phases
  <1>3. PhaseInv' /\ MainInv' /\ ForumInv' /\ SignalInv'
    BY <1>1, <1>2 DEF PhaseInv, MainInv, ForumInv, SignalInv
  <1>4. ToCount' = ToCount
    BY <1>1 DEF ToCount
  <1>5. CountInv'
    <2>1. ASSUME count = 0 PROVE ToCount = {}
      <3>1. large /\ Cardinality(ToCount) = 0
        <4>1. IsFiniteSet(Q3) /\ Q3 # {}
          BY PipelineAssumption
        <4>2. Cardinality(Q3) # 0
          BY <4>1, FS_EmptySet
        <4>3. QED
          BY <2>1, <4>2 DEF CountInv
      <3>2. IsFiniteSet(ToCount)
        <4>1. IsFiniteSet(Q3) /\ ToCount \subseteq Q3
          BY PipelineAssumption DEF ToCount
        <4>2. QED
          BY <4>1, FS_Subset
      <3>3. QED
        BY <3>1, <3>2, FS_EmptySet
    <2>2. QED
      BY <1>1, <1>4, <2>1 DEF CountInv
  <1>6. (PlacesKept' => PlacesKept) /\ (TagsKept' => TagsKept)
    BY <1>1 DEF CountInv, PlacesKept, TagsKept
  <1>7. DataInv'
    BY <1>1, <1>6 DEF PhaseInv, MainInv, ForumInv, SignalInv, DataInv, Items
  <1>8. AnswersComplete'
    BY <1>1 DEF PhaseInv, MainInv, ForumInv, AnswersComplete, Tasks
  <1>9. QED
    BY <1>3, <1>5, <1>7, <1>8

-----------------------------------------------------------------------------
(* The invariant holds.                                                     *)

\* No datum is there in the beginning, and nobody uses one.
LEMMA InvInit == Init => IInv
  <1> SUFFICES ASSUME Init PROVE IInv
    OBVIOUS
  <1> USE Names DEF Init, Fixed
  <1>1. \A t \in Threads : pc[t] = IF t = "main" THEN "begin" ELSE "new"
    OBVIOUS
  <1>2. pc = Phases
    BY DEF Phases
  <1>3. PhaseInv /\ MainInv /\ ForumInv
    BY <1>1, <1>2 DEF PhaseInv, MainInv, ForumInv
  <1>4. SignalInv
    BY <1>1 DEF SignalInv, Signals
  <1>5. ToCount = Q3
    BY <1>1 DEF ToCount
  <1>6. CountInv
    BY <1>1, <1>5 DEF CountInv
  <1>7. DataInv /\ AnswersComplete
    BY <1>1 DEF DataInv, AnswersComplete, Items
  <1>8. QED
    BY <1>3, <1>4, <1>6, <1>7 DEF IInv

\* The main thread.
LEMMA MainKeepsInv == IInv /\ MainStep => IInv'
  <1> SUFFICES ASSUME IInv, MainStep PROVE IInv'
    OBVIOUS
  <1>1. ASSUME NEW q \in Q3, SubmitQ3(q) PROVE IInv'
    BY <1>1, SubmitQ3Step
  <1>2. QED
    BY <1>1, MainBeginStep, ReadDataStep, SubmitForumStep, TestMainStep, SleepMainStep,
       SubmitQ2Step, ShutdownStep, JoinedStep DEF MainStep

\* The threads and tasks that read.
LEMMA ReadersKeepInv == IInv /\ (HasherStep \/ PlacesStep \/ CommentsStep \/ ForumStep) => IInv'
  <1>1. IInv /\ HasherStep => IInv'
    BY BuildFriendsHashStep, RaiseHasherStep, NotifyHasherStep DEF HasherStep
  <1>2. IInv /\ PlacesStep => IInv'
    BY ReadPlacesStep, RaisePlacesStep, NotifyPlacesStep DEF PlacesStep
  <1>3. IInv /\ CommentsStep => IInv'
    BY StartCommentsStep, ReadOwnersStep, TestCommentsStep, SleepCommentsStep,
       BeginFilterStep, EndFilterStep, MergeCountsStep, AnswerQuery1Step DEF CommentsStep
  <1>4. ASSUME IInv, ForumStep PROVE IInv'
    <2>1. ASSUME NEW q \in Q4, SubmitQ4(q) PROVE IInv'
      BY <1>4, <2>1, SubmitQ4Step
    <2>2. QED
      BY <1>4, <2>1, StartForumStep, ReadTagsStep, ReadForumStep, EndForumStep DEF ForumStep
  <1>5. QED
    BY <1>1, <1>2, <1>3, <1>4

\* The tasks that answer.
LEMMA QueriesKeepInv ==
    /\ IInv /\ Query2Step => IInv'
    /\ \A q \in Q3 : IInv /\ Query3Step(q) => IInv'
    /\ \A q \in Q4 : IInv /\ Query4Step(q) => IInv'
  <1>1. IInv /\ Query2Step => IInv'
    BY StartQ2Step, AnswerQuery2Step, RaiseQ2Step, NotifyQ2Step DEF Query2Step
  <1>2. ASSUME NEW q \in Q3, IInv, Query3Step(q) PROVE IInv'
    BY <1>2, StartQ3Step, AnswerQuery3Step, CountDownStep, LookAtCountStep DEF Query3Step
  <1>3. ASSUME NEW q \in Q4, IInv, Query4Step(q) PROVE IInv'
    BY <1>3, StartQ4Step, AnswerQuery4Step DEF Query4Step
  <1>4. QED
    BY <1>1, <1>2, <1>3

\* The threads that free.
LEMMA DestroyersKeepInv ==
    /\ IInv /\ NameDestroyerStep => IInv'
    /\ \A q \in Q3 : IInv /\ DestroyerStep(Destroyer[q]) => IInv'
  <1>1. IInv /\ NameDestroyerStep => IInv'
    BY TestNameDestroyerStep, SleepNameDestroyerStep, DestroyTagNameStep DEF NameDestroyerStep
  <1>2. ASSUME NEW q \in Q3, IInv, DestroyerStep(Destroyer[q]) PROVE IInv'
    BY <1>2, DestroyPlacesStep, TestDestroyerStep, SleepDestroyerStep, DestroyTagsStep
       DEF DestroyerStep
  <1>3. QED
    BY <1>1, <1>2

\* Every step keeps the invariant.
LEMMA InvNext == IInv /\ [Next]_vars => IInv'
  <1> SUFFICES ASSUME IInv, [Next]_vars PROVE IInv'
    OBVIOUS
  <1>1. CASE Next
    <2>1. CASE \E q \in Q3 : Query3Step(q) \/ DestroyerStep(Destroyer[q])
      BY <2>1, QueriesKeepInv, DestroyersKeepInv
    <2>2. CASE \E q \in Q4 : Query4Step(q)
      BY <2>2, QueriesKeepInv
    <2>3. QED
      BY <1>1, <2>1, <2>2, MainKeepsInv, ReadersKeepInv, QueriesKeepInv, DestroyersKeepInv
         DEF Next
  <1>2. CASE UNCHANGED vars
    <2>1. UNCHANGED <<pc, data, flag, count, large>>
      BY <1>2 DEF vars
    <2>2. PhaseInv'
      BY <2>1 DEF IInv, PhaseInv, Phases
    <2>3. MainInv' /\ ForumInv'
      BY <2>1 DEF IInv, MainInv, ForumInv
    <2>4. SignalInv'
      BY <2>1 DEF IInv, SignalInv
    <2>5. CountInv'
      BY <2>1 DEF IInv, CountInv, ToCount
    <2>6. DataInv'
      BY <2>1 DEF IInv, DataInv, PlacesKept, TagsKept
    <2>7. AnswersComplete'
      BY <2>1 DEF IInv, AnswersComplete
    <2>8. QED
      BY <2>2, <2>3, <2>4, <2>5, <2>6, <2>7 DEF IInv
  <1>3. QED
    BY <1>1, <1>2

\* The phases, the order in which threads and tasks are started, the signals,
\* the counter of query 3 and the lifetimes of the data keep step.
THEOREM InvariantHolds == Spec => []IInv
  BY InvInit, InvNext, PTL DEF Spec

-----------------------------------------------------------------------------
(* What follows from it.                                                    *)

\* What is used is ready: of each phase that uses data, who can be in it, and
\* what that implies of main, the forum task and the signals.
LEMMA InvSafe == IInv => SafeUse
  <1> SUFFICES ASSUME IInv, NEW t \in Threads, NEW d \in Uses(t) PROVE data[d] = "ready"
    BY DEF SafeUse
  <1> USE Names DEF IInv, Fixed
  <1>1. CASE pc[t] = "hash"
    <2>1. t = "hasher"
      BY <1>1 DEF PhaseInv
    <2>2. QED
      BY <1>1, <2>1 DEF Uses, MainInv, DataInv
  <1>2. CASE pc[t] = "filter"
    <2>1. t = "comments"
      BY <1>2 DEF PhaseInv
    <2>2. QED
      BY <1>2, <2>1 DEF Uses, SignalInv, DataInv
  <1>3. CASE pc[t] \in {"merge", "query1"}
    <2>1. t = "comments"
      BY <1>3 DEF PhaseInv
    <2>2. QED
      BY <1>3, <2>1 DEF Uses, MainInv, SignalInv, DataInv
  <1>4. CASE pc[t] = "places"
    <2>1. t = "places"
      BY <1>4 DEF PhaseInv
    <2>2. ~flag["tag_read"]
      BY <1>4, <2>1 DEF SignalInv
    <2>3. pc["main"] \notin {"start3", "join", "print"}
      BY <2>2 DEF SignalInv
    <2>4. \A q \in Q3 : pc[q] = "new"
      BY <2>3 DEF MainInv
    <2>5. TagsKept
      BY <2>4 DEF CountInv, TagsKept
    <2>6. pc["forum"] \in {"forum", "start4", "done"}
      BY <1>4, <2>1 DEF ForumInv, PhaseInv
    <2>7. data["tags"] = "ready"
      BY <2>5, <2>6 DEF DataInv
    <2>8. QED
      BY <1>4, <2>7 DEF Uses
  <1>5. CASE pc[t] = "forum"
    <2>1. t = "forum"
      BY <1>5 DEF PhaseInv
    <2>2. QED
      BY <1>5, <2>1 DEF Uses, ForumInv, DataInv
  <1>6. CASE pc[t] = "query2"
    <2>1. t = "q2"
      BY <1>6 DEF PhaseInv
    <2>2. ~flag["q2_finished"]
      BY <1>6, <2>1 DEF SignalInv
    <2>3. pc["nameDestroyer"] # "done" /\ TagsKept
      BY <2>2 DEF SignalInv, TagsKept
    <2>4. pc["main"] \in {"start3", "join", "print"}
      BY <1>6, <2>1 DEF MainInv, PhaseInv
    <2>5. pc["places"] \in {"notify", "done"}
      BY <2>4 DEF SignalInv
    <2>6. pc["forum"] \in {"forum", "start4", "done"}
      BY <2>5 DEF ForumInv, PhaseInv
    <2>7. \A e \in {"friends", "birthday", "tags", "person_in_tags", "tag_name"} :
             data[e] = "ready"
      BY <1>6, <2>1, <2>3, <2>4, <2>6 DEF DataInv
    <2>8. QED
      BY <1>6, <2>7 DEF Uses
  <1>7. CASE pc[t] = "query3"
    <2>1. t \in Q3
      BY <1>7 DEF PhaseInv
    <2>2. t \in ToCount
      BY <1>7, <2>1 DEF ToCount
    <2>3. \A q \in Q3 : pc[Destroyer[q]] = "new"
      BY <2>2 DEF CountInv
    <2>4. PlacesKept /\ TagsKept
      BY <2>3 DEF PlacesKept, TagsKept
    <2>5. pc["main"] \in {"start3", "join", "print"}
      BY <1>7, <2>1 DEF MainInv
    <2>6. pc["places"] \in {"notify", "done"}
      BY <2>5 DEF SignalInv
    <2>7. pc["forum"] \in {"forum", "start4", "done"}
      BY <2>6 DEF ForumInv, PhaseInv
    <2>8. \A e \in {"friends", "tags", "places"} : data[e] = "ready"
      BY <2>4, <2>5, <2>6, <2>7 DEF DataInv
    <2>9. QED
      BY <1>7, <2>8 DEF Uses
  <1>8. CASE pc[t] = "query4"
    <2>1. t \in Q4
      BY <1>8 DEF PhaseInv
    <2>2. pc["forum"] \in {"start4", "done"}
      BY <1>8, <2>1 DEF ForumInv
    <2>3. data["friends"] = "ready" /\ data["q4_persons"] = "ready"
      BY <2>2 DEF MainInv, DataInv
    <2>4. QED
      BY <1>8, <2>3 DEF Uses
  <1>9. QED
    BY <1>1, <1>2, <1>3, <1>4, <1>5, <1>6, <1>7, <1>8 DEF Uses

\* No phase of any thread or task meets data that are not built or freed.
THEOREM UsedDataAreReady == Spec => []SafeUse
  BY InvariantHolds, InvSafe, PTL

\* main prints nothing before all queries of all kinds are answered.
THEOREM AnswersAreComplete == Spec => []AnswersComplete
  <1>1. IInv => AnswersComplete
    BY DEF IInv
  <1>2. QED
    BY <1>1, InvariantHolds, PTL

-----------------------------------------------------------------------------
(* Pipeline uses the pool as TaskPool specifies.                            *)

\* A step within the phases of tasks that run is none of the pool.
Stays(t) == pc'[t] = pc[t] \/ (pc[t] \notin Outside /\ pc'[t] \notin Outside)

\* A step that changes no status, and does not join, is a stutter of the pool.
LEMMA QuietStep ==
    ASSUME Stays("comments"), Stays("forum"), Stays("q2"),
           \A q \in Q3 \cup Q4 : Stays(q),
           pc'["main"] = "print" <=> pc["main"] = "print"
    PROVE  UNCHANGED Pool!vars
  <1>1. \A t \in Tasks : Stays(t)
    BY DEF Tasks
  <1>2. Status' = Status
    BY <1>1 DEF Stays, Status, Outside
  <1>3. (pc'["main"] = "print") = (pc["main"] = "print")
    OBVIOUS
  <1>4. QED
    BY <1>2, <1>3 DEF Pool!vars

\* A step that takes one task in or out of the pool.
LEMMA StatusStep ==
    ASSUME NEW t \in Tasks, NEW v,
           \A u \in Tasks : u # t => pc'[u] = pc[u],
           v = IF pc'[t] \in Outside THEN pc'[t] ELSE "running"
    PROVE  Status' = [Status EXCEPT ![t] = v]
  BY DEF Status

\* A task that becomes queued was new, and its submitter may submit it.
LEMMA SubmitStep ==
    ASSUME NEW t \in Tasks, pc[t] = "new", pc'[t] = "queued",
           \A u \in Tasks : u # t => pc'[u] = pc[u],
           pc["main"] # "print", pc'["main"] # "print",
           t \in MainTasks \/ \E p \in Tasks : pc[p] \notin Outside /\ t \in Children[p]
    PROVE  Pool!Submit(t)
  <1>1. Status' = [Status EXCEPT ![t] = "queued"]
    BY StatusStep DEF Outside
  <1>2. Status[t] = "new" /\ \A p \in Tasks : pc[p] \notin Outside => Status[p] = "running"
    BY DEF Status, Outside
  <1>3. t \in MainTasks \/ \E p \in Pool!With("running") : t \in Children[p]
    BY <1>2 DEF Pool!With
  <1>4. ~(pc["main"] = "print") /\ (pc'["main"] = "print") = (pc["main"] = "print")
    OBVIOUS
  <1>5. QED
    BY <1>1, <1>2, <1>3, <1>4 DEF Pool!Submit

\* A worker is free and nothing queued has a higher priority.
LEMMA StartStep ==
    ASSUME IInv, NEW t \in Tasks, NEW first, Start(t, first), first \notin Outside,
           pc["main"] # "print"
    PROVE  Pool!Start(t)
  <1>1. t # "main" /\ pc[t] = "queued" /\ pc'[t] = first
    BY Names DEF Start, IInv, PhaseInv, Phases, Tasks, Threads, Fixed
  <1>2. \A u \in Threads : u # t => pc'[u] = pc[u]
    BY DEF Start, IInv, PhaseInv, Phases
  <1>3. \A u \in Tasks : u # t => pc'[u] = pc[u]
    BY <1>2 DEF Threads
  <1>4. Status' = [Status EXCEPT ![t] = "running"]
    BY <1>1, <1>3, StatusStep
  <1>5. Status[t] = "queued" /\ Pool!With("queued") = Queued
    BY <1>1 DEF Status, Outside, Pool!With, Queued
  <1>6. (pc'["main"] = "print") = (pc["main"] = "print")
    BY <1>1, <1>2 DEF Threads
  <1>7. QED
    BY <1>4, <1>5, <1>6 DEF Pool!Start, Start

\* A task that ends has submitted all its children.
LEMMA FinishStep ==
    ASSUME NEW t \in Tasks, pc[t] \notin Outside, pc'[t] = "done",
           \A u \in Tasks : u # t => pc'[u] = pc[u],
           pc'["main"] = pc["main"],
           \A u \in Children[t] : pc[u] # "new"
    PROVE  Pool!Finish(t)
  <1>1. Status' = [Status EXCEPT ![t] = "done"]
    BY StatusStep DEF Outside
  <1>2. Status[t] = "running"
    BY DEF Status
  <1>3. Children[t] \cap Pool!With("new") = {}
    BY DEF Pool!With, Status, Outside
  <1>4. QED
    BY <1>1, <1>2, <1>3 DEF Pool!Finish

\* The join of main is the join of the pool.
LEMMA JoinStep == ASSUME IInv, IInv', Joined PROVE Pool!Join
  <1>1. pc["main"] = "join" /\ pc'["main"] = "print"
    BY DEF Joined, Goto, IInv, PhaseInv, Phases, Threads
  <1>2. \A t \in Tasks : pc'[t] = "done"
    BY <1>1 DEF IInv, AnswersComplete
  <1>3. \A t \in Tasks : pc'[t] = pc[t]
    BY Names DEF Joined, Goto, IInv, PhaseInv, Phases, Threads, Tasks, Fixed
  <1>4. Status' = Status /\ Pool!With("done") = Tasks
    BY <1>2, <1>3 DEF Status, Outside, Pool!With
  <1>5. QED
    BY <1>1, <1>4 DEF Pool!Join

\* Only the join makes main print, so that joined changes by no other step.
LEMMA NotPrinting ==
    ASSUME IInv PROVE pc["main"] = "print" => \A t \in Tasks : pc[t] = "done"
  BY DEF IInv, AnswersComplete

\* Each step of main is a submission, the join, or a stutter.
LEMMA MainUsesPool ==
    ASSUME IInv, IInv', MainStep PROVE [Pool!Next]_(Pool!vars)
  <1> USE Names DEF IInv, PhaseInv, Phases, Fixed, Tasks, Outside
  <1>1. ASSUME MainBegin PROVE [Pool!Next]_(Pool!vars)
    <2>1. /\ pc["comments"] = "new" /\ pc'["comments"] = "queued"
          /\ \A u \in Tasks : u # "comments" => pc'[u] = pc[u]
          /\ pc["main"] # "print" /\ pc'["main"] # "print"
      BY <1>1 DEF MainBegin, GotoAndStart, MainInv
    <2>2. "comments" \in MainTasks
      BY <1>1 DEF MainTasks
    <2>3. Pool!Submit("comments")
      BY <2>1, <2>2, SubmitStep
    <2>4. QED
      BY <2>3 DEF Pool!Next
  <1>2. ASSUME ReadData PROVE [Pool!Next]_(Pool!vars)
    <2>1. /\ Stays("comments") /\ Stays("forum") /\ Stays("q2")
          /\ \A p \in Q3 \cup Q4 : Stays(p)
      BY <1>2 DEF ReadData, GotoAndStart, Stays
    <2>2. pc'["main"] = "print" <=> pc["main"] = "print"
      BY <1>2 DEF ReadData, GotoAndStart
    <2>3. QED
      BY <2>1, <2>2, QuietStep
  <1>3. ASSUME SubmitForum PROVE [Pool!Next]_(Pool!vars)
    <2>1. /\ pc["forum"] = "new" /\ pc'["forum"] = "queued"
          /\ \A u \in Tasks : u # "forum" => pc'[u] = pc[u]
          /\ pc["main"] # "print" /\ pc'["main"] # "print"
      BY <1>3 DEF SubmitForum, GotoAndStart, MainInv
    <2>2. "forum" \in MainTasks
      BY <1>3 DEF MainTasks
    <2>3. Pool!Submit("forum")
      BY <2>1, <2>2, SubmitStep
    <2>4. QED
      BY <2>3 DEF Pool!Next
  <1>4. ASSUME TestSignal("main") PROVE [Pool!Next]_(Pool!vars)
    <2>1. /\ Stays("comments") /\ Stays("forum") /\ Stays("q2")
          /\ \A p \in Q3 \cup Q4 : Stays(p)
      BY <1>4 DEF TestSignal, Stays
    <2>2. pc'["main"] = "print" <=> pc["main"] = "print"
      BY <1>4 DEF TestSignal
    <2>3. QED
      BY <2>1, <2>2, QuietStep
  <1>5. ASSUME FallAsleep("main") PROVE [Pool!Next]_(Pool!vars)
    <2>1. /\ Stays("comments") /\ Stays("forum") /\ Stays("q2")
          /\ \A p \in Q3 \cup Q4 : Stays(p)
      BY <1>5 DEF FallAsleep, Goto, Stays
    <2>2. pc'["main"] = "print" <=> pc["main"] = "print"
      BY <1>5 DEF FallAsleep, Goto
    <2>3. QED
      BY <2>1, <2>2, QuietStep
  <1>6. ASSUME SubmitQ2 PROVE [Pool!Next]_(Pool!vars)
    <2>1. /\ pc["q2"] = "new" /\ pc'["q2"] = "queued"
          /\ \A u \in Tasks : u # "q2" => pc'[u] = pc[u]
          /\ pc["main"] # "print" /\ pc'["main"] # "print"
      BY <1>6 DEF SubmitQ2, GotoAndStart, MainInv
    <2>2. "q2" \in MainTasks
      BY <1>6 DEF MainTasks
    <2>3. Pool!Submit("q2")
      BY <2>1, <2>2, SubmitStep
    <2>4. QED
      BY <2>3 DEF Pool!Next
  <1>7. ASSUME NEW q \in Q3, SubmitQ3(q) PROVE [Pool!Next]_(Pool!vars)
    <2>1. /\ pc[q] = "new" /\ pc'[q] = "queued"
          /\ \A u \in Tasks : u # q => pc'[u] = pc[u]
          /\ pc["main"] # "print" /\ pc'["main"] # "print"
      BY <1>7 DEF SubmitQ3, GotoAndStart, MainInv
    <2>2. q \in MainTasks
      BY <1>7 DEF MainTasks
    <2>3. Pool!Submit(q)
      BY <2>1, <2>2, SubmitStep
    <2>4. QED
      BY <2>3 DEF Pool!Next
  <1>8. ASSUME Shutdown PROVE [Pool!Next]_(Pool!vars)
    <2>1. /\ Stays("comments") /\ Stays("forum") /\ Stays("q2")
          /\ \A p \in Q3 \cup Q4 : Stays(p)
      BY <1>8 DEF Shutdown, Goto, Stays
    <2>2. pc'["main"] = "print" <=> pc["main"] = "print"
      BY <1>8 DEF Shutdown, Goto
    <2>3. QED
      BY <2>1, <2>2, QuietStep
  <1>9. ASSUME Joined PROVE [Pool!Next]_(Pool!vars)
    BY <1>9, JoinStep DEF Pool!Next
  <1>10. QED
    BY <1>1, <1>2, <1>3, <1>4, <1>5, <1>6, <1>7, <1>8, <1>9 DEF MainStep

\* The hasher is no task of the pool.
LEMMA HasherUsesPool ==
    ASSUME IInv, IInv', HasherStep PROVE [Pool!Next]_(Pool!vars)
  <1> USE Names DEF IInv, PhaseInv, Phases, Fixed, Tasks, Outside
  <1>1. ASSUME BuildFriendsHash PROVE [Pool!Next]_(Pool!vars)
    <2>1. /\ Stays("comments") /\ Stays("forum") /\ Stays("q2")
          /\ \A p \in Q3 \cup Q4 : Stays(p)
      BY <1>1 DEF BuildFriendsHash, Goto, Stays
    <2>2. pc'["main"] = "print" <=> pc["main"] = "print"
      BY <1>1 DEF BuildFriendsHash, Goto
    <2>3. QED
      BY <2>1, <2>2, QuietStep
  <1>2. ASSUME Raise("hasher", "friends_hash_built") PROVE [Pool!Next]_(Pool!vars)
    <2>1. /\ Stays("comments") /\ Stays("forum") /\ Stays("q2")
          /\ \A p \in Q3 \cup Q4 : Stays(p)
      BY <1>2 DEF Raise, Goto, Stays
    <2>2. pc'["main"] = "print" <=> pc["main"] = "print"
      BY <1>2 DEF Raise, Goto
    <2>3. QED
      BY <2>1, <2>2, QuietStep
  <1>3. ASSUME NotifyWaiters("hasher", "friends_hash_built") PROVE [Pool!Next]_(Pool!vars)
    <2>1. /\ Stays("comments") /\ Stays("forum") /\ Stays("q2")
          /\ \A p \in Q3 \cup Q4 : Stays(p)
      BY <1>3 DEF NotifyWaiters, SignalOf, Stays
    <2>2. pc'["main"] = "print" <=> pc["main"] = "print"
      BY <1>3 DEF NotifyWaiters, SignalOf
    <2>3. QED
      BY <2>1, <2>2, QuietStep
  <1>4. QED
    BY <1>1, <1>2, <1>3 DEF HasherStep

\* The thread of places is no task of the pool.
LEMMA PlacesUsesPool ==
    ASSUME IInv, IInv', PlacesStep PROVE [Pool!Next]_(Pool!vars)
  <1> USE Names DEF IInv, PhaseInv, Phases, Fixed, Tasks, Outside
  <1>1. ASSUME ReadPlaces PROVE [Pool!Next]_(Pool!vars)
    <2>1. /\ Stays("comments") /\ Stays("forum") /\ Stays("q2")
          /\ \A p \in Q3 \cup Q4 : Stays(p)
      BY <1>1 DEF ReadPlaces, Goto, Stays
    <2>2. pc'["main"] = "print" <=> pc["main"] = "print"
      BY <1>1 DEF ReadPlaces, Goto
    <2>3. QED
      BY <2>1, <2>2, QuietStep
  <1>2. ASSUME Raise("places", "tag_read") PROVE [Pool!Next]_(Pool!vars)
    <2>1. /\ Stays("comments") /\ Stays("forum") /\ Stays("q2")
          /\ \A p \in Q3 \cup Q4 : Stays(p)
      BY <1>2 DEF Raise, Goto, Stays
    <2>2. pc'["main"] = "print" <=> pc["main"] = "print"
      BY <1>2 DEF Raise, Goto
    <2>3. QED
      BY <2>1, <2>2, QuietStep
  <1>3. ASSUME NotifyWaiters("places", "tag_read") PROVE [Pool!Next]_(Pool!vars)
    <2>1. /\ Stays("comments") /\ Stays("forum") /\ Stays("q2")
          /\ \A p \in Q3 \cup Q4 : Stays(p)
      BY <1>3 DEF NotifyWaiters, SignalOf, Stays
    <2>2. pc'["main"] = "print" <=> pc["main"] = "print"
      BY <1>3 DEF NotifyWaiters, SignalOf
    <2>3. QED
      BY <2>1, <2>2, QuietStep
  <1>4. QED
    BY <1>1, <1>2, <1>3 DEF PlacesStep

\* The comment task starts, runs and ends.
LEMMA CommentsUsesPool ==
    ASSUME IInv, IInv', CommentsStep PROVE [Pool!Next]_(Pool!vars)
  <1> USE Names DEF IInv, PhaseInv, Phases, Fixed, Tasks, Outside
  <1>1. ASSUME Start("comments", "owners") PROVE [Pool!Next]_(Pool!vars)
    <2>1. "comments" \in Tasks /\ "owners" \notin Outside
      OBVIOUS
    <2>2. pc["main"] # "print"
      BY <1>1, <2>1, NotPrinting DEF Start
    <2>3. Pool!Start("comments")
      BY <1>1, <2>1, <2>2, StartStep
    <2>4. QED
      BY <2>1, <2>3 DEF Pool!Next
  <1>2. ASSUME ReadOwners PROVE [Pool!Next]_(Pool!vars)
    <2>1. /\ Stays("comments") /\ Stays("forum") /\ Stays("q2")
          /\ \A p \in Q3 \cup Q4 : Stays(p)
      BY <1>2 DEF ReadOwners, Goto, Stays
    <2>2. pc'["main"] = "print" <=> pc["main"] = "print"
      BY <1>2 DEF ReadOwners, Goto
    <2>3. QED
      BY <2>1, <2>2, QuietStep
  <1>3. ASSUME TestSignal("comments") PROVE [Pool!Next]_(Pool!vars)
    <2>1. /\ Stays("comments") /\ Stays("forum") /\ Stays("q2")
          /\ \A p \in Q3 \cup Q4 : Stays(p)
      BY <1>3 DEF TestSignal, Stays
    <2>2. pc'["main"] = "print" <=> pc["main"] = "print"
      BY <1>3 DEF TestSignal
    <2>3. QED
      BY <2>1, <2>2, QuietStep
  <1>4. ASSUME FallAsleep("comments") PROVE [Pool!Next]_(Pool!vars)
    <2>1. /\ Stays("comments") /\ Stays("forum") /\ Stays("q2")
          /\ \A p \in Q3 \cup Q4 : Stays(p)
      BY <1>4 DEF FallAsleep, Goto, Stays
    <2>2. pc'["main"] = "print" <=> pc["main"] = "print"
      BY <1>4 DEF FallAsleep, Goto
    <2>3. QED
      BY <2>1, <2>2, QuietStep
  <1>5. ASSUME BeginFilter PROVE [Pool!Next]_(Pool!vars)
    <2>1. /\ Stays("comments") /\ Stays("forum") /\ Stays("q2")
          /\ \A p \in Q3 \cup Q4 : Stays(p)
      BY <1>5 DEF BeginFilter, Goto, Stays
    <2>2. pc'["main"] = "print" <=> pc["main"] = "print"
      BY <1>5 DEF BeginFilter, Goto
    <2>3. QED
      BY <2>1, <2>2, QuietStep
  <1>6. ASSUME EndFilter PROVE [Pool!Next]_(Pool!vars)
    <2>1. /\ Stays("comments") /\ Stays("forum") /\ Stays("q2")
          /\ \A p \in Q3 \cup Q4 : Stays(p)
      BY <1>6 DEF EndFilter, Goto, Stays
    <2>2. pc'["main"] = "print" <=> pc["main"] = "print"
      BY <1>6 DEF EndFilter, Goto
    <2>3. QED
      BY <2>1, <2>2, QuietStep
  <1>7. ASSUME MergeCounts PROVE [Pool!Next]_(Pool!vars)
    <2>1. /\ Stays("comments") /\ Stays("forum") /\ Stays("q2")
          /\ \A p \in Q3 \cup Q4 : Stays(p)
      BY <1>7 DEF MergeCounts, Goto, Stays
    <2>2. pc'["main"] = "print" <=> pc["main"] = "print"
      BY <1>7 DEF MergeCounts, Goto
    <2>3. QED
      BY <2>1, <2>2, QuietStep
  <1>8. ASSUME AnswerQuery1 PROVE [Pool!Next]_(Pool!vars)
    <2>1. /\ pc["comments"] \notin Outside /\ pc'["comments"] = "done"
          /\ \A u \in Tasks : u # "comments" => pc'[u] = pc[u]
          /\ pc'["main"] = pc["main"]
      BY <1>8 DEF AnswerQuery1, Goto
    <2>2. "comments" \in Tasks /\ \A u \in Children["comments"] : pc[u] # "new"
      BY <1>8 DEF Children
    <2>3. Pool!Finish("comments")
      BY <2>1, <2>2, FinishStep
    <2>4. QED
      BY <2>2, <2>3 DEF Pool!Next
  <1>9. QED
    BY <1>1, <1>2, <1>3, <1>4, <1>5, <1>6, <1>7, <1>8 DEF CommentsStep

\* The forum task starts, submits query 4 from its callback, and ends.
LEMMA ForumUsesPool ==
    ASSUME IInv, IInv', ForumStep PROVE [Pool!Next]_(Pool!vars)
  <1> USE Names DEF IInv, PhaseInv, Phases, Fixed, Tasks, Outside
  <1>1. ASSUME Start("forum", "tags") PROVE [Pool!Next]_(Pool!vars)
    <2>1. "forum" \in Tasks /\ "tags" \notin Outside
      OBVIOUS
    <2>2. pc["main"] # "print"
      BY <1>1, <2>1, NotPrinting DEF Start
    <2>3. Pool!Start("forum")
      BY <1>1, <2>1, <2>2, StartStep
    <2>4. QED
      BY <2>1, <2>3 DEF Pool!Next
  <1>2. ASSUME ReadTags PROVE [Pool!Next]_(Pool!vars)
    <2>1. /\ Stays("comments") /\ Stays("forum") /\ Stays("q2")
          /\ \A p \in Q3 \cup Q4 : Stays(p)
      BY <1>2 DEF ReadTags, GotoAndStart, Stays
    <2>2. pc'["main"] = "print" <=> pc["main"] = "print"
      BY <1>2 DEF ReadTags, GotoAndStart
    <2>3. QED
      BY <2>1, <2>2, QuietStep
  <1>3. ASSUME ReadForum PROVE [Pool!Next]_(Pool!vars)
    <2>1. /\ Stays("comments") /\ Stays("forum") /\ Stays("q2")
          /\ \A p \in Q3 \cup Q4 : Stays(p)
      BY <1>3 DEF ReadForum, GotoAndStart, Stays
    <2>2. pc'["main"] = "print" <=> pc["main"] = "print"
      BY <1>3 DEF ReadForum, GotoAndStart
    <2>3. QED
      BY <2>1, <2>2, QuietStep
  <1>4. ASSUME NEW q \in Q4, SubmitQ4(q) PROVE [Pool!Next]_(Pool!vars)
    <2>1. /\ pc[q] = "new" /\ pc'[q] = "queued"
          /\ \A u \in Tasks : u # q => pc'[u] = pc[u]
          /\ pc'["main"] = "print" => pc["main"] = "print"
      BY <1>4 DEF SubmitQ4, GotoAndStart, MainInv
    <2>2. pc["forum"] \notin Outside /\ "forum" \in Tasks /\ q \in Children["forum"]
      BY <1>4 DEF SubmitQ4, GotoAndStart, Children
    <2>3. Pool!Submit(q)
      BY <2>1, <2>2, NotPrinting, SubmitStep
    <2>4. QED
      BY <2>3 DEF Pool!Next
  <1>5. ASSUME EndForum PROVE [Pool!Next]_(Pool!vars)
    <2>1. /\ pc["forum"] \notin Outside /\ pc'["forum"] = "done"
          /\ \A u \in Tasks : u # "forum" => pc'[u] = pc[u]
          /\ pc'["main"] = pc["main"]
      BY <1>5 DEF EndForum, Goto
    <2>2. "forum" \in Tasks /\ \A u \in Children["forum"] : pc[u] # "new"
      BY <1>5 DEF EndForum, Children
    <2>3. Pool!Finish("forum")
      BY <2>1, <2>2, FinishStep
    <2>4. QED
      BY <2>2, <2>3 DEF Pool!Next
  <1>6. QED
    BY <1>1, <1>2, <1>3, <1>4, <1>5 DEF ForumStep

\* Query 2 ends for the pool when it has notified.
LEMMA Query2UsesPool ==
    ASSUME IInv, IInv', Query2Step PROVE [Pool!Next]_(Pool!vars)
  <1> USE Names DEF IInv, PhaseInv, Phases, Fixed, Tasks, Outside
  <1>1. ASSUME Start("q2", "query2") PROVE [Pool!Next]_(Pool!vars)
    <2>1. "q2" \in Tasks /\ "query2" \notin Outside
      OBVIOUS
    <2>2. pc["main"] # "print"
      BY <1>1, <2>1, NotPrinting DEF Start
    <2>3. Pool!Start("q2")
      BY <1>1, <2>1, <2>2, StartStep
    <2>4. QED
      BY <2>1, <2>3 DEF Pool!Next
  <1>2. ASSUME AnswerQuery2 PROVE [Pool!Next]_(Pool!vars)
    <2>1. /\ Stays("comments") /\ Stays("forum") /\ Stays("q2")
          /\ \A p \in Q3 \cup Q4 : Stays(p)
      BY <1>2 DEF AnswerQuery2, Goto, Stays
    <2>2. pc'["main"] = "print" <=> pc["main"] = "print"
      BY <1>2 DEF AnswerQuery2, Goto
    <2>3. QED
      BY <2>1, <2>2, QuietStep
  <1>3. ASSUME Raise("q2", "q2_finished") PROVE [Pool!Next]_(Pool!vars)
    <2>1. /\ Stays("comments") /\ Stays("forum") /\ Stays("q2")
          /\ \A p \in Q3 \cup Q4 : Stays(p)
      BY <1>3 DEF Raise, Goto, Stays
    <2>2. pc'["main"] = "print" <=> pc["main"] = "print"
      BY <1>3 DEF Raise, Goto
    <2>3. QED
      BY <2>1, <2>2, QuietStep
  <1>4. ASSUME NotifyWaiters("q2", "q2_finished") PROVE [Pool!Next]_(Pool!vars)
    <2>1. /\ pc["q2"] \notin Outside /\ pc'["q2"] = "done"
          /\ \A u \in Tasks : u # "q2" => pc'[u] = pc[u]
          /\ pc'["main"] = pc["main"]
      BY <1>4 DEF NotifyWaiters, SignalOf
    <2>2. "q2" \in Tasks /\ \A u \in Children["q2"] : pc[u] # "new"
      BY <1>4 DEF Children
    <2>3. Pool!Finish("q2")
      BY <2>1, <2>2, FinishStep
    <2>4. QED
      BY <2>2, <2>3 DEF Pool!Next
  <1>5. QED
    BY <1>1, <1>2, <1>3, <1>4 DEF Query2Step

\* A query 3 ends for the pool when it has looked at the counter.
LEMMA Query3UsesPool ==
    ASSUME NEW q \in Q3, IInv, IInv', Query3Step(q) PROVE [Pool!Next]_(Pool!vars)
  <1> USE Names DEF IInv, PhaseInv, Phases, Fixed, Tasks, Outside
  <1>1. ASSUME Start(q, "query3") PROVE [Pool!Next]_(Pool!vars)
    <2>1. q \in Tasks /\ "query3" \notin Outside
      OBVIOUS
    <2>2. pc["main"] # "print"
      BY <1>1, <2>1, NotPrinting DEF Start
    <2>3. Pool!Start(q)
      BY <1>1, <2>1, <2>2, StartStep
    <2>4. QED
      BY <2>1, <2>3 DEF Pool!Next
  <1>2. ASSUME AnswerQuery3(q) PROVE [Pool!Next]_(Pool!vars)
    <2>1. /\ Stays("comments") /\ Stays("forum") /\ Stays("q2")
          /\ \A p \in Q3 \cup Q4 : Stays(p)
      BY <1>2 DEF AnswerQuery3, Goto, Stays
    <2>2. pc'["main"] = "print" <=> pc["main"] = "print"
      BY <1>2 DEF AnswerQuery3, Goto
    <2>3. QED
      BY <2>1, <2>2, QuietStep
  <1>3. ASSUME CountDown(q) PROVE [Pool!Next]_(Pool!vars)
    <2>1. /\ Stays("comments") /\ Stays("forum") /\ Stays("q2")
          /\ \A p \in Q3 \cup Q4 : Stays(p)
      BY <1>3 DEF CountDown, Goto, Stays
    <2>2. pc'["main"] = "print" <=> pc["main"] = "print"
      BY <1>3 DEF CountDown, Goto
    <2>3. QED
      BY <2>1, <2>2, QuietStep
  <1>4. ASSUME LookAtCount(q) PROVE [Pool!Next]_(Pool!vars)
    <2>1. /\ pc[q] \notin Outside /\ pc'[q] = "done"
          /\ \A u \in Tasks : u # q => pc'[u] = pc[u]
          /\ pc'["main"] = pc["main"]
      BY <1>4 DEF LookAtCount, Goto, GotoAndStart
    <2>2. q \in Tasks /\ \A u \in Children[q] : pc[u] # "new"
      BY <1>4 DEF Children
    <2>3. Pool!Finish(q)
      BY <2>1, <2>2, FinishStep
    <2>4. QED
      BY <2>2, <2>3 DEF Pool!Next
  <1>5. QED
    BY <1>1, <1>2, <1>3, <1>4 DEF Query3Step

\* A query 4 starts and ends.
LEMMA Query4UsesPool ==
    ASSUME NEW q \in Q4, IInv, IInv', Query4Step(q) PROVE [Pool!Next]_(Pool!vars)
  <1> USE Names DEF IInv, PhaseInv, Phases, Fixed, Tasks, Outside
  <1>1. ASSUME Start(q, "query4") PROVE [Pool!Next]_(Pool!vars)
    <2>1. q \in Tasks /\ "query4" \notin Outside
      OBVIOUS
    <2>2. pc["main"] # "print"
      BY <1>1, <2>1, NotPrinting DEF Start
    <2>3. Pool!Start(q)
      BY <1>1, <2>1, <2>2, StartStep
    <2>4. QED
      BY <2>1, <2>3 DEF Pool!Next
  <1>2. ASSUME AnswerQuery4(q) PROVE [Pool!Next]_(Pool!vars)
    <2>1. /\ pc[q] \notin Outside /\ pc'[q] = "done"
          /\ \A u \in Tasks : u # q => pc'[u] = pc[u]
          /\ pc'["main"] = pc["main"]
      BY <1>2 DEF AnswerQuery4, Goto
    <2>2. q \in Tasks /\ \A u \in Children[q] : pc[u] # "new"
      BY <1>2 DEF Children
    <2>3. Pool!Finish(q)
      BY <2>1, <2>2, FinishStep
    <2>4. QED
      BY <2>2, <2>3 DEF Pool!Next
  <1>3. QED
    BY <1>1, <1>2 DEF Query4Step

\* destroy_tag_name is no task of the pool.
LEMMA NameDestroyerUsesPool ==
    ASSUME IInv, IInv', NameDestroyerStep PROVE [Pool!Next]_(Pool!vars)
  <1> USE Names DEF IInv, PhaseInv, Phases, Fixed, Tasks, Outside
  <1>1. ASSUME TestSignal("nameDestroyer") PROVE [Pool!Next]_(Pool!vars)
    <2>1. /\ Stays("comments") /\ Stays("forum") /\ Stays("q2")
          /\ \A p \in Q3 \cup Q4 : Stays(p)
      BY <1>1 DEF TestSignal, Stays
    <2>2. pc'["main"] = "print" <=> pc["main"] = "print"
      BY <1>1 DEF TestSignal
    <2>3. QED
      BY <2>1, <2>2, QuietStep
  <1>2. ASSUME FallAsleep("nameDestroyer") PROVE [Pool!Next]_(Pool!vars)
    <2>1. /\ Stays("comments") /\ Stays("forum") /\ Stays("q2")
          /\ \A p \in Q3 \cup Q4 : Stays(p)
      BY <1>2 DEF FallAsleep, Goto, Stays
    <2>2. pc'["main"] = "print" <=> pc["main"] = "print"
      BY <1>2 DEF FallAsleep, Goto
    <2>3. QED
      BY <2>1, <2>2, QuietStep
  <1>3. ASSUME DestroyTagName PROVE [Pool!Next]_(Pool!vars)
    <2>1. /\ Stays("comments") /\ Stays("forum") /\ Stays("q2")
          /\ \A p \in Q3 \cup Q4 : Stays(p)
      BY <1>3 DEF DestroyTagName, Goto, Stays
    <2>2. pc'["main"] = "print" <=> pc["main"] = "print"
      BY <1>3 DEF DestroyTagName, Goto
    <2>3. QED
      BY <2>1, <2>2, QuietStep
  <1>4. QED
    BY <1>1, <1>2, <1>3 DEF NameDestroyerStep

\* destroy_q3_data is no task of the pool.
LEMMA DestroyerUsesPool ==
    ASSUME NEW q \in Q3, IInv, IInv', DestroyerStep(Destroyer[q]) PROVE [Pool!Next]_(Pool!vars)
  <1> USE Names DEF IInv, PhaseInv, Phases, Fixed, Tasks, Outside
  <1>1. ASSUME DestroyPlaces(Destroyer[q]) PROVE [Pool!Next]_(Pool!vars)
    <2>1. /\ Stays("comments") /\ Stays("forum") /\ Stays("q2")
          /\ \A p \in Q3 \cup Q4 : Stays(p)
      BY <1>1 DEF DestroyPlaces, Goto, Stays
    <2>2. pc'["main"] = "print" <=> pc["main"] = "print"
      BY <1>1 DEF DestroyPlaces, Goto
    <2>3. QED
      BY <2>1, <2>2, QuietStep
  <1>2. ASSUME TestSignal(Destroyer[q]) PROVE [Pool!Next]_(Pool!vars)
    <2>1. /\ Stays("comments") /\ Stays("forum") /\ Stays("q2")
          /\ \A p \in Q3 \cup Q4 : Stays(p)
      BY <1>2 DEF TestSignal, Stays
    <2>2. pc'["main"] = "print" <=> pc["main"] = "print"
      BY <1>2 DEF TestSignal
    <2>3. QED
      BY <2>1, <2>2, QuietStep
  <1>3. ASSUME FallAsleep(Destroyer[q]) PROVE [Pool!Next]_(Pool!vars)
    <2>1. /\ Stays("comments") /\ Stays("forum") /\ Stays("q2")
          /\ \A p \in Q3 \cup Q4 : Stays(p)
      BY <1>3 DEF FallAsleep, Goto, Stays
    <2>2. pc'["main"] = "print" <=> pc["main"] = "print"
      BY <1>3 DEF FallAsleep, Goto
    <2>3. QED
      BY <2>1, <2>2, QuietStep
  <1>4. ASSUME DestroyTags(Destroyer[q]) PROVE [Pool!Next]_(Pool!vars)
    <2>1. /\ Stays("comments") /\ Stays("forum") /\ Stays("q2")
          /\ \A p \in Q3 \cup Q4 : Stays(p)
      BY <1>4 DEF DestroyTags, Goto, Stays
    <2>2. pc'["main"] = "print" <=> pc["main"] = "print"
      BY <1>4 DEF DestroyTags, Goto
    <2>3. QED
      BY <2>1, <2>2, QuietStep
  <1>5. QED
    BY <1>1, <1>2, <1>3, <1>4 DEF DestroyerStep

\* The pool that Pipeline uses starts empty.
LEMMA PoolInit == Init => Pool!Init
  <1> SUFFICES ASSUME Init PROVE Pool!Init
    OBVIOUS
  <1>1. "main" \notin Tasks /\ "main" \in Threads /\ Tasks \subseteq Threads
    BY Names DEF Tasks, Threads, Fixed
  <1>2. Status = [t \in Tasks |-> "new"]
    BY <1>1 DEF Init, Status, Outside
  <1>3. (pc["main"] = "print") = FALSE
    BY <1>1 DEF Init
  <1>4. QED
    BY <1>2, <1>3 DEF Pool!Init

\* Every step of the program is one of the pool or a stutter.
LEMMA PoolNext == IInv /\ IInv' /\ [Next]_vars => [Pool!Next]_(Pool!vars)
  <1> SUFFICES ASSUME IInv, IInv', [Next]_vars PROVE [Pool!Next]_(Pool!vars)
    OBVIOUS
  <1>1. CASE UNCHANGED vars
    <2>1. pc' = pc
      BY <1>1 DEF vars
    <2>2. \A t \in {"comments", "forum", "q2"} \cup Q3 \cup Q4 : Stays(t)
      BY <2>1 DEF Stays
    <2>3. QED
      BY <2>1, <2>2, QuietStep
  <1>2. ASSUME NEW q \in Q3, Query3Step(q) \/ DestroyerStep(Destroyer[q])
        PROVE  [Pool!Next]_(Pool!vars)
    BY <1>2, Query3UsesPool, DestroyerUsesPool
  <1>3. ASSUME NEW q \in Q4, Query4Step(q) PROVE [Pool!Next]_(Pool!vars)
    BY <1>3, Query4UsesPool
  <1>4. QED
    BY <1>1, <1>2, <1>3, MainUsesPool, HasherUsesPool, PlacesUsesPool, CommentsUsesPool,
       ForumUsesPool, Query2UsesPool, NameDestroyerUsesPool DEF Next

\* The program enqueues each task once, before the pool is gone, and a task is
\* done only when the tasks its callback enqueues are in the queue: what
\* TaskPool, which the pool itself implements, asks of its client.
THEOREM UsesPool == Spec => PoolUse
  BY PoolInit, PoolNext, InvariantHolds, PTL DEF Spec, PoolUse, Pool!Spec

=============================================================================
