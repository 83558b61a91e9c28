# Verification of the SIGMOD 2014 contest program

This directory holds TLA+ models of the program in `src/src` (the entry of team
blxlrsmb), the TLC configurations that check them and the TLAPS proofs about
them. The program reads a social network, answers four kinds of queries about it
with a pool of threads, and prints the answers.

## Inventory: the system's parts

| part | state | operations | how it meets the others |
|---|---|---|---|
| thread pool (`lib/ThreadPool.hh`, `.cpp`) | priority queue, `stop`, `nr_active_thread`, two mutexes, one condition variable, the workers | `enqueue` (with and without a callback), the worker loop, the destructor | every reader and query runs as a task; tasks enqueue tasks; `main` destroys the pool to wait for them |
| run of the program (`main.cpp`, `job_wrapper.h`, `globals.*`, `finish_time_continuation.h`) | three signals (a boolean, a mutex, a condition variable each), the countdown of query 3 | `WAIT_FOR`, raising a signal, `start_1` .. `start_4`, the two destroyers | orders the tasks and threads that build, use and free the data |
| data (`data.*`) and readers (`read.cpp`) | friends, `ncmts`, birthdays, tags, tag names, places, persons in the forums of query 4 | `read_person_file`, `read_person_knows_person`, `build_friends_hash`, `read_comments_tim` (and `read_comments`, `read_comments_2file`, which it replaced), `read_tags_forums_places`, `read_forum`, `read_places`, `get_all_persons` | write what the queries read; freed as soon as the last reader is done |
| query 1 (`query1_force.cc`) | two queues and two visited sets | `bfs2` | callback of the comment task, reads `friends` with `ncmts` |
| query 2 (`query2_Unionfind.cc`, `heap.h`) | a union-find per tag, a heap of tags with back pointers | `work`, `getf`, `find_ans`; `insert`, `get`, `change` | one task; frees birthdays and raises `q2_finished` |
| query 3 (`query3_version5.cc`; earlier `query3_version2..4.cc`, `query3_force.cc`) | inverted lists, candidate pools, a bounded set of answers | `init`, `calcInvertedList`, `moveOneStep`, `insHeap`, `work`, `bfs3` | one task per query; the last one starts `destroy_q3_data` |
| query 4 (`query4_wyx.cc`, `query4.h`; earlier `query4_v2.cc`, `query4_v3.cc`) | the graph of one tag, component sizes, exact sums, a lazy heap | `compute_degree`, `get_exact_s`, sampling, `work` | one task per query, enqueued by the forum task |
| bounds of query 4 (`HybridEstimator.cpp`, `SumEstimator.cpp`, `query4_v3.cc`) | bitsets of what is found, results, `noneed`, a bound on sums | `bfs_depth`, `bfs_2_dp_1`, `bfs_3_dp_1`, `bfs_2_dp_more`; limited searches one by one, by unions, or sharing their distances; random samples | called by `work` of query 4 |
| bitsets (`lib/bitset.*`) | SSE words | `set`, `get_and_set`, `or_arr`, `and_not_arr`, `count` | used by the bounds |
| memory schedulers (`lib/mem_limit_scheduler.*`, `lib/allocator.*`, `q4Scheduler.h`) | slots, free memory, who waits for how much, detached threads | `acquire`, `release`, `schedule`; `enter`, `alloc`, `dealloc`, `exit`; `work`, `do_job`, `refresh_mem` | not used by the program that is built; two of them have tests |
| not linked into the program | | | the earlier versions named above, `query2_force.cc`, `query4_force.cc`, `cache.*`, `bread.*`, `tasty_bread.*` |

## What is hard, and what makes each part correct

- **Thread pool.** `queue_mutex` protects the queue and `stop`, but
  `nr_active_thread` is added to with an atomic and subtracted from with a plain
  read and write under another mutex, the exit test after a task reads `stop`,
  the counter and the queue without `queue_mutex`, and every notification comes
  after the unlock. Correct means: a task that was enqueued runs exactly once, a
  queued task never sleeps while a worker could take it, tasks start by
  priority, and the destructor returns only when no task is left. All four are
  checked and proved. That the destructor returns at all is
  not true, see *Disagreements*.
- **Run of the program.** Nothing but the order of the tasks, three signals and a
  counter keeps a query from reading data that are not there yet or freed
  already. Correct means: every datum is ready in every phase that uses it; main
  prints only complete answers; no cycle of waits between tasks that occupy
  workers and threads that they wait for.
- **Query 1.** Two searches in turn, a level each, one pair of counters: an answer
  is easily off by one, and the loop tests the queues at its head only. Correct
  means: the answer is the length of a shortest path over the edges that count, and
  -1 only without such a path. Which edges count, see *Disagreements*.
- **Query 2.** The union-finds must be right between any two insertions, whatever
  paths were compressed, because a query may be answered there; the heap of tags
  has back pointers and is taken apart and put together again by every query. The
  loop over a person's friends breaks at the first later one, which needs sorted lists.
  Correct means: sets are components, the heap has the largest of each tag, an
  answer is the k best tags for the day of its query.
- **Comments.** A vector of pairs, sorted and counted, binary searches in it, and
  one merge with the sorted friend lists; an older reader keeps only a window of
  the owners of comments while it reads two files at once. Correct means: both
  entries of a friendship get the smaller number of replies of the two directions.
- **Tags, forums and places.** What is found for a forum serves its next rows; ids,
  indices and names of tags are three things, and two tags may share a name; a
  second thread counts tags that the first one has read. Correct means: the
  members of the forums of a name, the interests both ways, the persons of a
  place once each and sorted, whatever the order of rows and threads.
- **Query 3.** Each person looks for one partner only and may give up early; the
  versions before it let persons yield partner after partner. Correct means: the
  k best pairs of the place are found all the same, by all five.
- **Query 4.** Bounds and exact values are in one heap; the bounds come from
  searches cut short, from unions of bitsets, from searches that share their
  distances, or are cut by what random samples say. Correct means: no bound is
  above its sum, none hides a vertex of the answer, and the answer is in order,
  ties included.
- **Memory schedulers.** Counters with two mutexes or none, calls that start
  threads, nested acquisitions. Correct means: no more memory or slots are given out
  than there are, nobody that waits is forgotten, all get through. The last is true only with
  conditions, which the properties name.

## Modules

| module | models | composed with |
|---|---|---|
| `TaskTree` | the tasks, who submits them, their priorities (constants only) | extended by the next two |
| `TaskPool` | abstract: what a client relies on from the pool | implemented by `ThreadPool`; `Pipeline` is shown to use the pool within it |
| `ThreadPool` | `lib/ThreadPool.hh`, `.cpp`, the shutdown in `main.cpp` | `ThreadPoolProofs` |
| `Pipeline` | `main.cpp`, `job_wrapper.h`, the readers and detached threads as phases over the data | instance of `TaskPool`; `PipelineProofs` |
| `TagNames` | the tags of query 2 and the order of their names (constants only) | extended by the next two and by `Query2` |
| `TagRanking` | abstract: what query 2 relies on from its heap | implemented by `MyHeap` |
| `MyHeap` | `heap.h` as `query2_Unionfind.cc` uses it | instance of `TagRanking`; `Query2Proofs` |
| `Network` | the persons, and what it means that friendships join two of them | extended by `Query1` and `Query3` |
| `Sorting` | `std::sort`, for an order without ties | extended by `Query3`, `DataReader` and `RandomChoice` |
| `Query1` | `bfs2` of `query1_force.cc` | `SearchProofs` |
| `Query2` | `Query2Handler::work` | the heap by what `TagRanking` says; `Query2Proofs` |
| `CommentCounts` | `read_comments_tim` of `read.cpp` | |
| `CommentReaders` | `read_comments` and `read_comments_2file` | extends `CommentCounts`; one reader in each behaviour; `ReaderProofs` |
| `DataReader` | `read_tags_forums_places`, `read_forum` and the thread of `read_places` | extends `Sorting`; `ReaderProofs` |
| `Query3` | `Query3Calculator::work` with `moveOneStep`, `insHeap`, `bfs3`, `get_all_persons` | extends `Network`; `SearchProofs` |
| `Query3Versions` | versions 2, 3, 4 and `query3_force.cc` | extends `Query3`; one version in each behaviour; `SearchProofs` |
| `Bitset` | `lib/bitset.h`, by words, groups of words and bytes of a register | used by `SumEstimator` |
| `SumEstimator` | the graph of query 4, `bfs_all`, limited sums by searches or unions | extended by the next three |
| `HybridEstimator` | the four searches of `HybridEstimator.cpp` with their cuts | extends `SumEstimator` |
| `RandomChoice` | sampling, `noneed` and `sum_bound` of the branch `use_estimate` | extends `HybridEstimator` |
| `DeltaSearch` | the searches of `query4_v3.cc` that share their distances | extends `SumEstimator` |
| `Query4` | `Query4Calculator::work`, the choice of the method and the lazy heap | extends `RandomChoice` and `DeltaSearch`; `Query4Proofs` |
| `Acquisitions` | what the first two schedulers share: clients, waiting, detached threads, counting memory in units | extended by the next two |
| `MemLimitScheduler` | `lib/mem_limit_scheduler.hh` with the clients of its test | extended by `Schedulers` |
| `SigmodAllocator` | `lib/allocator.hh` with the clients of its test | extended by `Schedulers` |
| `Q4Scheduler` | `q4Scheduler.h` | extended by `Schedulers` |
| `Schedulers` | one of the three in each behaviour | `SchedulerProofs` |
| `Counting` | lemmas about least numbers, ranks in an order and remainders; no code | used by the proofs of queries 2, 3 and 4, of readers and of schedulers |

`MCThreadPool`, `MCPipeline`, `MCSearch` (queries 1 and 3), `MCQuery2` (with `MyHeap`),
`MCReaders`, `MCQuery4` and `MCSchedulers` give the constants the values of the runs,
and put several queries, readers, versions or schedulers into one run by a variable
that never changes. A definition whose comment begins with "Mutant of" is a plausible mistake in
the code, put beside the definition it would replace; no specification uses it.

### State and actions

*ThreadPool.* `tasks`, `stop`, `nrActive` and the two mutexes are the members of
the class; `pc[w]` is the place of a worker in its loop, `job[w]` the function
object it has copied, `reg[w]` the value of `nr_active_thread` it has read for
`--`. A critical section of `queue_mutex` is one step, except from the test that
the queue is empty to the `wait`, where the mutex stays held across two; each
access without the mutex is a step of its own: `CountUp` (the atomic addition),
`LoadCount` and `StoreCount` (the plain subtraction), `TestCount`, `TestEmpty`,
the notifications. `TestCount` may see the value just written or a fresh one,
since the compiler may do either. A wake-up may be spurious. A task submits its
children, the tasks its callback enqueues, one at a time.

*Pipeline.* Each thread or task is a straight line of phases. `Uses` lists what a
phase touches and `data` which data are there; `WAIT_FOR` is `TestSignal` and
`FallAsleep`, two steps, because the thread that raises a signal does not take its
mutex: `Raise` and `NotifyWaiters` may both come between them. `large` is the
test `Data::nperson > 1e4`, which decides whether query 3 counts down at all.

*Query1.* `queue[s]`, `vst[s]` and `depth[s]` are the deques, the visited sets and
the levels of the two sides. `Round` is the test at the head of the
loop, `Turn` the half that has none, `Visit` takes a person and marks its friends, `Meet` ends in the middle,
`GiveUp` returns -1. The order within a level is left open.

*Query2.* `f[t]` and `sum[t]` are the vectors of the union-find of tag `t`, with
the path compression of `getf`; `Insert` adds a person and raises the ranges of
the tags to 1 and starts on the list of friends, sorted by `ListedBefore`, up to the break
(`BeforeBreak`); `Join` merges one friend, `Answer` is `find_ans`. `Component`, which the
properties compare the sets with, is the least set that no friendship leaves.

*MyHeap.* `heap` and `place` are the vectors; the loops of `move_up` and
`move_down` take one step per swap (`MoveUp`, `MoveDown`, `StopUp`, `StopDown`).
`Fill`, `Change`, `Ask`, `Get`, `PutBack` and `Return` are the calls that `work`
and `find_ans` make.

*CommentCounts.* `comments` is the vector of the pairs that are friends, `count`
the pairs with their numbers, and `Advanced` the merge that moves one index forward
while the friend lists are walked; `find_count` is the binary search.

*CommentReaders.* `rows` are the replies of the file; the reader with a map for
each person counts in it; the reader of two files reads the first up to the
comment of a reply (`ReadUpTo`, `Stretches`) and finds its owner in an array of `CacheLen`
places, by the id modulo that number.

*DataReader.* `at[t]` and `done[t]` say which file each of the two threads reads and
how many of its rows are read; every action is a row or the end of a file. `last`
is `last_fid` with the mark that its rows are skipped, `hashes` the names of the
bitmaps found for it. `SortUnique` is the end of `read_places`: `SortPersons` is `std::sort`
by number of tags and id, and `Unique` is `std::unique`, which drops a person only when
the one before it in the list is the same.

*Query3.* `pool[c]` are the persons put aside with `c` common tags, `forsake` those
seen, `answerHeap` the set of at most k answers. `TryTag` is one round of
`moveOneStep`, `Prune` its early return, `Pairs` the final loop over all pairs of
the persons found. What depends on the input only (distances, inverted lists, the
persons of the places) is in tables.

*Query3Versions.* `stream[p]` is what versions 3 and 4 keep of a person between two
of its partners; `MoveTag`, `MoveEnds` are their `moveOneStep`, `Extract`, `Erase` and
`FillUp` what they do with the best pair, `SearchFrom` a search of the brute force
or of version 2.

*Query4 and what it extends.* `method` is the estimator: the four searches of
`HybridEstimator.cpp`, with sampling or without, or those of the older files.
`SearchNear` searches every vertex to depth 2 or 3, `AddDepth` joins the bitsets of
the friends, `result` are the bounds and `left` the vertices not found. In
`RandomChoice` any vertices may be the samples. In `DeltaSearch` `dist` is relative to
`base`, and `path` has what a search changed, to take it back. `MakeExact` replaces
a bound by the sum, `Emit` takes a vertex whose value in the heap is its own.
Centralities are compared as fractions; the code compares doubles. A vertex given
up has the sum 1e9 in the code, which is taken to be far above any real one
(`GivenUpAssumption`, see *Proofs*).

*Acquisitions and the schedulers.* `threads` are the detached threads, each with the
step of the call that it is at; `blocked` are the clients whose mutex is locked.
`++` and `--` of `nr_free_slots`, under two mutexes, are a load and a store each;
`raced` is a history variable that says an update was lost, `failed` has the clients
between a failed `alloc` and their wait; an `alloc` may fail although there is memory, as
when `_mm_malloc` returns null (`allocator.hh:97-103`). In `Q4Scheduler` the holder of `work_mt` walks through the jobs
(`rest`) while the others give back and refresh, one atomic addition or plain
store at a time; whether the job at which the walk stands is started and which comes
next is one step (`NextJob`). `schedule` of the allocator gives the memory to the
waiting clients in the order of the set (`Grants`).

## Runs

All runs use two TLC workers and end within two minutes; the figures are distinct
states.

| run | module | states | question |
|---|---|---|---|
| `pool` | MCThreadPool | 173222 | two workers, five tasks, one of them with two children, one spurious wake-up: `RunsOnce`, `NoWakeupLost`, `QuietOnlyWhenDone`, the inductive invariant, the implementation of `TaskPool`; every task runs, and the shutdown completes when the last worker leaves with a correct count |
| `pool_join` | MCThreadPool | violation | the destructor returns (claimed by two comments) |
| `pipeline` | MCPipeline | 126796 | two workers, six tasks, four detached threads, both values of `large`: `SafeUse`, `AnswersComplete`, use of the pool within `TaskPool`, and the program prints unless a wake-up is lost |
| `pipeline_signal` | MCPipeline | violation | queries 2 and 3 start once the places are read (a comment) |
| `query1_query3` | MCSearch | 369545 | query 1 on every network of five persons: shortest paths over friendships with more than x replies, what the two searches know at each step, and that the query is answered; query 3 on every network of four persons, six choices of three tags, five versions: the k best pairs (`AnswerIsBest`), and the bounded heap and the streams between two steps (`HeapRight`) |
| `query1_weight` | MCSearch | violation | the answer is no longer than a path with at least x replies on each edge (the repository's README) |
| `query2_heap` | MCQuery2 | 463272 | query 2 on every network of four persons, all choices of one or both of two tags: components and answers, every query answered; the heap of four tags with ranges up to 2: back pointers, heap order in the middle of every move, the implementation of `TagRanking` |
| `query2_day` | MCQuery2 | violation | only those born after the day of a query count (the repository's README) |
| `readers` | MCReaders | 282038 | comments: three persons, every pair up to twice in the file, or every file of four comments for the older readers; tags, forums and places: 2408 sets of files. `MergeInv`, `CountsRight`, `MembersRight` (query 4), `DataRight` (queries 2 and 3), and all readers end |
| `query4` | MCQuery4 | 95494 | 256 networks of seven vertices, every estimator: bounds are below sums, shared searches find what searches of their own find, the k most central in order, nothing more central later; the query is answered |
| `query4_sampled` | MCQuery4 | violation | the recorded sums are the sums (a comment) |
| `schedulers` | MCSchedulers | 730373 | three clients of either memory scheduler, nested or not, with one slot or two, and more memory asked for than there is: `NobodyForgotten`, no more memory or slots given out than there are, everyone served but for the races and the shortage that the properties name; three jobs of `Q4Scheduler` on two threads: `JobsServed` |

Why the bounds are enough:

- `pool`: two workers are the least with a last active worker and a sleeping one;
  the forum task with two children and three priorities make a task enqueue while
  others sleep, and more tasks than workers keep the queue from being empty. What
  is proved holds for any number of workers and tasks.
- `pipeline`: two query-3 tasks give the counter a last but one; six tasks on two
  workers give every order in which a waiting task can hold a worker.
- `query1_query3`: five persons have paths of length 4, two levels on each side, and
  every network is there, with friendships excluded by the reply count. For query 3
  the tags are equal, nested, overlapping, disjoint or none, k is below and above the
  number of pairs, h is 0 to 3; the fifth person is in no place and knows nobody.
- `query2_heap`: four persons join two sets of two; two are born on the same day; the
  queries are for days before, between, on and after the birthdays. In the heap
  four elements make three levels with a left child without a right one;
  with the ranges 0 to 2, a change can sink nothing, rise one or two levels, and
  ties are settled by names that are not in the order of the ids.
- `readers`: six pairs make the binary search halve three times; a window of three
  comments is smaller than the four there are, so that places are written over.
  Two forums in up to three rows come together and apart, known and unknown; two
  of the three tags share a name, ids are not in the order of indices; the places
  have one name for two ids, a place in a place, and a person found twice.
- `query4`: a path of seven has distances up to 6, while the deepest bound tells
  4 from more; k is below and above the number of vertices. Words of two bits and
  groups of two words make the bitsets cross all their boundaries; two samples and
  a `SampleDegree` of two make them fall inside and outside small components.
- `schedulers`: one slot and two acquisitions in each other make a client wait for
  the slot it gave back; three clients make two wait for the third; sizes 1 and 2
  of 3 make the largest wait while others pass. Two clients that take 1 at
  a time, three times and twice before they give any back, want 5 of 3 at once: they
  can come to hold all there is and both wait for more. `Q4Scheduler` has two readings of
  the free memory, so that a stale store may be above or below the new value.

`CHECK_DEADLOCK FALSE` stands wherever a behaviour ends: a query is answered, the
program prints, the readers are done, a scheduler's clients have left or hang in a
way the properties name, or the destructor hangs. `query1_query3` is checked for deadlock: an answered query of type 3 stays as it is,
any other has a step.

### Fairness

`ThreadPool` and `Pipeline` assume weak fairness of each thread's next step: the
kernel runs every thread that can run, and every phase ends. A mutex is free
again after a bounded number of steps, so weak fairness is enough for the locks
the models hold across steps. Nothing is assumed of spurious wake-ups or of which
waiter a `notify_one` wakes. The queries and the comment readers run in one thread
each; weak fairness of `Next` (in a run with two parts, of the steps of that part)
says that the thread goes on. In `schedulers` and for
the two threads of `DataReader` it is weak fairness of the whole next-state relation:
every behaviour there is finite, so that it says no more than that the kernel
does not stop while some thread can run.

## Proofs

**`ThreadPoolProofs`**, for any forest of tasks, any set of workers, and any number of
spurious wake-ups. Assumptions: `TaskForest` (each task has one submitter, all can
be reached from the main thread's) and `PoolAssumption`.

- `TypeCorrect`, `Inductive`: `IInv` is the type invariant with: the mutex is held
  exactly from the test to the wait and the queue is empty meanwhile; a worker has
  a task exactly between pop and return; each submitter owes exactly what it has
  not submitted; `stop` is set exactly from the join on; a queued task has an awake
  worker or a notification to come. The debts are what makes `RunsOnce` inductive:
  a push must add a task that is nowhere yet.
- `EachTaskRunsOnce` (`RunsOnce`) follows.
- `NoTaskAbandoned` (`QuietOnlyWhenDone`): when all workers sleep or have left, the
  queue is empty and nobody runs, so the debts are paid and the finished tasks are
  closed under children; `TaskForest` makes them all.
- `PoolImplementsTaskPool`: each step maps to a step of `TaskPool` or to a stutter.

The counter `nr_active_thread` appears in no part of `IInv` but its type: the plain
decrement can lose an addition, and no answer depends on it.

**`SearchProofs`**, for any number of persons, networks, counts and queries, and for
query 3 any tags, interests, places, numbers of answers and hops
(`Query3Assumption`; its bound on hops is what `bfs3` returns when it finds no path).

- *Walks* can be reversed, joined, split and extended. That `Ball` is what is within
  so many edges (`BallIsWithin`), and that two searches that take levels in turn meet
  within h levels exactly when there is a path of h edges, is shown from them: the
  middle of the path is in both balls.
- *Query 1.* `SearchesAreExact` (`SearchInv`): what side s has visited can be reached in at most
  `depth[s]` edges, whatever can be reached in fewer was visited, and in as many once
  the level is taken; the sides are disjoint while the search goes on; the second half
  of the loop always has a level. `AnswerIsShortest` (`Shortest`): a meeting edge joins
  two walks; a shorter walk would have a vertex that both sides had visited.
  `NotFoundIsRight` (`NotFoundMeansApart`): a side whose queue is empty has visited a set
  that no friendship leaves. The three are inductive together. An edge is what
  `query1_force.cc:38` does not skip.
- *The k first.* A heap bounded by k keeps what it should (`Keeps`) when each pair that
  it leaves out has k better ones in it. That stays so when a pair is added or the
  worst one makes place; a pair may be given up when k better ones are known, now or
  later. `Sorted` gives every element of a finite set once and in order
  (`SortedIs`, from the ranks of `Counting`).
- *Version 5.* The heap has the k first of the favourites, a favourite being a pair
  that somebody has first. `pool[c]` has exactly the persons seen so far with c common
  tags, for c not yet given up; those not seen have fewer common tags than are left to
  try. So the partner that `moveOneStep` takes makes the favourite, and when it gives
  up, k pairs of the heap are better than any to come. The favourites of the two
  persons of a pair are no worse than the pair: whoever is in one of the k first
  pairs is in the heap at the end, and the closing loop over the pairs of those
  persons finds what the favourites left out.
- *Versions 3 and 4.* A pair was tested, or is still to come behind a pair of the same
  person that is in the heap and not yet taken, or has no common tags, or has k better
  ones (`ToCome`). The answers taken are before all that is left (`TakenInv`), so that each
  next one is the best of what remains; `FillUp` adds pairs without common tags.
- *Version 2 and `query3_force.cc`.* What is searched and not in the heap has k better
  ones; version 2 stops when the tags of the next person are too few to do better.
- `Query3Inv` joins these: `Query3Right`; from it `Query3Answered` (`AnswerIsBest`) and
  `HeapsRight` (`HeapRight`). TLC finds `Query3Inv` true in all states of the instance of
  `query3`; it is an invariant of the proofs and not of a run, where it would say
  nothing that the two properties do not.

**`Query2Proofs`**, for any number of persons and tags, any birthdays, interests,
networks and queries.

- *One union-find.* Searching for a root ends because a parent is never before its
  child (`Forest`). That `Root` and `Path` are the functions their recursive equations
  say is shown with the sequences of steps in place of the equations; facts about
  all elements are shown for the largest one that would not have them. Compression
  keeps every root (`CompressedRoots`), a merge changes those of one set
  (`LinkedRoots`), a new element is its own (`AppendedRoots`).
- *Sizes* (`Tree`, `MergedTree`, `GrownTree`): the set of the merged root is the union of
  two disjoint sets, and the largest size grows only there, which is why `range`
  need not be lowered or looked up.
- *Connection* (`Connected`: no closed set parts the two). One more friendship connects
  what it did before and those that it joins (`OneMore`), a new person nobody
  (`GrownConnected`).
- *Ranks.* `Rank` numbers the persons with a tag in the order of insertion
  (`PlacedRanks`), so that the new element is that of the last person.
- *The break.* The list of a person is sorted, so that the loop has come to all friends
  born before and to no other when it breaks (`BreakIsRight`).
- `Query2Inv` joins these: the sets of each tag are the components of the friendships
  joined *so far* (`Joined`), in the middle of the loop over the friends of a person
  too. `SetsExact` alone says nothing there and would not be inductive. From it
  `Query2Types` (`TypeOK`), `UnionFindExact` (`SetsExact`) and `AnswersAreRight`
  (`AnswersRight`). As in
  `TagRanking`, of two tags with one name and one range either may come first.

**`Query2Proofs`, the heap of tags**, for any number of tags, any names and any bound on
the ranges (`HeapAssumption`; the names need not differ).

- `HeapInductive`: `IInv` is the type invariant with `PlaceExact`, `Parted` (each tag
  inserted is in the heap or among the elements taken, not in both), `HeapOrder`
  and `TakenBest`. Heap order alone is not inductive: while an element moves, its
  children must not be better than its parent (`Bridged`), or the swap would break
  the order above. The lemmas say that "not better than" is a total preorder, what
  a swap does to the two vectors and that it permutes the elements, and that
  `move_down` goes to the best child. `RootBest` (the root of a heap in order is a
  best element) is shown by the least counterexample, whose parent would be a
  smaller one; `HeapNotEmpty` (`get` finds an element) by counting tags.
- `HeapImplementsRanking` (`RankingSpec`): the range of a tag is that of its only
  element, and elements move between `heap` and `tmp` but do not change; so
  insertions, moves and `get` are stutters, `change` raises one range, and the end of
  `find_ans` returns the best tags in order.

**`PipelineProofs`**, for any number of queries of each kind and of workers. `IInv` says of
each thread and task that it is in a phase of its own line, what `main` and the forum
task have started by then, that a boolean is set only after the work that its
signal tells of and nobody passes a wait before that, that `q3.continuation` counts the
query-3 tasks that have not counted down, and from when to when each datum is
ready. `SafeUse` is not inductive: that no query-3 task reads what a destroyer frees
needs the counter, and that needs who has been submitted. From it
`UsedDataAreReady` (`SafeUse`), `AnswersAreComplete` (`AnswersComplete`) and, with one step of
the pool for each submission, start and return, `UsesPool` (`PoolUse`).

**`ReaderProofs`**, of comments for any network and files, of the others for any files
that `DataReaderAssumption` allows (ids of tags unique, tags of persons and forums
known, places and organisations too, a row of members at least).

- `CommentInv`: what `count` is after the filter and the aggregation; while the merge
  runs, `MergeInv`, which says that an entry that was passed by is before every entry to
  come, so that an index that only moves forward misses nothing. `SearchFinds` is the
  binary search: the interval keeps the entry while it halves. For the older
  readers: the map after each row, and the owners in the window, where an entry is the
  one asked for unless a later one has the same remainder, which the distance of
  a reply excludes. `CommentsMerged` (`MergeInv`) and `CommentsCounted` (`CountsRight`)
  follow.
- `DataInv` says what the rows read so far have put into each structure: `id_map` is the
  inverse of the rows of tags (`TagsSoFar`), `forum_to_tags` lists exactly the tags that
  are asked for (`ForumsSoFar`), the bitmaps have the members of the rows read, and
  what is kept of the last forum fits it (`MembersSoFar`). The steps of the thread of
  places leave all of it alone (`OtherSteps`). `ForumNames` goes from a forum's list to
  its names, where two tags may meet. `ReaderMembersRight` (`MembersRight`) follows.
- `PlacesInv` does the same for queries 2 and 3: the interests of persons and the persons
  of tags are those of the rows read (`InterestsSoFar`), and the list of a place has
  whoever the three files read so far put there, each entry with the final number of
  tags of its person (`PlacesSoFar`), for the thread of places starts after the interests.
  That number is what makes sorting bring equal persons together: `SortPersonsIs` says that
  sorting keeps the entries and orders them (from `RankCovers`), `UniqueIs` that
  the first of equal neighbours are all that is needed to have each person once.
  `ReaderDataRight` (`DataRight`) follows.

**`SchedulerProofs`**, for any clients, sizes, depths, slots and memory
(`AcquisitionsAssumption`), any jobs and any readings of the free memory (`Q4Assumption`).

- `LimitInductive`: whoever waits has exactly one thread that will insert an
  acquisition, or exactly one acquisition in the set, and who does not wait has none
  (`OneEach`). That there is only one matters because the set takes two acquisitions
  of one client and one size for the same: a second one would be dropped. Hence
  `LimitForgetsNobody`. Whether it is granted is not proved, and not true without the
  conditions of `LimitEveryoneServed`. `LimitKeepsMemory`: what the clients hold and what is
  free make up the memory, and `free_mem`, unsigned in the code, is never below 0, so that
  the clients never hold more than there is. Memory is counted in units
  <<client, n>>, so that sums over clients are cardinalities of sets; each call gives
  back the units it was granted (`CallsInv`).
- `AllocatorInductive`: the same for `lib/allocator.hh`, where an `alloc` looks, and takes
  later; `ReserveInv` counts what is promised as well as what is taken, `SlotsInv` puts each
  slot in one of three places; the number of free ones never goes below 0.
- `Q4Inductive`: the holder of the lock, the slots taken, the memory that `mem_using` counts,
  and for every job left that fits a thread that will still look (`JobsSeen`), a stale
  store of `mem_free` notwithstanding.
- `SchedulersInv` joins the three for `Schedulers`: `LimitMemoryIsKept`,
  `AllocatorReserveIsKept`, `AllocatorSlotsAreAccounted`, `NobodyIsForgotten` and
  `JobsAreServed` are the properties of the run.

**`Query4Proofs`**, for any number of vertices, any graphs, every method with sampling or
without, any numbers of answers and samples, and any sizes of words, bytes, groups and
chunks of the bitsets. The assumptions:

- `BitsetAssumption`: the sum of a byte over the words of a chunk fits the byte; the code
  has 28 words of at most 8 bits in 255. With longer chunks the count would wrap.
- `GivenUpAssumption`: without `use_estimate`, 1e9 is above four times the members and once
  the friends of all of them, so that `sum_bound` cuts nothing; the contest's networks
  are far below. With `use_estimate` it is above four times the square of the members, which
  1e9 is for up to 15811 of them. Beyond that it would depend on the network whether a
  vertex given up, whose sum is taken to be 1e9, may look more central than one in
  a small component.
- `RandomChoiceAssumption`: `SmallSum`, 10 in the code, is not 0. A vertex alone has the
  sum 0 and would be a bound for others otherwise.
- `Answerable` is what the code takes for granted of a call: with `use_estimate` there are 2k
  vertices with sums that are not small, or the loop that looks for them would run
  off the list; the search by a schedule reaches all vertices.

`Query4Inductive` (`Spec => []Query4Inv`) has one part for each phase of the call, since
what a bound is worth depends on how far its estimator has come:

- *The graph.* Balls grow by one edge from level to level and stop at level N; they are
  the same seen from both ends (`BallsBack`), so that components are (`SameComponent`).
  Sums over finite sets are counted as rows of dots (`SumIsDots`), so that they can
  be split and joined without induction. `LimitBetween`: a search of limited depth, with
  one edge more for who is not found, is not above the sum; `LimitGrows`: nor below what
  a shallower one finds.
- *Degrees.* While `compute_degree` runs, all before `next` have the sizes of their
  components and the others have them or -1.
- *Bitsets.* `LenCovers`: the length in words, rounded up to groups, has room for every vertex;
  `CountIs`: adding bytes modulo 256 chunk by chunk counts every bit once (`ByteHolds`,
  `ChunkCount`). `JoinBalls` and `JoinRings`: the bitsets of the friends joined, without
  those of the vertex, are the next level.
- *The HybridEstimator* (`AtNear`, `AtUnion`, `AtUnion4`): `result` is the sum up to the level
  reached and `left` counts the rest, but for those set aside. Without `use_estimate` nothing
  is cut (`CutOnly`). The fourth level of `bfs_2_dp_more` counts ring 2 again, and
  `FourthIsFine` shows that the bound stays below the sum.
- *Samples* (`AtNarrow`, `Narrowed`): the recorded sum of a sample is not below its
  own, at most 2 above the square of the number of the others (`SampleSums`), and 0 for a
  vertex alone; `EnoughLarge`: the loop over the order finds its 2k vertices.
- *Shared searches* (`AtWalk`, `AtTree`): `dist` has the distances from the vertex walked
  from as far as `depth_max`, and nothing else looks as near. That is what one edge
  of the walk needs (`FitsFriend`): every distance changes by one at most, so that with
  `base` lowered by one no old entry is below the new distance, and where one is equal to
  it so are those behind; hence `BfsFinds`. With a roll back the
  invariant needs the distances of *every* search on the path (`Stack`): what was
  written over leads from each to the one before. That all vertices are done at the end
  (`AllBelow`) needs that whoever is left has passed on to all its friends one level further
  (`AtTree`).
- *The heap* (`AtHeap`): each vertex is answered, or in the heap with the sum that counts
  or with a bound; what was popped and put back has its sum. So a vertex that comes out
  twice in a row with one centrality beats the bounds of all that are left, and by
  `LaterWhenFarther` their sums. A vertex given up is never at the top while one of
  the 2k known sums is in the heap (`TopIsBounded`, `LargeInHeap`), and fewer than k
  of them can have been answered.

From it `BoundsAlwaysHold` (`BoundsHold`), `SharedSearchesAreExact` (`LimitDepthExact`),
`AnswersAreMostCentral` (`MostCentral`) and, from the heap's part for one step,
`HeapYieldsInOrder` (`CentralityFalls`). None of the four is inductive: the first three say
nothing until the heap starts or the call ends. TLC finds `Query4Inv` true in all states of
the instance of `query4`, where it says nothing that the properties of the run do not.

`Counting` holds what several of them cite: a set of numbers has a least one
(`LeastNumber`, which is how induction is done here), the number of elements before
one in a finite order takes each value below the cardinality once (`RankCovers`,
`RankOrders`), remainders differ within a distance less than the divisor.

Only model-checked: liveness everywhere (`EveryTaskRuns`, `ShutdownCompletes`,
`PrintsUnlessWakeupLost`, `EveryQueryAnswered`, `Answered`, that readers end and clients are served);
TLAPS has no rule for fairness here. Every safety property of a passing run is proved.
Induction over data is within
reach where the statement can be refuted by a least number; a function that is
defined by recursion is used through a closed form that satisfies the equation.

## Disagreements found

1. **The destructor may wait for ever** (`pool_join`). `main.cpp:129` and
   `lib/ThreadPool.hh:137` say that all threads are joined. `main` notifies before the
   destructor sets `stop`, and the destructor notifies nobody; if every task is done
   by then, no worker ever wakes to see `stop`. The lost update of
   `nr_active_thread` has the same effect. `QuietOnlyWhenDone` shows that no answer is
   lost then, and `ShutdownCompletes` when it works.
2. **A signal may be missed** (`pipeline_signal`). The notifier of `WAIT_FOR` does not
   take the mutex of the signal, so that it may come between the test and the
   wait. `PrintsUnlessWakeupLost` shows that nothing else stops the program: main prints,
   or from some step on main or the comment task sleeps for a signal that is raised
   and whose thread has ended.
3. **The sums of samples are not exact** (`query4_sampled`). `bfs_all` in
   `SumEstimator.cpp:84` queues its source without marking it, so that the first
   friend finds it again, at distance 2; `query4_wyx.cc:104` records the sum as
   exact and says that it is not wrong. `MostCentral` takes the samples at these sums.
4. **Replies** (`query1_weight`). `src/README.md:29-30` has `e_w \ge x` for each edge of a
   path; `query1_force.cc:38` skips a friendship with `ncmts <= x`. `Shortest` and
   `NotFoundMeansApart` speak of the edges that the code does not skip.
5. **Birthdays** (`query2_day`). `src/README.md:40` and 46-47 have `v_d > d`;
   `query2_Unionfind.cc:97` answers a query before the first person born before its day,
   so that whoever is born on the day counts. `AnswersRight` counts them too.

Without a run, each seen while modelling:

- *`n3_upper`.* `HybridEstimator.cpp:116` asserts that it is not negative; in a triangle
  it is -1. It goes into `est_s_lowerbound`, which `sum_bound` cuts by; the bound the
  heap gets does not use it.
- *Empty comments.* `read.cpp:711` reads `comments[0]` of an empty vector when no two
  friends replied to each other; `ReadEmpty` of `CommentCounts` is that crash.
- *Lost updates of `nr_free_slots`* in `MemLimitScheduler`: counted up under one mutex,
  down under another. `LimitEveryoneServed` excludes the behaviours where it happened.
- *Shortage of memory* in `MemLimitScheduler`: a client keeps what it holds while a nested
  acquisition waits. When nothing is free and all who are inside wait for more, they
  wait for ever; `LimitEveryoneServed` excludes that state (`OutOfMemory`), and only that.
- *Sizes above 1* in `MemLimitScheduler`: `acquired_mem_by_id` never comes back to 0 and
  the slot of the client is never returned. Its test (`init(1, ..)`, sizes of
  5000) would hang after the first client. The assertion at line 90 can fail too,
  when an acquisition is granted before it is recorded.
- *Allocator*: an `alloc` that fails waits for a schedule that nobody makes when the
  others have left already; `AllocatorEveryoneLeaves` excludes it.
- *Jobs of `Q4Scheduler`* are compared by size and tag, so that of two queries with one
  tag the second is dropped and never answered.
- *`query4_v3.cc`*: the search by a schedule reaches the component of vertex 0 only, and
  `base` may become -1, the index of `dist_count[-1]`; `sum_bound` compares sums across
  components of different sizes; depth 4 of `bfs_2_dp_more` counts ring 2 again, which
  still gives a lower bound.

## Not modelled

- *`bread`, `tasty_bread`, `cache`*: an earlier way to look up replies while query 1
  runs. The calls are commented out, and the code would leave its files for comments
  outside the first and the last reply (an index of `maxv` in a vector of that length).
- *Brute force for queries 2 and 4*: what they compute is what `AnswersRight` and
  `MostCentral` say.
- *`query4_v2.cc` and `query4_v3.cc` as files*: they no longer compile against `query4.h`.
  Their estimators and heap are modelled; `contract_graph` (never called with a vertex
  to contract) is not, nor `VectorMergeHybridEstimator`, which is inside `#if 0`.
- *Lists of answers* of queries 1, 3 and 4, written at an index or under a mutex, and
  printing.
- *Readers of persons and friends*: one pass with no state between rows but the
  vectors it fills; when they run is in `Pipeline`.
- *Parsing and buffers*, hashing, timing, tools, debug output, generators.
- *Probability of the samples*: any vertices may be sampled, so that whatever holds does
  so for all choices; how good the cut is was not asked.
- *Memory model*: beyond the accesses named above, the models interleave atomic steps.

## Plan

Done: pool, its abstraction and proofs; pipeline and its proofs; query 1 and its proofs; query 2 and its proofs; its
heap, its abstraction and proofs; all readers but those of persons and friends, with
their proofs; query 3 in all versions and its proofs; query 4 with sampling and all
estimators, bitsets and their proofs; the three schedulers and their proofs.

Next: `Query2` over `MyHeap` in place of the abstract ranking; the lists of answers and the
order in which they are printed. For `use_estimate` with more than 15811 members, a
condition on the network in place of `GivenUpAssumption`.
