# Verification of the CENG334 programs

TLA+ models of the three programs in this repository, checked with TLC, and
theorems about both crossroad controllers and their rules, about the processes,
descriptors, exit statuses and output of the merger, and about the counters, the block
pointers and the merged tree of the file system proved with TLAPS. `PROJECT.json` lists
the components, the runs, the mutants that show that each checked property can
fail, the source lines behind each definition, the hazards and the theorems.

* [1 The system](#1-the-system)
* [2 The modules and the code](#2-the-modules-and-the-code)
* [3 What TLC checks](#3-what-tlc-checks)
* [4 Fairness](#4-fairness)
* [5 What is proved](#5-what-is-proved)
* [6 Where the code and its documents disagree](#6-where-the-code-and-its-documents-disagree)
* [7 What is not modelled](#7-what-is-not-modelled)
* [8 Plan](#8-plan)

## 1 The system

The repository holds three independent programs.

### Hw2: the crossroad (`Hw2/crossroad.cpp`, `main.cpp`, `monitor.h`, `grader.py`)

Every car is a pthread that drives a route: `arrive_crossroad()`, `usleep()`,
`exit_crossroad()`, `usleep()`, again. One `Controller`, a monitor, decides who
goes in.

| part | state | operations | talks to |
|---|---|---|---|
| `Controller` | heap of (ticket, condition) per lane, occupancy flag per lane, direction and number of the cars inside, last ticket, priority buckets | `get_in()`, `get_out()`, and their helpers `is_higher_car_waiting()`, `find_highest_pri()` | called by every car; signals conditions of sleeping cars |
| `Monitor`, `Condition` | one mutex, a condition variable per `get_in()` call | lock, `wait()`, `notify()` | pthreads |
| car threads, `main()` | route and position in it | `carThread()`; joins | the controller |
| event log | nothing | one line per A, E, X | read by `grader.py` |
| `grader.py` | waiting and driving lists, arrival times | replay of A, E and X, each checked | reads the log |

Hard: a thread that is signalled competes for the mutex with threads that
arrive, so the state it finds is not the one in which it was signalled; waits
may end without a signal; `get_out()` signals only the heads of *one*
direction, or of one lane, so every other car must have a reason to sleep on;
priority and order of arrival interact across lanes, but only heads are
compared; tickets are unsigned and wrap.

Correct means: no two cars inside in crossing directions or on one lane; the
rules of the grader are kept in every log; no car is left asleep for ever; every
thread finishes its route.

`crossroad_with_atomics.cpp` is an earlier controller behind the same interface.
Each lane is a numbered queue: a car draws a ticket from an atomic counter
*before* it enters the monitor, sleeps on one of 100 shared conditions of its
lane, and goes in when its number is up. Hard: the counters grow while
`get_in()` and `get_out()` read them; the car whose turn it is may hold a ticket
and not be in the monitor yet, so a signal to it is lost; the search for the
strongest claimed lane may pass by a lane that is claimed a moment later.
Correct means: no collision, no shared condition in use twice, nobody left
asleep, all routes end. It does not keep all the rules of the grader, see
[7](#7-what-is-not-modelled).

### Hw1: the merger (`Hw1/merger.cpp`, `Hw1/source/merger_parser.c`)

The parser reads the tree by recursive descent from lines whose role is given by
their place only: a header, then chains, and after a chain that ends in `merger`
the header of the sub-input. It fills an empty child node while it reads the one
that replaces it, and frees everything when a line is wrong. Correct means: it
takes exactly the lines of one tree, leaks nothing, frees nothing twice, and
what it returns can be run.

A parsed tree of mergers becomes a tree of processes. Each merger forks for
each of its chains a pipeline of operators (`sort`, `filter`, `unique`, executed
programs) or a sub-merger, then a feeder per chain that writes an interval of the
lines of the file into it; it copies the outputs of its chains to its own stdout
in the order of the chains, waits for its children and prints their exit
statuses.

State: the process tree, the descriptors of each process, the contents of the
pipes, the stdio buffer of each merger, exit statuses. Hard: bounded pipes tie
feeder, operators and the reading parent together; a reader sees end of file
only when the *last* copy of the write end, inherited through any `fork()`, is
closed; an operator that dies early kills its upstream by SIGPIPE; statuses of
sub-mergers travel up in the same stream as the data.

Correct means: however the processes are scheduled the output is that of the
tree, chain after chain; each status is printed once, after the data; no zombie
and no stray descriptor is left; the program ends.

### Hw3: `mergeext2fs` (`Hw3/hw3.cpp`)

One thread merges two grown copies `A`, `B` of an ext2 image into the `base`
image, in place.

| part | state | operations |
|---|---|---|
| allocators | bitmaps on disk; counters of each group and of the file system in memory | `allocate_inode()`, `allocate_block()` |
| block index | inode and its direct, single, double and triple indirect blocks | `get_file_block_at()`, `set_file_block_at()`, `append_to_file()`, `read_file_range()`, `get_data_ptrs_from_inode()`, `count_physical_blocks()` |
| directory entries | chain of records in a block | `write_dot_entries()`, `add_dir_entry()`, `get_entries_from_data_block()` |
| merge walk | three trees, the recursion | `print_merged()`, `compute_tag()`, `merge_entry()`, `finalize_inode_metadata()` |
| global metadata | super block and group table, primary and backups | `merge_super_block_timestamps()`, `flush_global_metadata()`, `write_backups()` |

Hard: there is no journal, and every call may be the last one (the allocators
`exit(1)`), so every intermediate image matters; three copies of the same facts
(bitmaps, counters, pointers) have to agree; index arithmetic at the borders of
the indirect levels; records split again and again; two branches append to one
file and the order is decided by times in several places.

Correct means: the merged tree is the union, each file is the base's bytes
followed by what each branch added, earlier first; the tree, links, counters,
bitmaps and backups agree; nothing of the base is ever out of reach.

## 2 The modules and the code

| module | models | state ↔ code | actions ↔ code |
|---|---|---|---|
| `Lanes` | directions, lanes, priorities | `enum Direction`, testcase header | |
| `Priorities` | the ranks that both constructors give the lanes | `priority_array`, `priority_buckets`, `min_pri`, `max_pri` | |
| `Crossroad` | `crossroad.cpp`, `carThread()` | `waiting_list`, `is_occupied`, `global_time`, `active_dir`, `active_car` are the fields of `Controller`; `thread` is the place of each thread, `our_arrival_time` its local | `GetIn`: `get_in()` to its first `wait()` or return; `Recheck`: from the return of a `wait()` to the next one or the return; `GetOut`; `SpuriousWakeup`: of `pthread_cond_wait()` |
| `CrossroadAtomics` | `crossroad_with_atomics.cpp`, `carThread()` | `next_ticket` (atomic), `next_to_serve`, `active_dir`, `active_car`; `thread`, `our_turn` of each thread; `scanned`: how far `find_highest_pri()` is | `DrawTicket`: `arrive_crossroad()` to the call of `get_in()`; `GetIn`, `Recheck`; `GetOutOfMany`, or `GetOutOfLast` and then lane by lane `PassBy`, `NotifyDirection`, `FindNone`; `LogEnter`, `LogExit`: what follows outside the monitor |
| `Intersection` | class `Intersection` of `grader.py`: the abstract specification of the controller | waiting and driving lists, arrival times, clock | the accepted events A, E, A+E, X |
| `MergerParser` | `parse_merger_input()` and all it calls, `free_merger_tree()` | `stack`: the activations of `parse_merger_recursive()`; `node`, `frees`: the heap; `input`: the lines read so far, chosen as they are read | a header, a chain, the return of an activation to the next |
| `Merger` | `sub_merger()` and all it forks | `pc` of each process, `open`/`stdin`/`stdout` the descriptors, `pipe` the lines in each pipe, `pending` what is still to be written (the stdio buffer of a merger), `exit_lines` = `per_chain_exit_statuses` | the code of one process between two system calls that block or can be noticed by others |
| `FileContents` | what appends promise: all or nothing, one file at a time | bytes of each file | append, grow, fill, give up |
| `FileBlocks` | `append_to_file()`, `set_file_block_at()`, the growing half of `add_dir_entry()`, all the walks that read | `disk`, `bitmap`, `inode` on the disk; `job` is the call in progress with its copy of the inode | one write to a block in use per action |
| `Directory` | what directories promise: entries are added one at a time, none is lost | set of (name, inode) | make, add |
| `DirEntries` | the records | `blocks`: the words of each block by offset | `write_dot_entries()`, `add_dir_entry()` |
| `GroupMetadata` | `allocate_inode()`, `allocate_block()`, the flush and the backups | `bits` on the disk, `bgd`, `super` in memory, `image` by units of 1024 bytes | one allocation, one write of the flush, one round of the backup loop |
| `MergeTree` | `print_merged()`, `merge_entry()`, `finalize_inode_metadata()` | `base`, `A`, `B` inode tables, `stack` the recursion | each writing call of `merge_entry()`, plus a kill between any two and a new start; `ListChildren` takes the listing of the base that `VisitChild` looks names up in |
| `MC...` | instances for TLC | | |
| `CrossroadProofs` (of `Crossroad` and `Intersection`), `CrossroadAtomicsProofs`, `MergerProofs`, `MergerLinesProofs`, `GroupMetadataProofs`, `FileBlocksProofs`, `DirEntriesProofs`, `MergeTreeProofs` | theorems | | |

`Crossroad` refines `Intersection` (`ImplementsRules`; the rules start `Empty`, their
step is an `Event` of the log, and no name of theirs is one of the controller's, so that
one module can prove about both), `FileBlocks` refines
`FileContents` (`ImplementsContents`), `DirEntries` refines `Directory`
(`ImplementsDirectory`). `MergeTree` uses inodes as the abstract modules promise
them: a byte string that grows at its end, and a directory to which entries are
added.

Abstractions, and why they are safe:

* *Atomicity in `Crossroad`.* `get_in()` and `get_out()` run under the mutex and
  give it up only in `wait()`; code between two such points cannot be
  interrupted by anything that reads or writes the same variables. Logging is
  under the same mutex, so the order of events is the order of the actions.
* *Atomicity in `CrossroadAtomics`.* The draw of a ticket needs no mutex and is an
  action that may come between any two others. Until they wrap the counters only
  grow, so a test
  of several lanes that finds a claimed one is still true when it ends, and one
  that finds none was true when it began: `is_higher_car_waiting()` is one step at
  that moment. `find_highest_pri()` returns the *first* hit and has no such
  moment; it is taken lane by lane, with the mutex held (`"scanning"`).
* *Tickets of `CrossroadAtomics`* are unsigned and wrap at `UINT_MAX`, but `get_in()`
  has its own in an `int`: one above `INT_MAX` is negative there, and so is
  `our_turn % Max_car`, the index of the condition to wait for. A thread that uses an
  index before the start of the array is `"astray"`: it has the mutex, and what it
  does next is not followed.
* *Conditions are cars.* In `Crossroad` every `get_in()` call has a condition variable of its
  own, so the car names it; a signal to a car that does not sleep is lost, as in
  pthreads.
* *Any route.* `GetIn` takes any lane: every pattern of a testcase is a
  behaviour. Trips are bounded by `Trips`, as `repeat_count` is in the program.
* *A pipe holds lines, not bytes.* Every reader of the program assembles lines
  before it acts on them; `Capacity` lines stand for the 64 KiB.
* *The stdio buffer holds whole lines*, `StdioBuffer` of them: 170 for 4096 bytes and
  statuses of at most 24. If the `printf()`s of one merger are more than that (the
  parser lets a merger have 64 x 32 operators), a full buffer is flushed in the middle
  of a line, the `write()` that passes a status on may land inside that line, and the
  merger above takes the torn rest for data. `BufferAssumption` leaves such mergers
  out; a root on a terminal, which is written line by line, may have any number.
* *Data that looks like a status* is in the file of `merger_in_order`: it comes out
  with the statuses, in order among its like.
* *The parser reads words.* A word is what `next_token()` returns, and `|`;
  `atoi` is a constant function. A chosen line is the next `fgets()`, or there is
  none.
* *`sort` and `filter`* are binaries; `Merger` models what a pipeline can tell
  apart: when they read, when they write, how they exit. `sort` inserts each line
  it reads where it belongs and emits them at end of file.
* *A cell of `FileBlocks`* is a byte of a data block and a pointer of an indirect
  block at once: block size and pointers per block coincide. What is checked, the
  index arithmetic and the order of writes, does not depend on their ratio. The
  bytes written to a file are all different, so that a misplaced one shows.
* *Allocation in `FileBlocks`* is setting the bit and zeroing the block in one
  step; the block is not reachable before a later action links it.
* *`GroupMetadata`* takes a group descriptor table as one value; the inode table
  of a group is one block. Counters are unsigned of `Width16` and `Width32`.
* *`MergeTree`* has one time for mtime, ctime and atime, which the code treats
  alike, and one owner for mode, uid, gid and flags, which it copies together.
  A name has one kind in all images (see [7](#7-what-is-not-modelled)).

## 3 What TLC checks

Every property of a passing run has a mutant (a definition marked `Mutant:` next
to the one it replaces) under which TLC finds it violated.

| run | instance | properties | shows |
|---|---|---|---|
| `crossroad_rules` | 3 cars, one of them twice; 2+2 lanes with priorities 2 1 / 1 2, so that lanes outrank each other both ways and tie; every route | `TypeOK` `NoCollision` `Bookkeeping` `NoLostWakeup` `NeverDeadlocks` `ImplementsRules` `RoutesComplete` | no interleaving, spurious wakeups included, breaks a rule of the grader, corrupts the books or parks a car for ever |
| `crossroad_last_ticket` | 2 cars, `UINT_MAX = 2` | `NeverDeadlocks` violated | finding 1 |
| `intersection_rules` | 3 cars, 5 arrivals | `NeverGridlocked` `EqualPriorityIsFIFO` | the rules themselves never block, and comparing heads is enough for first come, first served |
| `atomics_wakeups` | 3 cars, one of them twice; 2+1 lanes; `Max_car = 3` | `NoCollision` `Bookkeeping` `ConditionsNotShared` `NoLostWakeup` `NeverDeadlocks` `RoutesComplete` | tickets drawn outside the monitor, at any moment of a scan, neither let cars collide nor leave anybody asleep |
| `parser_trees` | every text of up to 7 lines out of 17; at most 2 chains and 2 operators | `AcceptsTheGrammar` `NodesOwnedOnce` `TreeIsRunnable` | the recursion agrees with counting, frees each node once on every path, returns what `Merger` assumes |
| `merger_in_order` | an operator chain and a sub-merger of two chains, the last operator cannot be executed; pipes of one line; an empty file and one of four lines, one of which looks like a status | `MergedInOrder` `StatusesComplete` `NoZombies` `NoStrayDescriptors` `Terminates` | output is deterministic; every descriptor is closed where it must be; SIGPIPE and early exits hang or lose nothing |
| `merger_status_order` | the same tree, nothing broken | `StatusesInChainOrder` violated | finding 2 |
| `fileblocks_deep` | 1 file that starts as a hole, 1 directory; 1 direct pointer, 2 pointers per block, so that the ninth block of 17 bytes needs the triple indirect block; 20 blocks, so that they run out | `BlocksOwnedOnce` `WalkInOrder` `ImplementsContents` | no block is shared, what the disk or the running call points to is in use, every intermediate image reads as before or after the call |
| `metadata_consistent` | 3 groups, the last shorter and without backup, every starting bitmap | `CountersInSync` `ZeroedAreData` `DoneIsConsistent` `CountersTrailTheBitmaps` | counters follow bitmaps; blocks handed out are data; all copies agree at the end; wherever the program stops, the disk hides no free space |
| `metadata_past_end` | two full groups and block 0 | `ImageKeepsItsSize` violated | finding 3 |
| `direntries_listing` | an old directory with every slack, used or deleted record, and a new one; names of 1, 4 and 9 bytes in any order; up to 3 blocks of 52 bytes | `RecordsTile` `ListedOnce` `ImplementsDirectory` `EveryEntryIsListed` | records always tile the block, no entry is hidden, lost or doubled |
| `mergetree_union` | all triples of trees of a root with a file F and a directory D, in D a file G and a directory S; G absent, as before, touched, longer, earlier, later or of equal time; in 34 of them the program is stopped up to twice and started again | `BaseIsKept` `MergedIsUnion` `TreeIsSound` `MetadataIsMerged` `TagsTellTheMerge` `MergeEnds` | the result is the union, also after stops; printed tags tell what the merge does |

Why the bounds are enough to be interesting: in `crossroad_rules` three cars are
one inside, one waiting across and one waiting behind or beside it, and the car
with two trips comes back while others still wait; theorems cover any number
(section 5). `UINT_MAX` and `INT_MAX` are 100 and 10 where they must not matter, and
`StdioBuffer` is 170, of which the trees here use two. In
`atomics_wakeups` `Max_car` is the number of cars, the least that may do, and
tickets go beyond it, so that conditions are used again. Seven lines are enough
for sub-mergers three deep and for one line too few or too many at every level.
Two pipes of one line
each hold less than any chain is fed, so every writer blocks in some behaviour.
In `fileblocks_deep` every border between two levels of indirection is crossed
by the file and by the directory, and the disk fills up in the middle of calls,
where `exit(1)` leaves the image as it is. In `metadata_consistent` each group is
full, partly full and empty in some start. In `mergetree_union` every
combination of the three existence flags, of both comparisons of times and of
new and old parents occurs; with seven inodes, stops make the image run out of
them.

`MetadataIsMerged` and `TagsTellTheMerge` speak of merges that were not stopped.
After a stop a second run takes what the first one registered for entries of the
base: contents still converge (`MergedIsUnion`), but their owner and mode stay
those that `merge_entry()` started them with.

Deadlock is checked for both crossroad controllers. The merger's runs, the abstract rules and the Hw3
runs say `CHECK_DEADLOCK FALSE` because these programs end (or a log may end);
that they end, and only when they are done, is the property `Terminates` of `Merger` and
`MergeEnds` of `MergeTree`.

## 4 Fairness

* `Crossroad`: weak fairness for each thread, separately for arriving, for
  rechecking after a signal, and for leaving. The `usleep()` calls end, and the
  scheduler and the mutex let a thread that stays ready run eventually. None is
  assumed of spurious wakeups: no car is saved by one.
* `CrossroadAtomics`: the same for each action of a thread, the log calls and
  the scan included. A thread that wants the mutex is enabled only while it is
  free; weak fairness is enough because every route ends.
* `Intersection`: a car that the rules keep admitting enters, a car inside
  leaves (`EveryoneGoes`). `ImplementsRules` shows that the controller provides it.
* `Merger`: weak fairness for each process: the kernel runs what is not blocked.
* `FileBlocks`, `MergeTree`: one thread, weak fairness of its next step. A kill
  is not fair. `GroupMetadata`, `DirEntries`, `MergerParser` have no liveness property.

## 5 What is proved

With TLAPS. For `Crossroad` and its rules, any finite set of cars, any lanes and
priorities, any routes and any ticket width:

| theorem | statement |
|---|---|
| `TypeCorrect` | `Spec => []TypeOK` |
| `MutualExclusion` | `Spec => []NoCollision` |
| `BookkeepingHolds`, `WakeupsAreNotLost`, `DeadlockFreedom` | `Spec /\ []TicketsSuffice => []Bookkeeping`, `[]NoLostWakeup`, `[]NeverDeadlocks` |
| `ImplementsRulesSafely` | `Spec /\ []TicketsSuffice => Rules!Safety`: no log is ever flagged |
| `RulesTypeCorrect`, `RulesNeverBlock`, `RulesAreFair` | the rules are well typed, never block, and are first come, first served between crossing lanes of one priority |

and for `CrossroadAtomics`, any cars, lanes, priorities and widths,
`Spec /\ []TicketsSuffice => []P`, where its own `TicketsSuffice` says that no lane has
given more than `INT_MAX` tickets:

| theorem of `CrossroadAtomicsProofs` | P |
|---|---|
| `MutualExclusion` | `NoCollision` |
| `BookkeepingHolds` | `Bookkeeping`: each outstanding ticket of a lane is held by exactly one car |
| `ConditionsSuffice` | `ConditionsNotShared` |
| `WakeupsAreNotLost` | `NoLostWakeup` |
| `DeadlockFreedom` | `NeverDeadlocks`: unless all have finished, some car can take a step (`CanStep`, the guards of its actions) |

For `Merger`, any tree in which no merger has more operators than its stdio buffer holds
lines (`BufferAssumption`), any file, pipes of any capacity, any operators that cannot be
started:

| theorem | statement |
|---|---|
| `ChildrenAreReaped` | `Spec => []NoZombies` |
| `NoDescriptorLeaks` | `Spec => []NoStrayDescriptors` |
| `StatusesAreComplete` | `Spec => []StatusesComplete` |
| `LinesMergedInOrder` (in `MergerLinesProofs`, on top of `MergerProofs`) | `Spec => []MergedInOrder` |

For `GroupMetadata`, any geometry, any bitmaps, any set of backup groups that has
the first one, provided that `GroupsAgree`, `Spec => []P`:

| theorem of `GroupMetadataProofs` | P |
|---|---|
| `CountersFollow` | `CountersInSync` |
| `OnlyDataIsZeroed` | `ZeroedAreData` |
| `StopsAreSafe` | `CountersTrailTheBitmaps` |
| `FlushCompletes` | `DoneIsConsistent` |

For `FileBlocks`, any number of files and directories, any block size, number of direct
pointers and sizes to start with, from an image in which none of them has a data block
yet (each file is empty or one hole):

| theorem of `FileBlocksProofs` | statement |
|---|---|
| `Inductive` | `Spec => []IInv` |
| `BlocksAreOwnedOnce` | `Spec => []BlocksOwnedOnce` |
| `ImplementsContentsSafely` | `Spec => Contents!Safety`: `ImplementsContents` but for its fairness |

For `DirEntries`, any directories, names, inodes, block size and number of blocks; a
directory is new or starts as one block of three old records: `.`, a `..` with any slack
behind it, and one named `OldName` that is in use or deleted:

| theorem of `DirEntriesProofs` | statement |
|---|---|
| `DirectoriesAreSound` | `Spec => []Inv` |
| `RecordsAlwaysTile` | `Spec => []RecordsTile` |
| `NamesAreListedOnce` | `Spec => []ListedOnce` |
| `WritesAreListed` | `Spec => EveryEntryIsListed` |
| `ImplementsDirectories` | `Spec => ImplementsDirectory` |

For `MergeTree`, any three images that are trees, any number of stops:

| theorem of `MergeTreeProofs` | statement |
|---|---|
| `TreesAreSound` | `Spec => []Inv` |
| `BaseIsNeverLost` | `Spec => []BaseIsKept` |
| `MergedTreeIsSound` | `Spec => []TreeIsSound` |
| `MergeIsUnion` | `Spec => []MergedIsUnion` |
| `TimesAndOwnersAreMerged` | `Spec => []MetadataIsMerged` |
| `TagsAreTrue` | `Spec => []TagsTellTheMerge` |

Assumptions about the crossroads: those the modules name (`LaneAssumption`, that priorities are ints
whose range is one too, as the constructors compute it; `CarAssumption`), and
`TicketsSuffice`, that fewer than `UINT_MAX` tickets were given. The last one is
needed: finding 1 is what happens without it. Type correctness and mutual
exclusion do not need it, a wrapped ticket changes the order and no more. The
`TicketsSuffice` of `CrossroadAtomics` is needed by all five of its theorems: with a
ticket above `INT_MAX` a car may go `"astray"` with the mutex, and then nobody can step.
Its `CarAssumption` also says that a car with a trip to make has a lane to make it on.
`BufferAssumption` is what keeps a status whole on its way through a merger (section 2).
`MergerAssumption` says that the tree is what the parser returns: no sub-merger
belongs to two chains, each is reached from the root, there are finitely many, and a
chain has a sub-merger or an operator; and that a file is a list of lines of text. `GroupsAgree`
says that `main()` counts the groups that the image has; finding 3 is what
happens where it does not. `GeometryAssumption` is what `mkfs` guarantees: there
are blocks behind the metadata of group 0, groups are longer than their metadata,
counters are wide enough for one group and for all. `FileBlocksAssumption`: no file
grows past what the triple indirect block reaches, appends are not empty
(`append_to_file()` returns at once if they are), and `None` is no job. For
`DirEntries`: inodes are not 0, names have 1 to 255 bytes, `.` and `..` are two names
of one and two bytes, blocks are a multiple of four bytes below 64 KiB and large
enough for any one name (`InodesAssumption`, `NamesAssumption`,
`BlockSizeAssumption`, `NamesFit`).
`MergeTreeAssumption`: in the images an entry leads to an inode in use, not to the
root, and a directory has its names in one directory, as `fsck` wants it.
`BasesAreTidy` says that the base has no hard
links and no name twice in a directory, that `..` leads back, and that only
directories have entries. Link counts in the base may be anything, the tree that a
merge leaves has them right. `BranchesAgree` says what it means that the branches are
made from the base by adding to it: a path is a file in all images that have it or a
directory in all; what has the modification time it has in the base has its bytes
too, and no time of a branch is 0, which is what `merge_entry()` gives an inode it has
made; and no path is longer than `MaxDepth`. `TreesAreSound` and `BaseIsNeverLost`
need neither, `MergedTreeIsSound` needs `BasesAreTidy`, the other three need both.

The argument for `Crossroad`. `NoCollision` alone is not inductive: a car is let in by
`active_dir` and `is_occupied`, so `InsideInv` = `Types` and `InsideMatches` and
`NoCollision` carries that these agree with where the threads are; the counter is
the cardinality of the set of cars inside, so it is 0 exactly when nobody is.
`NoLostWakeup` needs more: `OrderInv` = `InsideInv`, `QueuesMatch`, `NoLostWakeup`
adds that the heaps are the sets of waiting cars under distinct tickets not above
`global_time`. A step may make the loop condition of a sleeping car false only by
`GetOut`: entering a car and new arrivals keep sleepers blocked (`StillBlocked`,
`HigherMonotone`), and after an exit either the intersection is empty and a
sleeper that could go is the head of a lane of the strongest direction, which is
notified (`FindFacts`, `StrongestGoes`), or cars are inside and only the lane
that became free matters. `DeadlockFreedom` follows: if all unfinished cars
slept, nobody would be inside, and the head that nobody outranks would have a
false loop condition. The last part of `CrossroadProofs` maps each action to the A, E,
A+E or X event it logs, or to a stutter.

For `CrossroadAtomics` the inductive invariant `Inv` is kept by every step that ends with
`TicketsSuffice`: tickets then fit an `int`, a draw does not wrap and nobody is astray
(`TicketsFit`, `DrawEffect`, `ServeEffect`, `MutexHeld`). It has `QueuesMatch` (the
outstanding tickets of a lane are an interval and are held one to one, hence
fewer than `Max_car + 1`, hence different modulo `Max_car`), `InsideMatches`,
`NoLostWakeup` and `SearchMatches`: while a car scans, nobody is inside, and if a
lane passed by is claimed, its head is awake, since whoever claimed it has to wait
for the mutex. That is what saves a stronger car that appears behind the back of
`find_highest_pri()`: it will test for itself. `DeadlockFreedom` wants an action that is
enabled, so besides it is shown that a scan always has a next lane or a last one
(`SearchGoesOn`), and that a car that drives has a trip left and hence a lane
(`TripsMatch`).

For `Merger` the inductive invariant `Inv` says of each merger what it holds open
at each place of its code (`MergerInv`: the ends it keeps of the chains it has
started, and, while it forks the stages of a chain, all ends of that chain), and of
each child that it is unborn until its merger has come to it (`NotForked`), that it
starts with exactly what its merger held at that moment, holds what it uses once
it runs, and is reaped as soon as its merger is past the `waitpid()` for it
(`Waited`). A sub-merger is merger and child at once; that these two views are of
one process, and of no other, is what `StageFacts` is for. A merger exits only
behind its last chain, where all its children are `Waited`. The actions come in five
kinds, each with a lemma of its own: data moves (`DataStep`), a process exits
(`ExitStep`), an operator or feeder goes on (`LeafStep`), a merger goes on
(`MergerMoves`), forks (`ForkStep`) or reaps (`ReapStep`).

`StatusesComplete` speaks of the output only, and of lines that were elsewhere
before: `Flow` is inductive together with `Inv`. It has a place (`store`) for each
stdio buffer, pipe, list of `per_chain_exit_statuses` and the output, and
`Reported` says that from the `waitpid()` for an operator on its report is in
exactly one of them, once (`OneReport`), and before that in none. A step puts a
line into a place, takes one out, or passes one on (`ReportedAdd`, `ReportedTake`,
`ReportedPass`); only `ReapOperator` makes a report (`ReportedReap`). `Contents`
says which places can hold a report at all: the output pipe of a sub-merger can,
the pipes between feeders and operators carry data only, because a stage that runs
writes where `Plumbing` says. `StatusesLast` says that the root prints none before
it has drained all its chains. `Emptied` says that nothing is left behind: at end
of file on the output of a sub-merger it has ended (`EndOfSub`: the only process
that ever holds that write end and was forked by then), an ended process writes no
more, and a merger exits with its buffer flushed and its lists passed on. When the
root has ended all mergers have, since all are reached from it (`AllReaped`), all
places but the output are empty of reports, and the one report is in the output.

`MergedInOrder` says that the program is deterministic, although its processes are not:
which of them runs, where a pipe is full, and who is killed by SIGPIPE, is open. The
prefix alone says nothing of what is still on its way. `LinesKept` says that at every
moment there are an assignment `owes`, of the lines that each writer has still to write
to its pipe, and `coming`, of the lines that the reader of each pipe will still see
(`Coming`: those in the pipe, then those owed), for which the books of every process
balance. A feeder owes what it has not written of its interval (`FeederOwes`). An
operator owes what it holds back for writing, then what it will make of what is coming
to it: a filter the lines that pass, `sort` all that it has read and will read, sorted
(`Yields`, `OperatorOwes`). A sub-merger's file, as far as it has read it, with what is
coming from its feeder is the interval of its parent's file (`SubReads`). A merger owes
what is coming from its chains, the plain lines from the chain that it is at, and
behind them those that look like a status, from its lists and from its chains
(`Owed`); for the root, what it has printed and what it owes are `MergedOutput`
(`MergerOwes`). Each line then moves from one term of one equation to the next: a write
from what is owed to what is in the pipe (`ComingWrite`), a read from `coming` to the
reader's books (`ComingRead`), and all other books are about other pipes
(`StepKept`, `MovesKept`). At the end nothing is coming, and the output is all of it.

Lines that are lost on purpose make this hard. An operator that cannot be started
kills its upstream by SIGPIPE, after some of its lines or none, and what these would
have written reaches nobody; so the books are kept of pipes only behind which no
operator fails (`Reaches`). On such a pipe a writer must not be killed (`NotKilled`),
and a reader must not be at end of file before the writer has ended (`AtEndNothing`).
The first needs that a pipe has a reader as long as it is written to
(`OutputHasReader`, `StageHasReader`), the second that the merger holds the write end
until the feeder is forked (`MergerHolds`): both come from `Inv`, which knows every
descriptor, and from `Ready`, also inductive.

What `MergedOutput` is, for any tree and any file, is recursion: over the lines of a
list (`Selected`, `Sorted`), the operators of a chain (`Through`), the tree downwards
(`FileOf`) and upwards (`OutputOf`). The prover takes no induction scheme, so
induction is about sets of numbers, sequences or mergers (`NumbersInduction`,
`LinesInduction`, `TreeInduction`, `LeavesInduction`), and that each recursive function
is what its equation says is shown by building one that is (`RecursionExists`,
`TreeRecursion`, `JoinExists`). That the tree has leaves, so that the upward recursion
starts anywhere, follows from its being finite (`DepthsExist`).

For `GroupMetadata`, `CountersInSync` alone is not inductive: setting a bit in one
bitmap must leave every other bitmap alone, a counter must not wrap, and zeroing a
block must not hit a bitmap, a table or the super block. So `Inv` adds that the bits
of the metadata of each group are set from the start (`MetadataMarked`), hence never
handed out, that directories are in use (`DirsMarked`), and in which group a zeroed
block lies (`ZeroedInGroups`). Groups are at least five blocks apart, so that their
bitmaps and tables are different blocks. The flush needs `FlushInv`: `DiskInv`, that
the primary super block and table on the disk are earlier states of those in memory
and nothing else was written over them, and `Progress`, which copies are already
the final ones at each step of the flush and each round of the backup loop.

For `FileBlocks`, `BlocksOwnedOnce` is about the pointers that the program knows,
of which those in the copy of an inode are not on the disk yet, and of the disk: what
an inode there points to, a call in progress points to as well, so it is in use and is
nobody else's, also after a kill. The converse does not hold and is not claimed: the
blocks that an interrupted call had allocated stay marked and hang nowhere. The part about
the disk follows from `ReadInv` below. The property is not inductive: nothing in it says that the block a call is about to hang is empty, that
the place is free, or that a directory has no block behind its end, where
`add_dir_entry()` allocates without looking. `IInv` is `TypeInv`, `OwnedInv` (the
same as `BlocksOwnedOnce`, but of a disk and of roots as values: `Sound`), `JobInv`
(what the call has in hand at each step: `LinkInv` the indirect block it stands in,
`HeldInv` the block it writes to) and `DirInv`. What carries the proof are lemmas on
trees: distinct indices have distinct paths (`PathShape`, `PathInjective`: `IndexOf`
gives the index back); a property of the root slots that passes from each place to
the places below holds of all (`PlaceInduction`, by cases on the four depths); a new
row for a block that no pointer is read from changes no tree (`LeafChange`); and
storing a zeroed block that hangs nowhere at an empty place changes that place and
no other (`PutChanges`, `PutSound`). The last one is why `allocate_block()` zeroes what it
hands out before anything points to it: with another row every place below would
change too. `AllocateBlock` takes `Min(Free)`, whose existence is `MinIsIn`.

The refinement needs `ReadInv` as well. The inode on the disk and its copy share
indirect blocks, so the disk inode gets pointers to the new blocks while a call runs
(`Part`, `PutPart`); nothing is seen of it, because they lie behind its size or are
zero where there was a hole (`PutReads`), and because an append writes cells behind
the old end only (`WriteReads`). `WriteInode` and `FillBlock` are the steps that
change what is read (`InodeServes`, `FillServed`), all others stutter (`QuietReads`).

For `DirEntries`, the properties speak of `Walk`, which is recursive, and the prover
has no induction. `Inv` has `Tiles` instead, which speaks of no walk: a set of offsets,
at each of which stands a record with room for its name (`IsRecord`), whose length leads to another of the set or to
the end, with none in between. Such a set is not disturbed by what is written behind its end
(`TilesStay`), a record put at its end makes it longer (`PutTiles`), and its last
record may be cut down to what its name needs (`CutTiles`): `add_dir_entry()` is a cut and a
put (`SplitGains`), `write_dot_entries()` two puts (`DotEntries`), a new block one
(`FreshBlock`). `WalkIs` is where the two meet: if a block is tiled, the walk is the set.
From any
offset of the set on, the walk is what the set has from there on, shown for the
offset nearest to the end where it would not be. That the recursive
function is what its equation says is `WalkFunction`: `Comes`, the intersection of
all sets that are closed under the lengths, satisfies it (`ComesFrom`). What a
step does to one block (`Gains`: one place more, all others read as before) passes to the directory
(`BlockGains`, `BlockComes`), where `IsDir` says that no name has two places, and to the list
of entries (`ListsBecome`), which is the refinement.

For `MergeTree`, `BaseIsKept` speaks of paths, and it is not inductive: what keeps a
path is that no inode of the base is taken, changed in kind or given a second entry
of a name, and that depends on what the recursion believes. A call looks a child up
in the listing (`base_entries`) that it took before it visited the first one, and by
then its directory has more entries. `FrameInv` says that the listing is still true
of the names that are not visited yet; `LinkInv` that the name a call is about is
visited, that it is not in the directory of the caller before `register` and is there
afterwards, and that an inode just taken has no entry. That a directory is on the
stack once (`StackInv`) is why a new entry disturbs no call but the caller
(`RegisterStep`); it holds because `Sound` gives a directory one parent, so that a
child already on the stack would have the same caller twice (`VisitStep`). `Kept`
says of each inode of the base that its bytes are a prefix and its names lead where
they led; only three kinds of change happen to an image, and each keeps `Sound` and
`Kept`: nothing that a name depends on (`QuietIsSound`), an inode is taken
(`TakeIsSound`), an entry is added (`RegisterIsSound`). From `Kept` to whole paths is an
induction along the path, done by the least place where it fails (`LeastNat`,
`PathIsKept`), which needs no induction scheme; `WalkFunction` shows in the same way
that the recursive function `Walk` is what its equation says.

`TreeIsSound`, `MergedIsUnion` and `MetadataIsMerged` speak of the moment when a merge is
done and need more, because a run
that was stopped leaves inodes whose links nobody counted, directories whose
count is old, files with a part of their bytes. `TidyInv` says that the base stays
tidy (`TakeIsTidy`, `RegisterIsTidy`, `QuietIsTidy`). The rest is one induction used
three times. Given a set `right` of the inodes at which all is done, `Covers` says of a
set `todo` of inodes: every inode in use that is not in it is in `right`, or a call on it is
in progress, which will do it; and an inode in `todo` is named only by directories
in it, or by an entry that a call in progress has not come to yet. At the start it
is the whole image; a call that is entered takes its inode out (`VisitTidy`), because
an entry and the lookup of its name tell the same in a tidy image (`EntryIsFound`);
a stop puts back the inodes that calls were in progress on (`StopTidy`), each of
which is named by its caller alone; and when a call ends, no name of its directory
is left (`NothingIsLeft`), so nothing of `todo` hangs on it (`FinalizeTidy`). `TidyStep`
puts this together for any `right` that a step `Carries`, and that the end of a call
adds its inode to. When the merge is done nothing is in progress, the root is not in
`todo`, and so no path leads into it (`PathsStayIn`): `NothingIsToDo` gives that every
inode with a path is in `right`.

For `TreeIsSound`, `right` is `Linked`, the inodes with the right links. What was
counted stays right, because a directory grows only while a call on it is in progress
(`LinksAreCarried`). `SubdirsOfPath` makes a count of
names out of the count of entries by a bijection, and `PathsAreDistinct` says that
paths to the same inode are the same, by the shortest pair that is not.

For `MergedIsUnion`, `right` is `Settled`: the file has its merged bytes, the directory
has each name that a branch has. `UnionInv` says that whatever the base has at a path
has merged bytes, or is untouched since the old base, or made and no more, which is
what a stopped run may leave (`NodeInv`); that each call works on one path in all three
images (`WorksOn`), which is why the bytes it appends are those of its path; and that
the names it has visited are in its directory, but for the one that is in the making
(`VisitedAreMade`). `DataMerges` is the restart: what is merged or untouched becomes
merged, once, because `build_mod_file_diff()` takes only the bytes behind the end of what is there. An entry makes exactly one path more, since the directory just
made is empty (`RegisteredPaths`, `RegisterMakes`). When all is settled, a path of a
branch is a path of the merged tree by induction along it (`AllPaths`, again by the
least length).

For `MetadataIsMerged`, `right` is `Dated`, and `MetadataInv` says of each path of a merge that
was not stopped that its time and owner are the final ones, or the old ones, or that
the inode is new and a call in progress on it knows so (`was_in_base` is false), which
is where the owner comes from. `LatestIs` and `FinalizeDates` say that the maximum that
`merge_entry()` computes from the three slots is the latest time of the path. The tags
need no induction over the walk: they are printed while the base is still the old one,
so `TagOfOld` compares `compute_tag()` with what a branch gives (`BranchGives`), and
`TagsInv` keeps it.

Model-checked only: liveness (`RoutesComplete`, the fairness half of
`ImplementsRules` and of `ImplementsContents`, `Terminates`, `MergeEnds`), which the prover cannot treat;
`WalkInOrder`, which compares walks that flatten and filter lists of pointers with the
lookup of one index: it asks for the lemmas on sequences of `MergerLinesProofs` and an induction
over the levels of indirection on top of them, and has not been done; all of `MergerParser`.

## 6 Where the code and its documents disagree

1. `crossroad_last_ticket` (code). `find_highest_pri()` starts at `(unsigned)-1`
   and wants a smaller ticket: the head that drew `UINT_MAX` is never notified.
2. `merger_status_order` (comment). "strict chain order" of the EXIT-STATUS lines
   fails when stdout is not a terminal: the merger's own lines wait in the stdio
   buffer while those of a later sub-merger are written at once.
3. `metadata_past_end` (code). `main()` rounds `block_count / blocks_per_group`
   up, although the groups start at `first_data_block`. An image of 1024-byte
   blocks with `block_count = 1 + n * blocks_per_group` is taken to have a group
   more, with a zero descriptor: its bitmap is block 0, blocks behind the end can
   be allocated, and `write_backups()` writes there.

Noticed as well, not kept as runs: the README says that a higher-priority lane
always goes first, but a parallel lane does not count for
`is_higher_car_waiting()`; that only cars that can move are notified when the
intersection drains, but heads that a crossing lane outranks are woken too and
sleep again; and that `write_backups()` skips group 0, which the code writes,
over the boot area when blocks are larger than 1024 bytes.

## 7 What is not modelled

* Formatted output (`hw2_output.c`, `ext2fs_print.c`, the print loops), reading of
  testcases and arguments: no state of their own.
* `main.c`, the C twin of `main.cpp`; `merger_skeleton.cpp`, an older version of `merger.cpp`
  that copied statuses with the data; the binaries of Hw1
  other than by what `Merger` assumes of them; `hw3_grader.py`, `tree.py`.
* That `CrossroadAtomics` implements `Intersection`: it does not. E and X are logged
  outside the monitor, so that the next E can be logged before the X that made it
  possible, and lanes of equal priority are not served in the order of arrival.
* Characters: `|` inside a quoted value, which `parse_chain_line()` takes for the
  end of an operator; lines longer than the buffers; `print_merger_tree()`.
* Mergers with more operators than the stdio buffer holds lines; what a thread does
  after it has used a condition before the start of the array (`"astray"`).
* That blocks which an interrupted call allocated and never linked are found again: the
  program has nothing that would, and no property says so.
* A `start_line` below 1, which the parser lets pass and `write_interval()` uses
  as an index.
* The insides of `monitor.h`: used through the semantics of mutex and condition.
* In `MergeTree`, a name that is a file in one image and a directory in another:
  the images are made from one base by adding to it.
* Failing `read()`/`write()` in `hw3.cpp`: they exit, which is `Stop` in
  `MergeTree`.
* Blocks of 64 KiB, whose record length 65536 is 0 in 16 bits.

## 8 Plan

Done: everything in section 2. What would come next:

1. `WalkInOrder` and, for `MergerParser`, `NodesOwnedOnce` as theorems; the second
   needs what every activation on the stack holds.
2. `Monitor`: lock, wait and notify step by step, and that the atomic sections of
   `Crossroad` are sound for it.
