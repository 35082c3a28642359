# Verification of the CS35L programs

The repository holds one student's work for a course on software construction:
ten directories `assignment_1` .. `assignment_10`, most of them with a `lab` and
a `homework`. Nearly all of its 11,700 files are three unpacked copies of GNU
coreutils. The student's programs that have a logic of their own are few, and
this directory models them: a script that orders the commits of a Git
repository, the word sorters `sfrob` and `sfrobu`, `shuf.py`, the random byte
generators `randall` and `randmain`, the two `tr` exercises, the shell script
`poornames.sh`, and the corrected comparison of times in the lab on `ls -t`. Of
coreutils 8.29 (`assignment_3/lab/coreutils-8.29`) it models the three programs
where most can go wrong in an order nobody tests: `tsort`, `timeout`, and
`sort` with its threads and its temporary files.

Every definition is translated from the source lines that `PROJECT.json`
("map") names. Paths below are relative to `src/`.

## 1. Inventory

| Component (source) | State | Operations | Hard behaviour | What makes it correct |
|---|---|---|---|---|
| `topo_order_commits.py`, the search (`assignment_9/homework/`, lines 128-143) | the working directory | one step up; found; exit | `.git` may be a file; `/` is never looked at | stops at the innermost repository |
| the same, reading branches and objects (17-49) | lists of names listed but not opened; `dict_of_parent_hashes`, `dict_of_branch_hashes`, `list_of_hashes` | every `listdir`, every `open` | git changes the repository between a listing and an opening | the table holds every commit of every branch it read; fails only for a reason |
| the same, ordering and printing (51-126) | `stack`, `has_visited`, `nodes`, the roots, `ordered_commits`, the output | one iteration of each loop | edges to visited parents are dropped; heads that are roots; missing hashes | heads come out, children before parents, breaks in pairs, dies exactly when it must |
| git, external | objects, fan-out directories, branches, locks, packs | writing an object, updating and deleting a branch, gc | renames and temporary files | - |
| `sfrob.c` (`assignment_4/homework/`) | the word being read, the list of words | getc, qsort with `frobcmp`, putchar | signed char, NUL, unterminated last word, reads behind a word | prints the words of its input, sorted |
| `sfrobu.c` (`assignment_5/homework/`) | the same, a buffer, the option | fstat, read, write | the file changes after fstat; pipes; a loop that does not notice the end | as sfrob |
| `shuf.py` (`assignment_3/homework/`) | the arguments, range, count, the lines of the file, the lines printed | three openings of the file, the checks, the two loops | the file changes in between; loops that never find a line | prints as many lines as asked, of the range |
| `randall.c`, `randmain.c` and the `randlib*` (`assignment_6/homework/`) | bytes to do, stdout's buffer, `output_errno`, library and stream | dlopen/dlsym, writebytes, fclose, destructors | a device that fails at any write; errors that are found late | status 0 only if all is out, no hole in the output, nothing left open |
| `tr2b.c`, `tr2u.c` (`assignment_5/lab/`) | the argument table, the input | read and write of one character | the end of input in a char, a negative index | writes the translation of its input |
| `poornames.sh` (`assignment_2/homework/`) | `~/output.txt`, shared by all runs | chmod, cd, six filters that append, `sed -i`, `sort \| uniq -u`, `rm` | overlapping runs, kills, leftovers | prints badly named files only; leaves no file |
| `timespec_cmp` and `cmp_mtime` (`assignment_4/lab/`, before and after `lab4.diff`) | two files | one comparison | a difference that does not fit an int | a total order by time |
| `tsort.c` (coreutils 8.29) | the items in a balanced tree, with `count`, `top` and `qlink`; the queue; `loop`, `n_strings` | reading a pair, the walks of the tree (count, scan, search for a loop), writing an item and erasing its relations | `qlink` is the queue and the trail of a search in turn; the scan starts again after each loop | writes everything once, in an order all relations agree with but those of loops |
| `timeout.c` (coreutils 8.29) | `timed_out`, `term_signal`, `monitored_pid`, `kill_after`; the mask, the timer, pending signals, the stack of handlers | fork, settimeout, block_cleanup_and_chld, waitpid, sigsuspend; cleanup | handlers that nest and share the globals; signals between any two calls | signals only its command, does not leave it behind, ends |
| `sort.c` (coreutils 8.29), threads | the merge tree with its nodes, the queue, a lock per node, the array of lines and the temporary space | sortlines, sequential_sort, queue_insert, queue_pop, mergelines_node, queue_check_insert, join | what is read without a lock; leaves that sort in their parents' space; threads that cannot be created | a stable sort; every thread gets the end |
| `sort.c`, temporary files and merging | `temphead`, the `files` and `ntemps`, `in`, `out`, descriptors | create_temp_file, zaptemp, merge, avoid_trashing_input, mergefiles, exit_cleanup, the handler | signals and errors between any two of them; too few descriptors; the output is an input | leaves no file; loses, repeats and reorders nothing |
| everything else | - | - | - | *not modelled*, see section 8 |

The parts interact little. `topo_order_commits.py` is one process whose halves
share three dictionaries and lists, and which shares the repository on disk with
git. `randmain` calls into a library it loads. Runs of `poornames.sh` share one
file. `sfrobu`, `shuf.py` and `topo_order_commits.py` read files that others may
change. `timeout` and `sort` share their globals with their signal handlers, and
`timeout` its fate with a child process. The threads of `sort` share the merge
tree, its queue and the lines; they are the only threads here.

`PROJECT.json` ("hazards") lists what a test of these programs would hardly
reach, each at its line, with the properties that cover it.

## 2. The modules

### The commits of a repository

| Module | What it is |
|---|---|
| `FindGitRepo` | `find_git_repo()`. A directory is its depth below `/`. `Find`, `GoUp`, `GiveUp` are the three things an iteration of the loop can do. |
| `GitRepository` | Git, external: `repo` is what is on disk, as far as a system call of the script can tell. An object is created under a temporary name, completed and renamed; a branch is locked, the lock written and renamed, or the branch deleted; `PackBranch`, `PackObjects`, `PruneObject`, `RemoveDirectory` are gc. `original` and `happened` are history variables. |
| `CommitLoader` | Lines 17-49. A `listdir` fills `refsTodo`, `dirsTodo` or `filesTodo` (`ListRefs`, `ListObjects`, `ListFiles`); every opening takes one entry off, in any order (`ReadRef`, `ReadFile`), or raises (`RefsError`, `ObjectsError`). git may act between any two of them. Decompression, decoding and the regular expression are kept as what they accept and return: also a "parent ..." that is only mentioned in a message becomes a parent. |
| `CommitOrder` | Lines 51-126. `StartWalk`, `Descend`, `Retreat`, `EndWalk` are the first walk (one iteration of `while stack`, with the edge it records and the early `break`); `StartOrdering`, `Climb`, `Emit` the second; `PrintCommit` the printing; `NoBranchError`, `UnknownHashError`, `NoNodeError` the exceptions. The two uses of the name `commits` (a set, then a stack) are `rootsFound` and `commits`. |
| `TopoSort` | The abstract specification: a graph is recorded; then commits are put out, each once and after all its recorded children. `CommitOrder!RefinesTopoSort` is the refinement. |
| `TopoOrderCommits` | The whole script: `FindGitRepo`, `CommitLoader` and `CommitOrder` share `dictOfParentHashes`, `heads` and `listOfHashes`. |
| `CommitOrderProofs`, `ScriptProofs` | The proofs (section 6). `CommitOrder` ends with the inductive invariant `IndInv`, which a run checks too. |

Dictionaries are functions. `dict_of_branch_hashes` is the pair of sequences
`names` and `heads`. Hashes are numbers because the script sorts them.

### The word sorters

| Module | What it is |
|---|---|
| `Frobnication` | What both programs share: `frobcmp` with its skipping of NULs (one recursive function over the pairs of places in both words, with the outcome `Overrun` when it reads behind a word), `unfrobChar`, the search for the missing last space, and qsort. |
| `SortedWords` | The abstract specification: print, in any order among equals, the least word that is left; then succeed; or fail on the way. |
| `Sfrob` | `sfrob.c`. `AddChar`, `SkipSpace`, `NewWord`, `EndOfFile` are the branches of the reading loop. |
| `Sfrobu` | `sfrobu.c`. `Stat` and `Fill` are fstat and the one read of a regular file, `FirstOfBuffer` and `FirstOverPointer` the first character, then the same loop over buffer and file; `SpinAtEnd` is the inner loop that does not notice the end. `FileShrinks` and `FileGrows` are another program. |
| `FilterProofs` | The proofs about both, and about `tr2b`, `tr2u` and `poornames.sh` (section 6). |

A character is its byte. What undefined behaviour can do is a choice: a read
behind a word ends in the outcome `overrun`; whether the byte behind a word looks
like a space is a choice; the character that `sfrobu` reads over the pointer
`myWord` either is the byte that was there or makes realloc abort.

### The others

| Module | What it is |
|---|---|
| `Shuf` | `shuf.py`: `Open`, `GetRange` (with `file_length`), `GetCount`, `Read` are its four looks at the file or the arguments, `Choose` a line printed by the inner loop, `EndRound` an iteration of the outer one. `FileChanges` is another program. |
| `RandLoop` | What `randall` and `randmain` share: the argument, `writebytes`, the buffer of stdio (external) and how errors reach the exit status. |
| `RandMain`, `RandAll` | The two programs around it: the library that is loaded, found, and unloaded with its destructor; the function pointers. `MCRandom` joins them and `Shuf`; it has the files, ranges and counts of `Shuf` as constants. |
| `RandomOutput` | The abstract specification of both: a growing prefix of the wanted output; status 0 only when it is complete. |
| `RandomProofs` | The proofs about all three (section 6). |
| `Tr2`, `Tr2b`, `Tr2u` | The check of the arguments and the table; the two loops. |
| `PoorNames` | Any number of runs of `poornames.sh`: `run[r]` is a run's state, `home` the shared file as a bag of lines. `Open` and `AppendListed` are one filter (the shell opens the file, then the listing is appended); `SedReads` and `SedRenames` are `sed -i`, after which whoever has the old file open writes to nowhere (`Detached`). `Kill` is a signal. `FilterProofs` has the proofs. |
| `Timespec` | `timespec_cmp` as it was and as the patch makes it, and `cmp_mtime` on top. An int has `2 * Half` values. `Comparisons` is its specification: any two files are compared, and then the other way round. |

### Programs of coreutils

| Module | What it is |
|---|---|
| `Tsort` | `tsort()` and what it calls. `ReadFirst`, `RecordRelation`, `OddNumberOfTokens` read the tokens; `CountItems` is the first walk; `Scan` and `EndScan` look for items without a predecessor, one item a step; `Output`, `EraseRelation`, `RemoveFromQueue` are the loop over the queue; `StartTrail`, `ExtendTrail`, `Pass`, `BreakLoop` are the four things `detect_loop` does with an item, joined in `Detect`. A successor of the list `top` is the position of the token that named it. |
| `SearchTree` | `search_item`: Knuth's balanced tree, with the pivot, both rotations and the balance factors. `MCTsort` runs it beside `Tsort`: each token read goes through it. |
| `TotalOrder` | The abstract specification of `tsort`: record relations; write an item once all before it are written; drop a relation only if it is on a cycle. |
| `Timeout` | The monitor from `fork` to its exit status (`Fork`, `SetMonitoredPid`, `StartTimer`, `BlockCleanupAndChld`, `Waitpid`, `Return`), with `handlers`, the stack of activations of `cleanup`, which `Deliver` adds to; `Cleanup` to `HandlerReturns` are the steps of the topmost. `sigsuspend` is the place "suspend", where the mask is another. `Expire` are the two timers, `ChildTakes`, `ChildExits`, `ChildStops` the command, `UserSends` anybody else. |
| `ParallelSort` | The sort of one buffer. A thread is named after the node of the merge tree it starts with; the nodes are numbered as in a heap. `CreateThread` and `SortSequentially` are `sortlines`; `QueuePop`, `LockNode` and `QueuePopClears` the queue, `MergeBoth` .. `Publish` one merge at a node, in the order of its reads and writes; `CheckSelf`, `CheckParent`, `UnlockNode` what follows; `Join` the end. A line is the place it came from, and compares by its key. |
| `SequentialSort` | `sequential_sort` and `mergelines`, as functions over the array. |
| `StableSort` | The abstract specification of both: lines come out by key, equal ones in the order they came in; with `-u` the first of each key. |
| `SortMerge` | `CreateTemp`, `LinkTemp` (create_temp_file), `SortBuffer`, `WriteBuffer` (`sort`), `FullMerge`, `ShortMerge`, `EndPass` (the passes of `merge`), `Avoid` (avoid_trashing_input), `MergeToOutput`, `CloseOne`, `EndRetreat` (the loop that opens as many files as it can), `MergeFiles`, `UnlinkTemp`, `UnlistTemp`, `EndMerge` (mergefiles, mergefps, zaptemp). `Fail` is any call that fails, `Signal` a signal that is handled. The content of a file is the sequence of the given files whose lines it has. |
| `TsortProofs`, `TimeProofs`, `ParallelSortProofs`, `SortMergeProofs` | The proofs (section 6); those in `TimeProofs` are about `Timeout` and about `Timespec`. |

A module with the prefix `MC` gives the constants their values. `MCFilters`,
`MCRandom`, `MCText` (the programs of `MCFilters`, or `PoorNames`) and `MCSorting`
(`SortMerge` or `Timespec`) each run one of several programs that share no
state, chosen in the initial state; `MCScript` restricts the combinations of repository and search.
These also hold the specification that is run.

## 3. The runs

| Run | Question | Bounds | Distinct states |
|---|---|---|---|
| `order` | do the walks, the ordering and the printing keep their properties, and is the invariant of the proofs one? | every acyclic history of 4 commits with at most 2 parents each; every acyclic table over 3 of them that may miss some; lists of up to 2 heads | 378,912 |
| `script` | the whole script on repositories of every kind, while git works | 3 directory levels with `.git` missing, a file or a directory; 6 small histories with each choice of 2 branches or none; nested branches, packs, commits that are not UTF-8, mentions; 2 steps of git; and one branch on 2 commits, a third that may be written, 6 steps of git | 1,121,037 |
| `random` | randmain and randall: is the output without holes, and status 0 never wrong? shuf: does it print what was asked, and when does it get stuck? | up to 12 bytes in words of 3, a buffer of 4 characters; files of up to 3 lines, two of which may be equal, 9 ranges, 7 counts, with and without `-r`, one change of the file, 5 lines printed | 46,694 |
| `text` | tr2b and tr2u: what do they really write? sfrob and sfrobu: do they print what SortedWords promises, and when not? poornames.sh: what do overlapping and killed runs print and leave? | tr2: arguments of up to 2 characters, every input of up to 4 of 5 characters, two above 127; sfrob: every text of up to 5 of NUL, space, 72, 200, 255; sfrobu: every text of up to 4 of space, 72, 200, file or pipe, three command lines, one change of the file; poornames.sh: 2 runs, 9 command lines, directories that cannot be read or entered, a link, a file | 558,676 |
| `sorting` | does sort leave temporary files, or lose, repeat or reorder anything? ls: does the comparison order files by time? | sort: up to 7 files or buffers; or 5, one of them given three times; any one of them the output; nmerge of 2 to 4; any number of files that open; any call failing; a signal at any moment; ls: an int of 4 bits, 9 seconds on both sides of what fits, 8 nanoseconds, 2 names | 50,441 |
| `tsort` | does tsort write everything in order, break loops only, and end; and does its tree keep what it is given? | every input of up to 5 tokens of 4 and of 6 tokens of 3; every sequence of 4 different relations between 4 items; 7 strings in any order | 508,879 |
| `timeout` | whom does the monitor signal, can it leave the command behind, does it end? | every combination of the options, `--preserve-status` among them; ALRM and TERM inherited as blocked or not; a command that survives all signals but KILL, or none; one signal from others at any moment | 1,429,670 |
| `psort` | do the threads together sort, without losing a node or a line, and end? and `sequential_sort`? | 7 lines with keys of 3 values, with and without `-u`; 3 threads, of which any may fail to start, 3 levels of the tree; shares of 2, 1 and 2 lines a merge; arrays of up to 6 lines | 637,540 |
| `tr2_as_described` | violation, section 7 | one pair of characters, inputs of up to 2 characters | |
| `poornames_iff` | violation, section 7 | one run, in a directory where some filter lists every badly named file | |
| `last_of_equal_lines` | violation, section 7 | four lines with `-u`, two of them equal, 2 threads | |
| `timeout_kill` | violation, section 7 | as `timeout`, TERM only | |

Why the bounds are enough. *Histories:* the loss of edges needs a commit with
two children under one head and a merge above them, which is four commits; two
heads are needed for what one walk leaves to the next, and for two names on one
commit; missing hashes need one commit less. *Git:* a write followed by a branch
update is six steps, the longest story the order of reading has to survive; each
error needs at most two. *Texts:* the defects of the readers depend on two
neighbouring words and the spaces around them; two words, a double space and a
first or last space fit in four characters, five leave room for a NUL. *Bytes:*
twelve bytes are four words, so the buffer of four characters fills in the
middle of a word, at its end and behind the newline. *shuf:* three lines allow a
range that is neither all nor one. *Runs:* two runs share the file; a third adds
no new kind of interference. *Seconds:* differences of -18 to 18 cover each
residue of an int of four bits. *Tokens:* four relations make two loops, or a
loop that the search enters from outside, with items behind it that are free
only once it is broken; seven strings, in every order, make both rotations at
the root and below it. *Signals:* one signal beside the two timers makes the
handler nest in each of its places. *Threads:* three threads are the least that
make a node that is neither leaf nor root, and a thread that works at nodes of
both its sides; shares of one and two lines let every merge end by its share and
by its lines. *Files:* with nmerge 2, seven files take three passes with full
and short merges; with 4, one pass that leaves files alone.

Every property has a mutant in `PROJECT.json`: a definition of the model changed
as a plausible bug would change the code, for which TLC finds the property
violated. The operators that such a mutant uses (`VisitedKept`,
`UnemittedLeast`, `LastButOne`, ...) stand before the definition they would
replace.

No run checks deadlock: each runs programs that end. Where one gets stuck for
good a property says when (`Stops`, `Ends`, `SortEnds`, `Finishes`,
`Terminates`, `StuckOnlyOverDuplicates`).

### The properties

*Order* (`CommitOrder`): `HeadsEmitted` every branch head is put out though
edges are dropped; `StickyLinesPaired` two lines without a break are child and
parent, and breaks are pairs; `CrashesExactlyIfDoomed` which inputs end in an
exception, both ways; `RefinesTopoSort`; `IndInv`.

*Reading and the whole script* (`CommitLoader`, `FindGitRepo`,
`TopoOrderCommits`): `TableCoversHeads` without gc, every commit of every branch
read is in the table; `ErrorsHaveCauses` no error without a branch in a
subdirectory, a pack, a commit that is not UTF-8, or git at work; `DiesOnlyOf`
the exceptions of the second half, in terms of the repository, while git only
writes objects; `BranchesPrinted`; `FindsInnermost`; `Ends`.

*Filters* (`Sfrob`, `Sfrobu`, `Tr2b`, `Tr2u`, joined in `MCFilters`):
`PrintsTheWords` which words come out, for all texts; `OverrunsOnlyOf` which
texts make the program read behind a word; `ImplementsSortedWords` on the texts
where the program keeps its promise; `Stops`; `Translates` what the two `tr`
really write; `TranslatesEachCharacter`, violated, what they are said to write.

*Random* (`RandMain`, `RandLoop`, `Shuf`): `LeavesNothingOpen`; `KeepsPromise`,
the refinement of `RandomOutput`; `StuckOnlyOverDuplicates`,
`PrintsWhatWasAsked`.

*Shared file and times:* `PrintsWhatOneFilterLists`, `PrintsOnlyPoorNames`,
`LeavesNoFile` (`PoorNames`), and `PrintsThePoorNames`, violated; `SortsByTime`, `SortedNearTimes` (`Timespec`).

*tsort:* `EndsWithAll` everything is out once, and the status tells whether
there was a loop; `ImplementsTotalOrder`; `Terminates`; `TreeInOrder` (in
`MCTsort`) the tree holds what was read, in order and in balance.

*timeout:* `SignalsOnlyItsChild` no signal goes to a number that may belong to
another process; `LeavesNoChildBehind`; `Ends` says for which options the
monitor is sure to end; `KillsNoEarlier` is violated.

*sort:* `QueuedOnce` a node is in the queue or with one thread, and
nothing is behind MERGE_END; `SortsInOwnSpace` nobody else's lines are in the
space that a leaf sorts in; `ImplementsStableSort`; `SequentialSortSorts`;
`Finishes`; `LeavesNoTemporaryFile`; `KeepsEverythingInOrder` success means that
everything given is out, once, in order; `SortEnds` (in `MCSorting`; `Ends` of
`SortMerge`); `OnlyTheLastOfEqualLines`, violated.

## 4. Fairness

Only a program's own steps are weakly fair: a sequential program that can go on
does. In `ParallelSort` the steps of each thread are fair for themselves, as a
scheduler makes them; that a waiting thread wakes up for no reason is not. In
`Timeout` the monitor's steps, the expiry of a running timer, and the command's
taking a signal that it does not block are fair; that the command exits or stops
of itself is not, or there would be nothing to time out. Git, other programs
that change a file, failing calls and signals from others are not fair either,
they may never happen. `PoorNames`, `Timespec` and the programs in `random`
have no liveness property. In `Shuf` a step of the model is a line printed: the
draws of `random.choice` that print nothing are left out.

## 5. What the models assume

- A directory listing is atomic. Writing to standard output never fails in the
  Python scripts.
- A hash covers the hashes of the parents: histories have no cycle. A repository
  is sound: what a branch or a commit names is there (`RepositoryAssumption`,
  which also says that no fan-out directory is called `pack`).
- qsort returns some arrangement in which no word is greater than the next; with
  `-f` the comparison is no order, and any such arrangement may come out.
- `sfrobu`: the "hi!" that stdio flushes at exit, and files of 2 GB and more
  (whose size does not fit the int it is kept in), are left out.
- `poornames.sh`: a directory does not change while it is listed; the locale
  sorts names that differ in case next to each other; the two lines that tell of
  a missing slash are left out.
- `tr2b`, `tr2u`: the arguments are ASCII and there are two of them; writes
  succeed. `tr2b` compares `c` with EOF before it has a value: leaving the loop
  at once is an outcome of its own, of which nothing is said.
- `Timespec`: differences of seconds fit in a time_t.
- `Tsort`: reading does not fail; strings are positive numbers, in the order
  strcmp gives them; what is written to standard error is left out.
- `Timeout`: `timer_create` and `fork` succeed; INT, QUIT and HUP are handled as
  TERM is, which stands for them; USR1 stands for any other signal given with
  `-s`; a duration is only given or not; disabling core dumps is left out.
- `ParallelSort`: lines compare by a key. Which node of the queue is popped
  first is left open, so nothing depends on the heap. A node's `end_lo` or
  `end_hi` that is read without the lock while another thread writes it has the
  old or the new value; with the old one the read is as one that came before,
  since the writer looks at the node again under its lock. Shares, thread
  numbers and the least size of a split are constants.
- `SortMerge`: what lines compare equal is the worst case, so the order of whole
  files is kept; temporary files are not compressed; unlink succeeds; a signal
  is one that `sort` handles.

## 6. Proofs

`tlapm` proves the theorems of eight modules, for all values of the constants
under the named assumptions. `PROJECT.json` lists those a reader should know of.

**`CommitOrderProofs`** assumes that `Commit` is a finite set of numbers
(`CommitAssumption`), that tables map hashes to sequences of hashes without a
cycle (`HistoryAssumption`), and that head lists are sequences of hashes
(`HeadAssumption`). `Inductive` proves `IndInv`; the other theorems follow from
it. None of the properties is inductive by itself: that a head comes out at the
end is decided many loops before, by edges that an earlier walk recorded or did
not. So `IndInv` says
- `GraphInv`: edges are mirrored and real, and roots are roots;
- `BranchInv`: which heads are still to be walked;
- `WalkInv`: the walk has only touched ancestors of its head, and is closed
  under parents, so a finished walk has visited exactly the ancestors
  (`WalksVisitAncestry`);
- `AnchorInv`: each member of the walk's stack is a recorded child of the next,
  so when a root is marked the head hangs on it; finished heads are anchored;
- `StackInv` and `OrderInv`: the second stack is some roots and then a path of
  recorded edges; what is emitted is closed under recorded children. When the
  stack is empty, emitted = anchored (`EmitsTheAnchored`), and the heads are
  anchored (`EmitsTheHeads`).

`CrashesExactly` derives both directions of `CrashesExactlyIfDoomed`,
`ImplementsTopoSort` maps every step to a step of `TopoSort` or a stutter,
`TypeCorrect` is the type invariant and `EdgesAlwaysMirrored` the graph's.
`PairsStickyLines` needs one invariant more, `StickyInv`: any two neighbouring
lines of the output fit, and the last one is the end of a break if and only if
the next commit is not a recorded parent; since recorded edges are real, lines
without a break are child and parent.
`PrintsEachBranchOnce` takes `Accounted`: the lines with a commit are the
emitted ones so far, each once, and each has the names of its own branches; with
`HeadsEmitted` that gives every branch exactly one line.

**`ScriptProofs`** is about the whole script with git beside it, under
`HashAssumption`, `RepositoryAssumption` and `DepthAssumption`.
`AlwaysFindsInnermost` is an induction on the way up (`SearchInv`).
`AlwaysCoversHeads` rests on `CoverInv`: unless gc ran, every object that a
branch, a lock or a loose object names is loose or about to be renamed, in a
directory that exists (`DiskInv`); every head read is such a commit
(`HeadsInv`); and from the listing of the directories on there is a set of
commits, closed under parents and holding the heads, each of which is in the
table, among the listed files not opened yet, or in a directory not listed yet
(`ReadInv`). The set is chosen when the objects are listed, as all the commits
there are: what git writes later need not be covered, because the branches have
been read before. `AlwaysHasCauses` (`ErrorInv`) goes the other way: as long as
nothing in the list of causes has happened, what was listed can still be opened.

`AlwaysDiesOnlyOf` and `AlwaysPrintsBranches` are about the end of the script,
in terms of the repository at its beginning, and compose the two halves. The
second half is not proved again: `Core` is `CommitOrderProofs` itself, instanced
with the hashes of the repository as its commits, and its theorems apply once
its three assumptions do. That the table has no cycle is not an assumption here:
`RepositoryAssumption` says that no object covers itself (a hash would have to be
known before it is computed), for the objects that are there and, through
`GitRepository`, for those that git writes; `ObjectsInv` keeps that while git
works, and `TableInv` brings it to the table, also for the hashes that are only
mentioned. `BranchesInv` relates what was read of the branches to those there
were; `Originals` does it for commits, with a set that is chosen when the
branches have been listed, like the one of `CoverInv`. Their conjunction,
`ScriptInv`, is inductive (`AlwaysScriptInv`).

**`RandomProofs`** is about `randmain`, `randall` and `shuf.py`, whichever of
them is started (`MCSpec`), for any sizes of word and buffer above 0
(`SizeAssumption`), any argument, and any files, ranges and counts
(`ShufAssumption`: a range has two numbers without a sign, a count is a number).
- `AlwaysQuiet`, `AllLeaveNothingOpen`: before the library is loaded there is no
  stream, and the buffer is empty wherever the program can leave.
- `ImplementsPromise`: both implement `RandomOutput`, step by step. The invariant
  is `LoopHolds`: what is on the device and then what stdio holds is the beginning
  of what is wanted (`OutSoFar`), and the counter of bytes and the digits to go
  agree with the number of characters that are out: for some number `w` of whole
  words, `argument = w * WordSize + nbytes` (`LoopPlace`). It says nothing of the
  device once a write has failed but that it is a beginning, which is all
  that is true: stdio drops the rest of the buffer.
- `AlwaysPrintsWhatWasAsked` from `ShufInv`: every line printed is of the file or
  the range, without `-r` no line comes twice, and the number of lines to print is
  what the arguments said.
- `AlwaysStuckOnlyOverDuplicates` from the same by counting: if none of the lines
  that could be drawn may be printed any more, though fewer were printed than the
  count allows, two of them are equal.

**`FilterProofs`** is about the programs that filter their input. The five that
`MCFilters` and `PoorNames` run share it, but no invariant.

`tr2b` and `tr2u` (`ArgumentsAssumption`: the arguments are sequences of
characters; `BytesAssumption`: all that is read is bytes). `Tr2Inv` says that what
has been written is the translation of what has been read, but for what the
property says of the first and the last character; the lemma `TranslationOfAll`
lifts that from characters to sequences. `AlwaysTranslates` follows.

`sfrob` and `sfrobu` (`BytesAssumption`), for any text, any option and any
sequence of changes to the file. `WordsInv`, which is `SfrobInv` or `SfrobuInv`,
is about the part of the text that has been read:
- `ReadSo`: its closed words are in the list as often as they occur in it, and
  the characters behind its last space are in `myWord`. `ReadsChar`,
  `ReadsSpace` and `ReadsWord` say what one more character does to the words of a
  text, of any length;
- `LengthsSo`: `prevNumChars` is the length of the last closed word, so at the
  end of the input a space that is missing is taken for present only behind a
  last word that is not longer, or by a NUL (`FitSo`, `Whole`);
- `SortsSo` and `PrintedSo`: an arrangement has every word as often as the list
  had it, and what was printed and what was not make up that arrangement.

`AlwaysPrintsTheWords` and `AlwaysOverrunsOnlyOf` follow; the second needs that
`frobcmp` stays inside two words that have no NUL and end with a space
(`ComparesWithin`, by well-founded induction over the pairs of places). What
`sfrobu` reads is not its file: a file that has grown is read on, a first
character may be lost, a space that comes first hides the next. So its invariant
(`SfrobuKept`) is about the text which the consumed characters stand for; once
the file has shrunk, nothing is claimed, as in the properties.

`AlwaysImplementsSortedWords` maps every step of both to one of `SortedWords`, or
to none. qsort promises that no word compares greater than the next, in the eyes
of `frobcmp`, which need not be an order. The proof gives it one: `Below`
compares words by their keys, the value of a character up to the first space and
less than any value from there on (`Key`); `BelowCompares` says that `frobcmp`
finds the first difference, wherever in the words it is, `BelowSplits` that what
holds of neighbours holds at any distance (`SortOrders`), and `BeforeIsBelow` that
words whose plain texts are in the order of the dictionary are in this one. So a
sorted list is `Ordered`, and the first word not printed is a least one of those
left (`NextInOrder`). What a list must be for that is `Fine`: words without NUL
that end with a space, or that are beside others that begin with it only, where
every comparison ends at once. The latter is for texts that start with two
spaces: `sfrobu` takes both for the first word, so `prevNumChars` is not the length
that `LengthsSo` says (`LengthsKept`), and the proof need not settle what becomes
of the word behind it. So `KeptSo`, about a file that is as it was, is stronger
than `SfrobuKept` where a text starts with spaces (`KeptReads`), and needs the
condition of the promise that a space does not come first alone; `OrderedInv`
joins it with `SfrobOrder`.

`poornames.sh` (`ListingAssumption`: listings are of names).
`Answered` strengthens
`LeavesNoFile`: if there is a file, some run is past its creation and before its
`rm`, or was killed; so whoever ends last removes it. `HasPoorLines` strengthens
`PrintsOnlyPoorNames`: every line of the shared file, of what a `sed` holds and
of what a run prints names a file that breaks a guideline, in the directory some
run has entered. `HasItAlone` strengthens `PrintsWhatOneFilterLists`: as long as a run
is alone, the copies of a line in its file are the filters among those it has
run that list the name, before the `sed` without the directory and after it with
it; so `uniq -u` leaves the names with one. The theorem has the hypothesis
that `NoFile`, the model's value for a file that is not there, is not itself the
content of a file.

**`TsortProofs`** assumes a finite set of positive numbers and inputs over it
(`ItemAssumption`, `InputAssumption`). `AlwaysSorting` proves `SortInv`. Its
parts say what `qlink` means in each phase: in the sort it links the items of
one queue, which all have count 0, are not written, and follow each other from
`head` without repetition (`HeadInv`, `LinkInv`), and what is not scanned yet is
not in it (`WalkInv`); in the search it is a trail of listed relations that ends
at `loop` (`TrailInv`). "Follows from head" is stated by closed sets, without
recursion. A count is the cardinality of the relations that are still open
(`CountInv`). With it `AlwaysImplementsTotalOrder`: an item in the queue has
no open relation, and a relation that is erased in the search closes the trail,
so it is on a cycle. `AlwaysAccounting` proves `EndInv`: nothing is lost from the lists
without a loop (`ReadingInv`), relations agree with the order of the output
(`OrderInv`), `n_strings` is the number of items not written (`NumberInv`),
every item without a predecessor is queued or still to be scanned (`QueuedInv`),
and a loop is reported only if there is one (`LoopInv`). The last one takes a
ranking of an acyclic input to the least item not written, which would have
count 0. `AlwaysEndsWithAll` follows.

**`TimeProofs`**, for `Timeout` (`OptionsAssumption`, `SignalsAssumption`):
`SafeInv`. KILL
replaces the signal only with `-k` (`KillInv`); from `block_cleanup_and_chld` on
every signal that has the handler is blocked but within sigsuspend
(`BlockedInv`), but for the one case the property excepts; so no activation of
`cleanup` is left when the command has been waited for (`ReapedInv`);
`LeftInv` is `LeavesNoChildBehind`. For `Timespec` (`WidthAssumption`):
`AlwaysSortsByTime` for the corrected comparison and `AlwaysSortedNearTimes` for
the old one. The lemma `IntKeepsSmall` says that a number that fits an int is
kept by the conversion.

**`ParallelSortProofs`** is about any number of lines and threads, any share of
lines in a merge, any threads that cannot be created, and any order in which
nodes are popped (`SizeAssumption`, `EnoughLines`, `CaseAssumption`; and
`MergeAssumption`, that the share of a level is a number). It begins with what
the recursive functions over the tree are: the numbers of threads and lines, the
places and the levels of the nodes, and that the lines of two children are those
of the parent. `AlwaysAgreeing` is `SortInv`:
- `TreeInv`: which nodes have a thread, and that a leaf not sorted yet belongs to
  one thread and is as it was made;
- `LockInv`: who is in a merge holds the node's lock;
- `CountInv`: what a node has sent and what it has left add up to its lines, at
  every place inside a merge, also where `nlo` and `dest` have not been
  written yet (`Left`, `Sent`), and the parent has taken no more than was
  published (`Taken`, `Dest`);
- `QueueInv`: a node in the queue, or popped and waited for, is there once and has
  lines left; `EndInv`: MERGE_END is inserted by the one merge that leaves the
  root without lines, so it is in one place; `StartInv`: a node does not start
  before its children.

`AlwaysQueuedOnce` follows. `AlwaysSortsInOwnSpace` needs one thing more, that
what is not sorted yet below a node has not been merged above it, which
`StartInv` passes up the tree.

`AlwaysImplementsStableSort` maps every step to one of `StableSort`, or to none:
the line that the root merges is the one a stable sort of the whole buffer
writes next. That depends on the memory of all threads, so `SortInv` gets a
second half, `OrderInv`:
- `LeafInv`: the two halves of a leaf that has been sorted are in order
  (`SortedRanked`: each line of what `SortedCells` chooses is where as many others
  come before it);
- `SentInv`: what a node has sent is the beginning of its sorted lines
  (`Prefix`), and is exactly what it has taken from its children (`Gone`),
  whether or not it has been published;
- `CutInv`: what it has taken comes before everything it has not;
- `OutInv`: what the root has taken is out, but for the lines that `-u` drops
  (`Wanted`), and the last line out is the last in order.

The next line of a node is found among those read (`NextLine`): the ones that
come before it on its own side have been taken, and on the other side, either
that side's next line is not less, or nothing is left there, in which case all
of its lines have been taken, as a prefix of full length is everything
(`PrefixFull`). That a line being stored disturbs nothing else needs the places
that nodes merge to and sort in to be apart, for every shape of the tree: two
nodes of one level have different lines (`LevelApart`), arrays of two levels do not
overlap (`RegionsApart`), and a leaf's temporary space is not where anything has
been sent (`SpaceApart`, from `SortInv`).

**`SortMergeProofs`**: for `AlwaysLeavesNoTemporaryFile`, `SafeInv`: every
temporary file on disk is in the list, except the one just created, during whose
creation signals are blocked. For `AlwaysKeepsEverythingInOrder`, `MergeInv`:
the contents of the files that are still to be read (`Live`: in a pass, those
that were made and those that were not reached), one after the other, are what was
given (`ContentInv`). That a merge of a window, a copy of the output file, or
giving up some files that do not open keeps this, is shown for concatenations
of any length by lemmas about `Contents`; `CountInv` says which files are
temporary, `SameInv` that the output is read only as its copy, `WindowInv` what
is open, and `TempInv` that a file that is being made is none of them.

**Only model-checked.** Out of the provers' reach: liveness (`Ends`, `SortEnds`,
`Finishes`, `Stops`, `Terminates`); `TreeInOrder` and `SequentialSortSorts`, which are about
recursive operators. Every other property of a passing run
is proved.

## 7. Where documentation and code disagree

Four runs end in a violation:

- `tr2_as_described`: tr2b is said to get each character with `getchar` and put
  it, replaced by the corresponding one if it is in `from`
  (`assignment_5/lab/lab.txt:32-36`), tr2u to do it "in the same way" (`:41`),
  and to have "worked perfectly" (`:43`; `:54` for both). In the trace tr2b is
  given an empty input and writes one character: the loop of `tr2b.c:25-27`
  writes what `getchar` returned before it looks for EOF. tr2u reads a first
  character that it never writes. `Translates`, which passes and is proved, says
  exactly how both differ from the description.
- `poornames_iff`: a file is to be listed "if and only if" its name breaks a
  guideline (`assignment_2/site_html.txt:190`). The run is about one program
  alone, in a directory where some filter lists each badly named file; `uniq -u`
  (`poornames.sh:52`) drops the names that two filters list, as one that starts
  with a dash and has a character that is not allowed. Besides, and not needed
  for the violation, a name like `...` breaks a guideline and is listed by no
  filter (`poornames.sh:46-48`).
- `last_of_equal_lines`: "only the last of a sequence of equal lines will be
  output" (comment at `sort.c:361-362`). `write_unique` (`sort.c:3420-3430`)
  writes a line when it differs from the last one written, so it is the first, as
  the usage (`sort.c:509`, "output only the first of an equal run") and the
  comment at `sort.c:2994` say and `ImplementsStableSort` shows.
- `timeout_kill`: with `-k`, KILL is to be sent "this long after the initial
  signal was sent" (usage, `timeout.c:253-255`). If the initial signal is one
  that `timeout` itself was sent, the first timer goes on, and when it expires
  the handler finds `term_signal` already replaced and sends KILL
  (`timeout.c:189-195`).

More, which the passing properties state as the code has it:

- `shuf.py:54`, "all input lines are output" by default: without `-r` a line
  that was printed is never printed again, also if it is in the file twice, and
  the inner loop then goes on for ever (`StuckOnlyOverDuplicates`). "Output at
  most count lines": `-n 0` is taken for no count (`PrintsWhatWasAsked`).
- `site_html.txt:179`, `:181`, `:176`: no operand should mean the working
  directory (it is `/`), two operands should fail (the second is ignored), a
  symbolic link is an error (a slash is added, and so it is followed).
- `sfrobu.c:28`: `frobcmp` returns 0 if a = b, and so on; with `-f` two words
  that differ in case only are each less than the other.
- `coreutils-with-bug/lib/timespec.h:43`: the old `timespec_cmp` returns the sign
  of A - B; with times 2^31 seconds apart it does not. The lab's patch corrects
  it (`SortedNearTimes`, `SortsByTime`).
- `timeout.c:224`: the branch for a `monitored_pid` of 0 is for "the child or the
  child is not exec'd yet"; a signal that comes after `fork` has returned to the
  parent and before the number is stored also takes it, and leaves the command
  running (`LeavesNoChildBehind`).
- `timeout.c:382-383`: the signals of `cleanup` are blocked so that none goes to
  a process number that was given away; the one given with `-s` is not among
  them if `cleanup` has replaced `term_signal` before (`SignalsOnlyItsChild`).
- `timeout.c:253`: with `-s ALRM -k`, ALRM is ignored since it was sent to the
  group, and the KILL that is to follow never comes (`Ends`).
- `lib/heap.c:121` and `sort.c:3335`: `compare_nodes` returns 0 or 1, while the
  heap looks for negative values; which node is popped is not always that of the
  lowest level. `ParallelSort` leaves it open, and nothing is lost by it.

## 8. Not modelled

`poornamesr.sh`, a second script of the same filters: what it shares with
`poornames.sh`, and what that leads to, is what `PoorNames` models; its own
`find` and second file are not. Earlier versions of the scripts (`p2.sh`,
`p3.sh`, files with `~`); `buildwords` (one pipeline of text filters);
`randline.py` (an example `shuf.py` replaces); copies of the sorters in
`tester`; `simpgmp.c` (all of its work is GMP's); the patches to diffutils
(which is not here); HTML exercises, keys, logs and slides (nothing runs). The
random numbers are not modelled, only how many come out.

Of `sort`: compression of temporary files by another program, `-m -c`, how keys
are found and compared, how lines are merged within `mergefps`, and how large
the buffers are. Of `tsort` and `timeout`: messages, and errors of output.

Of coreutils, everything else: the repository has three copies of the package,
some 2,000 files, and no code of its own for them. They are why the modelled
lines are a small share of all. Most of its programs are one loop over files or
characters around calls of the system; gnulib's regular expressions, printing
and date parsing are libraries of data conversions, where a model would repeat
the code.

## 9. Plan

Done, in this order: the commit script (`CommitOrder` first, then its proofs,
the reading, the composition), the sorters, `shuf`, the random generators,
`tr2`, `poornames`, the comparison of times; then `tsort`, `timeout`, the threads
and the temporary files of `sort`, with proofs of the whole script, `tsort`,
`timeout`, the threads and `SortMerge`, the random generators and the filters. What would come next:

1. *Model.* `cp`, `mv` and `rm` where they walk a file system that changes;
   `dd`, `split` and `tail -f`; the compression of temporary files in `sort`.
2. *Prove.* What the recursive operators compute (`TreeInOrder`,
   `SequentialSortSorts`), once restated as recursive functions.
