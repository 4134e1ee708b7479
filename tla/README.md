# A verification of dlmalloc (Detry322/dlmalloc)

The repository is a `malloc` package in the style of Doug Lea's allocator
(`mymalloc/allocator.c`), with the driver that validates and scores it on traces,
timing code, a tuner that searches for the best compile-time parameters, and
`clint.py`, a style checker. This directory holds TLA+ modules that model them, TLC
configurations that check them on small instances, and proofs, checked by TLAPS,
that the main invariants hold for every value of the constants, and that the
allocator implements what its validator asks of it.

Paths below are relative to `src/mymalloc/` unless they begin with `src/`.

## 1. The system

| Component | State | Operations | Talks to |
|---|---|---|---|
| **Chunks and boundary tags** (`allocator_helper.h`) | two words before the payload of each chunk: `previous_size`, and `current_size` with the flags CURRENT_INUSE and PREVIOUS_INUSE in its low bits | cut (`split_chunk`, `split_mallocd_chunk`), combine, mark used or free, walk to the next or previous chunk | shared memory with the client: `previous_size` is the last word of the chunk below while that is in use |
| **Bins** (`allocator.c:156-469`, `581-624`) | `bins[64]`: a circular list per small size, a bitwise tree per half power of two with a circle of equal sizes at each node, one circle of huge chunks | `insert_chunk`, `remove_chunk`, `find_best_chunk` and the loops of the searches | links live inside the free chunks |
| **Allocator** (`allocator.c:471-1010`) | the heap, the bins, the victim (`bins[1]`) and the end of heap (`bins[0]`), between calls of one client | `my_init`, `my_malloc`, `my_free`, `my_realloc` and the helpers they dispatch to | `mem_sbrk`; called by the driver through `allocator_interface.h` |
| **Simulated memory** (`memlib.c`) | the break in one fixed block of memory | `mem_sbrk`, `mem_reset_brk`, `mem_heap_lo`, `mem_heap_hi` | called by allocator, validator, driver |
| **Heap checker** (`my_checker.c`) | none | `my_check`: walks the heap and the bins and asserts | reads everything above |
| **Trace validator** (`validator.h`) | the range list of the payloads a trace holds | `add_range`, `remove_range`, `eval_mm_valid` | calls a package, checks each result |
| **Driver** (`mdriver.c`) | traces, per-trace results | evaluates each trace for validity, utilization and speed, initializing the package before each evaluation | validator, memory, timing |
| **Tuner** (`opentuner_run.py`, `opentuner_params.py`) | best score, make command and run command, under a lock; the binary `./mdriver` in the working directory | `run` (clean, build, run, compare, replace the best), `save_final_config` | OpenTuner calls it, from several threads; it runs `make` and `mdriver` |
| **Style checker** (`src/clint.py`) | options and counts (`_cpplint_state`), suppressions of one file, and per file: cleared comments, function being counted, stack of classes, section of includes | `ParseArguments`, `ProcessFile` and its phases, one check after the other per line | the files named, stderr, the headers of the file's own module |
| **Timing** (`clock.c`, `fcyc.c`, `fsecs.c`, `ftimer.c`) | cycle-counter snapshot; sorted array of the K best samples | start/get counter; sample until the K best agree | called by the driver |
| **Other packages** (`bad_allocator.c`, `libc_allocator.c`) | a bump pointer; none | the same interface | memory; the C library |
| `src/test_real` | – | a sample program's build | – |

### What is hard

The allocator is sequential and nothing is persisted, so there is no
interleaving, no crash, no message and no timeout in it. What makes it hard is
the *protocol of calls*: a chunk is described redundantly (by its own header, by
the header above it, by the end-of-heap and victim pointers and by its bin), each
handler updates a different part of the description, and a part left behind is
only noticed several calls later.

* **Stale tags.** `previous_size` belongs to the client while the chunk below is
  in use, so it must be written again at every free, cut and combination and
  must never be read while PREVIOUS_INUSE is set. `split_chunk` and
  `split_mallocd_chunk` do not touch the flag above the remainder; their callers
  must make up for it or live with it.
* **Victim and end of heap.** Both are free chunks outside the bins. A neighbour
  that swallows one of them has to move or clear the pointer.
* **realloc in place.** Five routes, each with its own sums over two or three
  chunks, each cutting the leftover.
* **Links in the payload.** Removing the inner node of a tree promotes a leaf,
  with its list of equal sizes, to its place; removing the head of a list hands
  its tree links to the next chunk. A link that is left behind points into a
  block of the client.
* **Searches that look at little.** A tree search follows one path and must still
  find a fit, and an exact one, if the bin has any.
* **Exhaustion.** `mem_sbrk` may refuse. The handlers must then have changed
  nothing; `realloc` first falls back to malloc and free.
* **Boundaries.** A cut must leave room for a header and a smallest chunk; the
  searches are bounded by two counters and an array length; the tuner changes
  `EXTENSION_SIZE` and the search bounds at will.
* **Re-initialization.** The driver calls `my_init` again for each evaluation in
  the same process, and `my_init` resets one of the 64 pointers.

The **tuner** is the concurrent part: several calls of `run` build and run the
same `./mdriver` in the same directory, and replace three fields together under
one lock; builds and runs fail or time out and return early.

**`clint.py`** is sequential, and hard where it carries state from one option,
line or file to the next: suppressions that must not outlive their file, counts
kept apart from what is printed, a loop over comments that clears what it reads,
a line count that runs into declarations and macros, braces judged by a
parenthesis or a statement some lines away, a stack of classes popped by braces
that belong to something else, an automaton over the order of includes, and a loop
over a dictionary's keys.

`PROJECT.json` lists each hazard at its line with the properties that cover it.

### What correctness means, by component

* Tags: cutting and combining preserve a tiling of the heap; a tag that is acted
  upon is true.
* Bins: every free chunk is in exactly one place, the one its size selects; the
  links lead to it; searches keep their promise.
* Allocator: a block is the client's alone, at least as large as asked for, until
  it is given back; coalescing is complete; a failing call changes nothing.
* Checker: its assertions hold after every call.
* Validator: the range-list checks are what a package promises; the allocator
  implements them.
* Driver: one evaluation does not influence the next.
* Tuner: the saved configuration is the one that got the best score, no result is
  lost, tuning ends.
* Style checker: what is printed, counted and returned as the exit status agree;
  each stateful check judges a file as the style guide would, whatever comes
  before the place it judges.

## 2. The modules

| Module | Models | How |
|---|---|---|
| `BoundaryTags` | `allocator_helper.h` and the cutting, combining and marking steps of `allocator.c` | a heap is a function from chunk addresses to headers `[size, cur, prev, prevSize]`; the operators return the next heap. It also states what makes such a function a heap (`HeapInv`) |
| `Allocator` | bins as sets, searches, `my_malloc`, `my_free`, `my_realloc`, `my_init`, and a client that frees and resizes blocks it holds | one operator per function of the C file, returning the *set of outcomes* `[arena, chunk]`; the empty set is the result NULL. One action per entry point and per failure of it |
| `CircularBin` | circular lists: `insert_small_chunk`, `remove_small_chunk`, the huge bin and its searches | a memory is a record of pointer fields; an operator returns the memory after the statements it stands for, in their order |
| `TreeBin` | the trees of large chunks: `insert_large_chunk`, `remove_large_chunk` with the promotion of a leaf, the path searches | extends the memory by parent, children and shift; a loop is a step that is repeated as often as there are chunks (`Loop`) |
| `Powers` | `1 << k` and `2**k` | a recursive function, so that proofs can reason about it; used by `TreeBin` and `FunctionLengths` |
| `Bins` | `insert_chunk`, `remove_chunk` and the client that overwrites every link of a chunk it is given | composes the two; one action to file a chunk, one to take it out |
| `BinSets` | what the bins promise: sets of chunks, each in the bin of its size | the view `Allocator` has of them; no pointers |
| `MyChecker` | the walk of `my_check` | one predicate, one conjunct per assertion |
| `RangeList` | `validator.h` read as a specification: which pointers may a package return | its actions are `Alloc`, `Realloc`, `Free`; no trace of any allocator's data structures |
| `Refinement` | composes the allocator and the validator | `Allocator` implements `RangeList`, with the payload extents of its blocks as the range list and the break as the top of the heap |
| `Driver` | the evaluations of one process | adds re-initialization, after a trace that freed everything and after one that was abandoned at its first NULL |
| `Tuner` | `MdriverTuner` | one program counter per call of `run`, one action per statement another call can see; the lock; `make` and `mdriver` by their outcomes, failures and timeouts included |
| `LintSession` | `clint.py` from the command line to the exit status: options, filters, files, phases of a file, NOLINT comments, counts | what the stateless checks find on a line is an input |
| `LintFile` | `ProcessFileData`: clearing comments, the lines, the end of the file | composes the modules below, each with its own variables, over the sketches of the lines |
| `CleansedLines` | what `CleansedLines` leaves of a line: `lines` with its strings, `elided` without | the tokens of a sketch; a brace or semicolon in a string is a token of its own, which only a check that reads `lines` takes for one |
| `CommentRanges` | `RemoveMultiLineComments` and the functions it calls | one action per iteration of its loop |
| `FunctionLengths` | `CheckForFunctionLengths`, `_FunctionState` | per line |
| `BraceChecks` | `CheckBraces`, `CloseExpression`, `GetPreviousNonBlankLine` | per line; the loop over previous lines is one action per iteration, the failure of `CloseExpression` an action of its own |
| `ClassState` | `_ClassInfo`, `_ClassState`, and the checks that use them: virtual destructors, section spacing, unfinished classes | per line; a sequence is the stack |
| `IncludeOrder` | `CheckIncludeLine`, `_ClassifyInclude`, `_IncludeState` | per line; a header is its path, its rank in the alphabet and what the classification asks of it |
| `IncludeWhatYouUse` | `CheckForIncludeWhatYouUse`, `FilesBelongToSameModule`, `UpdateIncludeState` | the keys of the dictionary are taken in any order |
| `MCBins`, `MCLintSession`, `MCLintFile` | – | values of constants for TLC |
| `HeapProofs`, `AllocatorProofs`, `DriverProofs`, `BinsProofs`, `TunerProofs`, `LintSessionProofs`, `LintFileProofs`, `InductionLemmas` | – | the proofs, see section 5 |

**State of the allocator.** `arena` is the allocator's memory: `heap`, the
pointers `end` (`bins[0]`), `victim` (`bins[1]`), `bins` and `brk`. `live` maps
the chunks the client holds to the number of bytes it asked for. Addresses and
chunk sizes are counted in words of 8 bytes, the size of `size_int` and the
alignment, so there are no low bits to mask; requests are in bytes and pass
through `Request` (`ALIGN` and the minimum). A header that a neighbour swallows
leaves the domain of `heap`, so an operator that reads a stale header is an error
TLC reports and a fact the proofs cannot use. The word `previous_size` becomes
`CLOBBERED` when the client may have written it.

**Two views of the bins.** In `Allocator` a bin is the set of its chunks, and
which of several chunks a search returns is a free choice among those it may
reach (the smallest where the code looks for the best fit, any one where it takes
the first). `Bins` has the pointers. Its run shows that the pointers implement the
sets (`ImplementsBinSets`) and that the searches return what `Allocator` lets them
return (`SearchesFind`), so the first view loses nothing. There, sizes are in
bytes, as the trees go by the bits of the size.

**State of the tuner.** `pc` is where each call of `run` is; `mdriver` the
configuration the binary was last built with, `measured` the one a call really
ran; `best` has the three fields of the class, which are assigned one after the
other.

**State of `clint.py`.** In `LintSession` `lint` is `_cpplint_state`,
`suppressions` is `_error_suppressions` and `pc` is where `main` and
`ProcessFile` are; `messages`, `reported`, `nolints` and `guardless` record what
an observer has seen. A category is the sequence of the pieces of its name, so
that prefix matching is real. In `LintFile` a line is a *sketch*: a member of a
small set of line forms, named by an example of the form, that differ in what the
checks see in them (a brace, the beginning of a comment, of a function or of a
class, an include). `Tokens` gives what is left of it without comments; a line about which the order of its parentheses, braces and semicolons
matters is given by its tokens. `Profiles` chooses which forms a file mixes.

**Other abstractions.** Payload contents are not modelled, only which words
belong to whom. `FAST_LOG2` (a bit scan) is defined by what it computes. The array
index of a bin is kept where the code's order of bins matters. Sizes are natural
numbers.

**Slips.** A definition whose comment begins with "As" or "A slip", placed before
the operator it resembles, is a plausible mistake in that operator. No
specification uses it; substituting it shows which property would notice.

## 3. What is checked

Lengths are in words except `Sizes` and the sizes of `Bins`, which are in bytes.
The cut-offs between small, large and huge are lowered (the code's are 2^5 and
2^21 words) so that all three kinds of bin occur in a heap of some thirty words.

| Run | Specification and bounds | Shows |
|---|---|---|
| `arena` | `Spec` of `Allocator`, heap 32, cut-offs 8/16, sizes 20..128, search bounds 3 and 2 (135 030 states) | `TypeOK`, `HeapTiled`, `TagsSound`, `ChunksAccountedFor`, `BlocksBelongToClient`, `LastWordIsClients`, `CutsLeaveAChunk` for any sequence of calls, and `ImplementsRangeList`: every call is a step the validator accepts |
| `driver` | `DriverSpec`, heap 32, cut-offs 4/16, default search bounds (57 113 states) | `NoAdjacentFree`, `FreedHeapIsOneChunk`, `MyCheckerPasses`, `EvaluationsIndependent` for clients like the repository's traces |
| `bins` | `Spec` of `Bins`, six chunks, five mixes of sizes, cut-offs 2^7 and 2^8 bytes (3 202 states) | `ListsCircular`, `TreesValid`, `SearchesFind`, `ImplementsBinSets`: chunks filed and taken out in every order |
| `tuner` | `FairSpec` of `Tuner`, three calls that may all overlap, two configurations, scores 0..2 (372 330 states) | `TypeOK`, `BestIsOneCalls`, `BestIsMaximum`, `BestWasMeasured`, `BestNeverDecreases`, `TuningEnds` |
| `lint` | `Spec` of `LintSession`, command lines of up to two of ten options, two files, three lines with the markers, two reports (3 524 424 states) | `TypeOK`, `PrintedAreVisible`, `CountsAgree`, `ExitStatus` |
| `lint_file` | `Spec` of `LintFile`, every file of up to four or five lines over ten profiles of sketches (1 000 018 states) | `TypeOK`, `CommentsCleared`, `LongBodiesReported`, `ReportsArePrinted`, `StackIsNesting`, `ClassesJudged`, `SpacingsJudged`, `ElseBracesJudged`, `SemicolonsJudged`, `IncludesJudged`, `AlphasJudged`, `MissingIsDetermined`, `FileIsLinted` |

Why these bounds are enough to be interesting:

* **Heaps.** Five to seven smallest chunks fit, so a block can have free
  neighbours on both sides, a victim, an occupied bin and the end of heap at the
  same time; it can be extended and can be refused; every route of `realloc`,
  every branch of the searches and every failure fires. `arena` raises
  `SMALL_BIN_SEARCH_MAX` because its default of 0 makes part of `small_malloc`
  unreachable.
* **Bins.** Six chunks make trees of three levels with a list at a node, leaves to
  promote on either side, circles of one, two and three, and a huge circle with
  equal sizes in it. The five mixes are distinct large sizes, pairs of equal
  ones, triples, all kinds at once, and huge only.
* **Tuner.** Three calls are the fewest with a third result between two others;
  score 0 is what a run without statistics has, and ties occur.
* **Sessions.** Two files are enough for one file's comments or counts to reach
  another; the categories are prefixes of one another, and one is off by default.
* **Files.** Five lines hold a comment that begins before another ends, or after
  code on its line, a function behind a declaration, a class in a class, a class whose
  end the two scans put on different lines, and an include that is out of order
  after one that is repeated; four hold a condition that is closed two lines on, a
  list of braced items over several lines, and both ways in which `CheckBraces`
  does not come back. The triggers of `CheckForFunctionLengths` (250 and
  400 lines) and `SMALL_CLASS`, by how many lines a class that is checked for
  sections has to be longer than one (24), are 1, 2 and 2 here.

`GrowingSpec` restricts the client to reallocs that do not cut the block, as in
all traces of the repository. `driver` uses it because complete coalescing is
false without it (disagreement 1).

**Fairness and liveness.** `FairSpec` of `Tuner` assumes weak fairness of each call
of `run`, of OpenTuner making its calls, and of the last one to
`save_final_config`: `call_program` ends by its limit at the latest, and every
thread is scheduled. The lock needs no strong fairness, since each call waits for
it once. `Spec` of `LintFile` assumes weak fairness of the one sequential program.
Under these, `TuningEnds` and `FileIsLinted` hold. `FileIsLinted` is not that every
file is linted, because that is false: it names the files that are not (see the
observations on `CheckBraces`), and every other one is. The allocator's entry points
run to completion by themselves, so nothing is claimed or assumed there. Deadlock
is checked in every run but `exhausted`; the programs that stop do so in a state of
their own (`Ended`, `Exited`). In `exhausted` the client stops once a call has been
served by a chunk of an abandoned heap and what it left is no heap any more: what the
code reads from there on are no headers, and the model does not say what they hold.

**Shared binary.** `BestWasMeasured` is stated for calls that do not overlap: when
they do, a call may run a binary that another one has just built, and then no
lock protects the score. Whether they do is up to OpenTuner.

### Disagreements the runs show

Each of these runs ends in a counterexample.

1. `shrinking`: **`NoAdjacentFree` fails** when realloc cuts a block
   (`allocator.c:873`). The flag PREVIOUS_INUSE of the chunk above the remainder
   is not cleared, so the next free of that chunk does not coalesce. The comment
   at `allocator.c:876` claims the opposite and `my_checker.c:115` asserts it.
   Memory is not corrupted: a stale "in use" only costs coalescing, which is why
   the invariants of `arena` hold all the same.
2. `exhausted`: after a trace that ends in NULL, the chunks it left in the bins
   serve the next trace (`allocator.c:128`, `validator.h:160`).
3. `before_only`: the assertion at `allocator.c:922` does not hold at its call.
   Without assertions the call returns NULL, and realloc goes on as it should.
4. `bins_read`: `find_best_chunk` reads `bins[64]` of 64 (`allocator.c:604`).
5. `short_extension`: the tuner may choose an `EXTENSION_SIZE` below the smallest
   chunk, against the assertion at `allocator.c:483`.
6. `lint_crash`: a header without `#ifndef` ends `clint.py` with an
   UnboundLocalError instead of the error that `src/clint.py:1069` promises
   (`src/clint.py:1103`).

### Observations

Read while modelling; too small for a run, or a matter of wording:

* `memlib.c:105` says that `mem_heap_hi` returns the first byte past the heap (it
  returns the last byte of it), and the comment of `remove_large_chunk` promises a
  return value of 1 (it is 0).
* With the default `SMALL_BIN_SEARCH_MAX` of 0 the small bins above that of the
  request are not searched, unlike the pseudocode at `allocator.c:501-505`.
* `_FunctionState.Check` runs again on a later `}` in column 0 that ends no
  function, so one function may be reported on two lines (`src/clint.py:1661`).
  `LongBodiesReported` speaks of the lines that end a body.
* The loop at `src/clint.py:2083` never ends when it runs out of previous lines: for
  an indented `{...};` before which a file has only blank lines and lines that begin
  with an indented brace and have no semicolon, `GetPreviousNonBlankLine` goes on
  returning an empty line without one. `clint.py` then hangs; `FileIsLinted` says that it does in no other
  case.
* `CloseExpression` promises `(line, len(lines), -1)` for an expression that is
  closed nowhere, but reads the line after the last one (`src/clint.py:1024`), so an
  `} else if (` without its `)` ends the program with an IndexError.
* The line `x) { f();` that ends the condition of an `} else if (` is reported for a
  missing brace, since `CloseExpression` takes the last `)` of that line for the one
  that closes the condition (`src/clint.py:1028`), and for `x) { f(` it looks at a
  later line. It also counts the parentheses of the first line from its beginning, not
  from the condition (`src/clint.py:1020`). `ElseBracesJudged` is stated for a
  condition before which its line leaves no parenthesis open, and after whose end
  on the same line no other parenthesis comes.
* The NOLINT on the last line of a header guard is parsed before multi-line
  comments are cleared, so one inside a comment counts.
* `--filter` with a prefix that has no sign ends in a ValueError, not in the usage.
* `_ClassInfo` stops looking ahead at once when the first line of a class has no
  brace (`src/clint.py:1308-1315`), so its last line is that line and the search
  of CheckSectionSpacing for base-specifier lists of several lines
  (`src/clint.py:1983-1987`) is never reached, and the sections of a class whose brace
  is on the next line are not checked at all; `SpacingsJudged` says so.
* The same look-ahead reads the lines with their strings (`src/clint.py:1311`), while
  the stack is kept on the lines without them (`src/clint.py:1397`, `1498`). A string
  with a brace in a class makes the first end the class early, late or nowhere, and
  CheckSectionSpacing then takes a large class for a small one or the reverse.
  `SpacingsJudged` excludes classes with such a string, and needs to: the sketches
  have one.
* `FindNextMultiLineCommentStart` sees a comment only where it begins its line, and not
  after a comment that is closed on the same line (`src/clint.py:892`, `894`): of
  `x; /*` and the lines after it, nothing is cleared until a line inside begins with
  the mark. `src/clint.py:1204-1210` warns of such comments. `CommentsCleared` says
  what is cleared and that everything else is left as it is.
* The comment at `src/clint.py:2444-2454` lists a "deprecated location" of a file's own
  header before the other headers and promises a complaint when a lower type
  follows a higher. There is none for the own header after another one:
  `CheckNextIncludeOrder` counts it among the others (`src/clint.py:499-506`).
  `IncludesJudged` has it so.
* After an error of the order `_last_header` is forgotten and then set to the header
  that is out of order (`src/clint.py:485-492`, `446-459`), so the next one is compared with the
  misplaced header only, and one that the alphabet puts before the headers of its
  section passes. `AlphasJudged` says with which headers each is compared.
* `Error` asks for the NOLINTs found so far. An error that is reported on a line before
  the NOLINT of that line is parsed, such as that of a comment without end
  (`src/clint.py:926`), is printed all the same, so a message that `PrintedAreVisible`
  takes for covered is one that a NOLINT found by then covers.
* A line with a semicolon that also opens a class (`class A { int x;`) is popped as a
  forward declaration (`src/clint.py:1459-1463`), and the class is not tracked.
  `WellFormed` excludes it.
* `CheckForNonStandardConstructs` pops one class per line
  (`src/clint.py:1499-1501`): a `}}` that closes two of them leaves the outer one on the
  stack, with a count of its braces that never comes to zero again. The properties of
  classes are stated for files without such lines (`WellFormed`), in which the
  brace of a class is on its first line or the next.

## 4. What is assumed

* `CutoffAssumption`: the cut-offs are powers of two of at least one word more
  than the smallest chunk, large below huge. `LogAssumption` says the same of the
  ones in bytes, `ChunkAssumption` that chunks have finitely many addresses other
  than NULL, `SizingsAssumption` that a chunk has at least `SMALLEST_MALLOC` bytes.
  How many chunks there are and which sizes they have is left open.
* `ParameterAssumption`: the tuned parameters are naturals, the first chunk can
  be linked into a bin and fits into memory.
* `ExtensionLeavesAChunk` (an assumption of the theorems, not of the model):
  `EXTENSION_SIZE >= SMALLEST_CHUNK`. It cannot be dropped: `short_extension`
  refutes `CutsLeaveAChunk` without it. No relation between the search bounds,
  the sizes and the heap is assumed.
* `TunerAssumption`: scores are naturals, at least one call may run, and the value
  for "nothing" is no configuration and no call. How many calls, threads,
  configurations and scores there are is left open.
* `SessionAssumption`: the bounds are naturals, findings have a category and a
  confidence, and the value of a `--filter` is a list of filters.
* `ProfilesAssumption`: the length of a file and the levels of `--verbose` are
  naturals, a line is one of the sketches or a list of tokens, and every header has a place in the alphabet.
  Which lines a file has, how many, and what the headers load is left open.
* `TriggerAssumption`: the two triggers of `_FunctionState` are positive.
* `SizesPositive` (an assumption of `AllocatorIsMallocPackage` only): no request is for
  0 bytes, as `validator.h:64` asserts of a payload.
* `SmallClassAssumption`: the size of a small class is a natural number.
* `VerbositiesDocumented` (an assumption of one theorem, not of the model): the level
  of `--verbose` is one of 0 to 5, as the usage says (`src/clint.py:122-123`).
  `ParseArguments` takes any integer; above 5 no confidence is high enough, and
  reports that exceed their trigger are dropped.
* The client frees and resizes only blocks it holds, and writes only its payload.

## 5. What is proved

`AllocatorProofs` and, for the refinement, `DriverProofs` prove, for all values of the
constants, under `ExtensionLeavesAChunk`:

| Theorem | Property |
|---|---|
| `InvHolds` | the inductive invariant `Inv` |
| `TypeCorrect` | `TypeOK` |
| `HeapAlwaysTiled` | `HeapTiled` |
| `TagsAlwaysSound` | `TagsSound` |
| `NoChunkIsLost` | `ChunksAccountedFor` |
| `BlocksAreExclusive` | `BlocksBelongToClient` |
| `CutsAlwaysLeaveAChunk` | `CutsLeaveAChunk` |
| `LastWordStaysClients` | `LastWordIsClients` |
| `AllocatorIsMallocPackage` | `ImplementsRangeList`, the refinement, under `SizesPositive` as well |

`DriverProofs` proves further, under the same assumption, for `DriverSpec`: any number of
evaluations of clients that cut no block in place.

| Theorem | Property |
|---|---|
| `DriverInvHolds` | the inductive invariant: `Inv` and complete coalescing |
| `NoFreeNeighbours` | `NoAdjacentFree` |
| `FreedHeapIsAlwaysOneChunk` | `FreedHeapIsOneChunk` |
| `MyCheckerAlwaysPasses` | `MyCheckerPasses` |
| `EvaluationsAreIndependent` | `EvaluationsIndependent` |

`BinsProofs`, for any chunks, any sizes and any cut-offs:

| Theorem | Property |
|---|---|
| `BinsInvariant` | the inductive invariant `BinsInv` |
| `CircularLists` | `ListsCircular` |
| `ValidTrees` | `TreesValid` |
| `SearchesAreRight` | `SearchesFind` |
| `BinsAreBinSets` | `ImplementsBinSets`, the refinement |

`TunerProofs`, for any number of calls, threads, configurations and scores:
`TunerInvariant`, `TunerTypes`, `BestResultIsOneCalls` (`BestIsOneCalls`),
`BestResultIsMaximum` (`BestIsMaximum`), `BestResultGrows` (`BestNeverDecreases`),
`SavedWasMeasured` (`BestWasMeasured`).

`LintSessionProofs`, for any command line, files, findings and bounds:
`SessionInvariant`, `SessionTypes` (`TypeOK`), `PrintedAlwaysVisible`
(`PrintedAreVisible`), `CountsAlwaysAgree` (`CountsAgree`),
`ExitStatusIsTrue` (`ExitStatus`), and two facts that no run states:
`OnlyUncoveredPrinted` (no message against a comment of its file or below the
verbosity) and `SuppressionsOfTheFile` (the comments in force are those of the
file at hand, all of them and no others).

**The allocator's invariant.** `Inv` says that the arena is consistent
(`ArenaInv(arena, {})`), that the chunks in use are exactly the client's blocks and
that each holds at least the words asked for. The properties alone are not
inductive: `HeapTiled` needs the minimal size of every chunk, the extents of
blocks need the tiling, and the tiling after a combination needs the tags to lead
to a real chunk.

**Weak tags.** `Tagged`, the part of `HeapInv` about flags, is one-sided: a flag
that says *free* leads to a free chunk that ends there, a flag above a used
chunk says *in use*; but a flag may say *in use* above a free chunk. That is the
strongest statement the code preserves, since a realloc that cuts its block
leaves such a flag above the remainder (disagreement 1). Everything except
complete coalescing follows from it. A third part says that `previous_size` above
a used chunk holds what the client may have put there: the word is the last one
of the payload below.

**Complete coalescing** needs the other direction of the flags: `Coalesced(h, P)`
says that the chunk above a free chunk is in use and that its flag says *free*,
except above the chunks `P` a handler is working on. Each helper has a second
lemma, `Tidies(h, P, g, Q)`: if it finds a heap coalesced but for `P`, it leaves one
that is coalesced but for `Q`. `RetileCoalesced` is what these lemmas share, and a
handler starts and ends with no exceptions. The chain breaks at the one place
where the code does not look above the remainder, a cut in place (disagreement 1).

**Chunks in hand.** In the middle of a handler a chunk may be free and yet in no
bin, because it is about to be handed out, combined or filed. `ArenaInv(a, F)`
names these chunks `F`. Each helper then has one lemma that says what it does to
the arena and to `F`: removing from a bin adds to `F`, inserting takes away,
combining replaces two by one, marking as used empties it. A handler is proved
by chaining the lemmas of its calls, and `F` must be empty at its end.

**Layers.**

1. `HeapProofs`: operations on the heap function alone. `Retile` shows, once,
   that replacing the chunks between two addresses by others that tile the same
   region, with agreeing tags at the borders, preserves `HeapInv`; the lemmas for
   cutting, combining, marking, extending and resizing are instances of it.
2. `AllocatorProofs`, first half: bins as sets, and searches. The bin of a size is one
   of the array, and a bin further up holds larger chunks (`LargeIndexFacts`), so what
   a search returns is large enough; each route of malloc ends in `Found`.
3. `AllocatorProofs`, second half: the contract of a call, `Served(a, r, C, request)`: a block
   of `request` words that nobody but the givers of `C` held, all other blocks
   untouched, nothing in hand. `MallocServes`, `FreeReleases` and `ReallocServes`
   prove it for the entry points. All in-place reallocs share `InPlaceServes`.
   Then `Init` establishes `Inv`, each action preserves it, and each property follows
   from it.
4. `DriverProofs`, the refinement: the break never falls (`MallocGrowsBreak`,
   `ReallocGrowsBreak`, `FreeKeepsBreak`), so a range that was inside the heap
   stays inside; by `Inv` the extents of blocks are apart before and after a step
   (`InvExtents`); so a block handed out is one `RangeList` may add, a block
   given back is one it removes, a failure is a stutter.
5. `DriverProofs`, coalescing: each entry point leaves the heap coalesced (`MallocTidies`,
   `FreeTidies`, `ReallocTidies`), also across a reset. With no block in use, no two
   free chunks beside each other leave a single chunk, the end of heap
   (`FreedHeapIsAlwaysOneChunk`), with the bins empty that `my_init` does not clear:
   the next evaluation starts from the heap a new process would.

**The invariant of the bins**, `BinsInv`, is `Valid(memory, filed)`. It speaks of
the pointers one step at a time, because what insertion and removal mend are single
links; what they lead to in the end follows.

* `Circles`: `next` and `prev` are inverse to each other on the filed chunks, and
  from each chunk `next` leads to the chunks of its key and to no others. The key is
  the size in a tree and the bin elsewhere, so this says both that circles do not run
  together and that a bin has one circle only. It cannot be had without `Follow`:
  links that are inverse to each other may well make two circles out of one.
* `Heads`: a bin without a tree is empty or points at one of its chunks.
* `Trees`: a node is the root of its bin or the child of its parent on the side
  of its bit, one `shift` lower; node and parent agree in all bits from the
  parent's on up (`Prefix`), which is what makes the whole subtree of a side have
  its bit; no two nodes have the same size. A node is determined by its shift and the
  bits above it (`NodeUnique`), so a search for a size meets its node if there is
  one (`Descend`), and the shift cannot fall below -1, where one size is left.
* `CirclesHang`: of every circle in a tree one chunk is a node, and all have its shift.
  Without it, a chunk that becomes the node when the node is taken out would test
  another bit than the nodes below it were placed by.

`Closure` shows that `Reached`, which is defined by levels, is the least set that
contains its start and is closed under the pointers; every statement on a circle,
on a subtree or on the contents of a bin is then an induction over that set. A loop
ends within its turns because each of them comes to a node with a lower shift
(`Lower` counts the chunks below it). The steps:

1. Circles: `CirclesAlone`, `CirclesLink`, `CirclesUnlink` say what the statements
   of insertion and removal do to them, for a list of any length.
2. Trees: `TreesAddRoot`, `TreesAddLeaf` (insertion), `TreesDrop` (a leaf goes),
   `TreesReplace` (a chunk takes the place of another, with its parent, its children
   and its shift). Taking out a node that has children is a drop of the leaf
   `find_replacement_for_large_chunk` finds, and a replacement by it; taking out a
   node with a circle is a replacement by the next chunk of it.
3. `InsertValid`, `RemoveValid` and `WrittenValid` (the client's writes) make the
   invariant inductive.
4. Searches. `FindInBinFacts`: at each turn the node of the request's size is beneath
   the current one, if there is such a node, and if there are larger ones, one of them
   has been seen or all of them are beneath; every chunk of the bin is smaller than
   `2 * request`, so the first one seen is taken. `FindSmallestFacts`: what is
   to the left of a node is smaller than what is to the right, so the least is always
   on the path. `HugeBestFitFacts`: after as many turns
   as the circle has chunks, every chunk has been looked at.
5. The refinement: by `ContentsFacts` a bin leads to the filed chunks of its sizes,
   so an insertion adds to one set of `BinSets` and a removal takes from one.

**The tuner's invariant** adds to the properties who holds the lock (the one call
between `acquire` and `release`), that the score of a call about to write is new
and larger, which of the three fields are written in between (`HalfWritten`), and
that the call whose fields they are is one that has compared its score
(`WholeWritten`). For `SavedWasMeasured` it also says that while no calls have
overlapped at most one is going on, and that the binary is the one it built.

**The session's invariant** adds that the suppressions are the comments of the file
at hand (`SuppressionsAreTheFiles`), that comments found so far belong to this or
earlier files, that nothing is printed before the first file, and that the record
of counts has the style of counting it was made for. The heart of it is that
counting once more a category among the first n + 1 messages is adding one
(`CountNext`, `TallyNext`, `CountsOfAppend`), by the library's facts on
cardinality. `PrintedAlwaysVisible` needs that the loop of `_ShouldPrintError`
over the filters ends with the sign of the last filter that matches, for filters of
any number (`IsFilteredByLoop` and the lemma after it), and that the default filter
before those of the command line decides only where none of them does.

`LintFileProofs`, for files of any number of lines of any forms, any headers, and any
triggers:

| Theorem | Property |
|---|---|
| `Inductive` | the inductive invariant `IInv` |
| `TypeCorrect` | `TypeOK` |
| `CommentsAlwaysCleared` | `CommentsCleared` |
| `LongBodiesAlwaysReported` | `LongBodiesReported` |
| `ReportsAlwaysPrinted` | `ReportsArePrinted`, under `VerbositiesDocumented` |
| `SemicolonsAlwaysJudged` | `SemicolonsJudged` |
| `ElseBracesAlwaysJudged` | `ElseBracesJudged` |
| `StackAlwaysNesting` | `StackIsNesting` |
| `ClassesAlwaysJudged` | `ClassesJudged` |
| `SpacingsAlwaysJudged` | `SpacingsJudged` |
| `IncludesAlwaysJudged` | `IncludesJudged` |
| `AlphasAlwaysJudged` | `AlphasJudged` |
| `MissingAlwaysDetermined` | `MissingIsDetermined` |

**The invariant of a file** has a part for each check, which the later parts use no
more of than that lines are only cleared (`LinesInv`) and where the phases are
(`PhaseInv`).

* `CommentInv`: the loop of `RemoveMultiLineComments` has cleared the lines before
  `lineix` from the first on in each comment that begins with its mark (`InSeen`), no
  such comment is open there, and it ends where no other begins or the next one has
  no end. The property reads the comments off a recursive definition (`Within`) that knows
  the ones beginning after code as well; the code has two searches. `OneComment` shows that
  they agree on the lines from one beginning to its end, `NextSeen` that a comment
  begun after code is seen from the first line on that begins with the mark.
* `LengthsInv`: between the first line of a function and its end `function` holds
  what `CheckForFunctionLengths` counts from there, and the functions that have ended
  are judged. It is the property of a prefix of the file with what the counter says
  about the function that is not over.
* `LevelsInv`: a report is confident enough for the verbosity it was made under. The
  trigger is doubled `verbosity` times and the level is the logarithm of what exceeds
  it, so `LevelAtLeast` needs only that powers of two grow.
* `SemicolonsInv`: the lines before `n` are judged by their statements, and the line
  that the loop of `CheckBraces` has gone back to is not before the statement
  (`Joined`). Where it stops is where the property's `Statement`, the first line of
  all from which one could get to `n`, begins (`StatementBegins`); a loop that finds
  no line any more never stops (`JoinsForever`), so it has judged nothing.
* `ElseInv`: an else is judged once its line has been looked at, which is before the
  loop over previous lines begins, and then its parentheses are closed somewhere. The
  property follows the condition token by token, the code counts the parentheses of
  whole lines and takes the last one. Since tokens open and close one at a time
  (`StaysOpen`), every line before the one that closes the condition ends with
  more of them open than before it (`LinesOpen`), so that line is the first where the
  code's count comes to zero (`ClosesWhere`).
* `ClassesInv`: the properties read from the depth of braces before each line
  (`Depths`, a sum over all lines before) which classes are open; the code has a count per
  class on the stack. `StackInv` relates the two. A class that is not on top counts
  the braces from its first line to the first line of the class above it, and the top one
  up to the line at hand (`Nested`); the flags of a class are what its own lines have told
  so far (`Told`). A line that declares a class says nothing of the classes around it
  (`AroundKept`), any other line only something of the one on top (`OutsideKept`), and
  when that is closed the depth is back to where it was before the class
  (`StackPopped`), which is what the count of the class below needs and what a line that
  closes two classes would break.
* `SpacingsInv`: the lines reported so far are those that `CheckSectionSpacing` finds in
  the class on top of the stack, which is the innermost one by `StackInv`, with the end
  that the look-ahead gives it. That this is where the class is closed is a fact of the
  file alone (`LastLineOfClass`): without quoted braces the sums of the two scans
  differ by the depth before the class (`BracesSeen`), so the first comes to zero where
  the second falls back to that depth.
* `IncludesInv`: the section is that of the latest place a header before belongs to
  (`InSections`), `last_header` is the highest rank of the headers that the next one is
  compared with (`Compared`, `Ranked`), and the errors so far are those of the property. The
  automaton has no place for a header, only a section that it stays in, goes on to or
  falls through to the last one; `NextPlace` shows that this gives each header the place
  of the property, also after errors, and `ComparedNext` that headers are forgotten
  exactly where a section begins or a header is late.
* `FoundInv`: `found` is what the headers looked at so far load, in whatever order
  the loop has taken them.

`InductionLemmas` has the facts about numbers that these proofs share: induction on
a set of naturals (`SetInduction`), the least and the greatest element of a set, and that
a recursive function on naturals exists and is what its definition says
(`RecursionExists`).

**Only model-checked:** `FileIsLinted`, `TuningEnds`, and the violations.

**Out of the prover's reach:** liveness under fairness (`TuningEnds`,
`FileIsLinted`) and ENABLED. Induction over data is possible where it can be
written as a set of naturals, which is how `Within`, the sums over lines
(`SumsBefore`) and the loop over the filters are done, and for the trees of `Bins` by the
shift. No module
declares a RECURSIVE operator; recursive functions are used throughout.

## 6. What is not modelled

* **Payload contents.** Only which words belong to whom. The order in which
  realloc copies and writes is that of straight-line code, and `eval_mm_valid`
  compares the contents after every realloc of every trace.
* **C integer widths.** The driver keeps the sizes of a trace in an `int`, so no
  request comes near `SIZE_MAX` or the `int` of `mem_sbrk`.
* **Timing** (`clock.c`, `fcyc.c`, `fsecs.c`, `ftimer.c`). `config.h:43` sets
  USE_FCYC to 0, so the cycle counter and the K-best sampler are compiled and not
  called; what is called reads the clock around a loop.
* **Options, trace parsing, printing and scores of the driver**: I/O and
  floating-point arithmetic.
* **`bad_allocator.c`, `libc_allocator.c`**: the first is an example that the
  validator is meant to reject, the second forwards to the C library.
* **`src/test_real`**: the build of a sample program.
* **The checks of `clint.py` that look at one line** (spacing, casts, operators,
  deprecated functions, ...): regular expressions on one line, without state. What
  they find is an input of `LintSession`. The error of
  `CheckIncludeLine` about the directory of a header (`src/clint.py:2426-2428`) is of
  this kind and left out of `IncludeOrder`. How `CleansedLines` removes strings and
  comments from a line is not modelled, only what is left for the later checks.
* **OpenTuner** is the environment of `Tuner`, and the parsing of what `mdriver`
  prints is an input.

## 7. Plan

Everything the survey found worth modelling is modelled, and every invariant and
action property that a passing run checks is proved. What a change of the code would
ask for next is the same again for the part it touches: the model, its run, and the
invariant of that part.
