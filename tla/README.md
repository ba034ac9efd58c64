# Verification of Strata

Strata is an in-memory columnar engine in C++: it loads delimited files into
typed columns, or streams rows into them while queries run, and answers
filtered and grouped aggregates, on one thread or on a pool. This directory
holds TLA+ models of its concurrent core and of its data path, from the file to
the answer, the TLC runs that check them and the proofs TLAPS checks. Source
paths below are relative to the repository root.

## The system

| component | state | operations | talks to |
|---|---|---|---|
| `SpscRing<T>` (`memtable.hpp`) | `buf_`, atomics `head_` (consumer), `tail_` (producer) | `push`, `pop`, `empty` | one producer, one consumer |
| `StreamingTable` (`memtable.hpp`, `memtable.cpp`) | row `buffer_`, a ring of batches, the columnar `table_` under `table_mu_`, `wake_mu_`/`wake_cv_`, three atomic counters, the flush thread and its stop token | `insert`, `flush_sync`, `query`, `visible_rows`, `pending_rows`, `batches_flushed`, destructor; `enqueue`, `flush_loop`, `apply_batch` inside | the producer's calls, queries on any thread |
| `ThreadPool` (`threadpool.hpp`, `threadpool.cpp`) | `tasks_`, `pending_` under `m_`, `cv_task_`, `cv_done_`, one stop token per worker; a process-wide registry by size | `run`, `for_ranges`, `map_reduce`, `shared`, destructor; `worker_loop` inside | every executor with `threads(n)`, n > 1, shares one pool per n |
| `Executor`, `QueryResult` (`executor.cpp`) | predicates, group column, bucket, threads; four parallel vectors of the result | `filter`, `group_by`, `threads`, `agg`; kernels `reduce_global`, `reduce_group`; `sort_by_value_desc`, `to_string` | reads a `Table`, runs on a pool |
| bulk loader (`parser.cpp`) | descriptor and mapping of `MappedFile`, field targets | `Table::from_csv` | fills a `Table` |
| `Table`, `Column`, `Dictionary`, `Schema` | typed vectors of equal length, code <-> string | `add_column`, `append_parsed`, `encode`, `lookup`, `decode` | loader and flush thread append, executors read |
| Python bindings (`strata_py.cpp`) | `PyQuery`, `PyResult`, NumPy arrays over a result | `load`, `where`, `group_by`, `threads`, aggregates, `sort_by_value_desc` | build and run an `Executor` |
| CLI, benchmark, tools | flags, demo loops | `cmd_query`; `cmd_stream` polls and queries while a producer inserts | the above |

What is hard, and what must hold:

- **Ring.** Two threads decide on stale copies of each other's index. Correct
  means: indices keep their cyclic order, the non-atomic slot is never touched
  by both, elements leave in the order they came, and a full ring makes room.
- **Streaming table.** Rows travel buffer, ring, batch, columns while queries
  run, with wake-ups whose predicates are atomics written outside the lock.
  Correct means: no row lost, doubled or reordered by retries or shutdown; no
  lost wake-up; queries see whole batches and a store that holds still;
  `flush_sync()` returns, and only when all is visible; destruction ends.
- **Pool.** Several callers share one queue and one counter. Correct means: a
  caller leaves `run()` only after its tasks, whose captures are its locals;
  no task is left with all workers asleep; destruction ends.
- **Partitioning.** Integer rounding must cut [0,n) into ranges that cover
  each row once.
- **Executor.** Tasks share one mask and fill one slot each, in any order; an
  exception in one of them ends the process. Correct means: the answer is the
  aggregate of the rows that satisfy the predicates, whatever the number of
  threads, the column types, infinities, empty groups or unseen strings; the
  parallel vectors of a result stay side by side.
- **Loader, columns, dictionary.** Every column has `num_rows` entries after
  every line, codes are stable and invertible, the table is what the file says
  under each name, streaming a file gives what loading it gives, and nothing
  stays open when loading fails.
- **Front ends.** Names are checked where an exception reaches the user; arrays
  handed to Python keep showing the result.

## Modules

| module | models | used by |
|---|---|---|
| `BatchQueue` | what the ring promises: a bounded FIFO whose two ends may see each other late | refined by `SpscRing`, contained in `StreamingTable` |
| `SpscRing` | `push`/`pop`, one step per atomic operation or slot access | `SpscRingProofs` |
| `IngestLog` | what the streaming table promises: an append-only log cut into batches, visible up to the end of one of them, `flush_sync()` = all visible | refined by `StreamingTable` |
| `StreamingTable` | producer, flush thread, readers, destructor | its two proof modules |
| `ForkJoin` | what `run()` promises each caller | refined by `ThreadPool` |
| `ThreadPool` | callers, workers, destructor | `ThreadPoolProofs` |
| `Ranges` | the ranges of both algorithms in closed form | `Partition`, `Executor` |
| `Partition` | the loops of `for_ranges`, `map_reduce` that build them | `PartitionProofs` |
| `Columns` | `Dictionary`, `Column`, `Table`, `Schema`, the row preview | `Loader`, `Executor` |
| `Loader` | `MappedFile`, `from_csv`, and `cmd_stream`'s producer with `apply_batch` | `Engine` |
| `Executor` | building, running and showing a query, by C++, CLI or Python | `Engine` |
| `Engine` | a file loaded both ways, then one of the tables queried | `LoaderProofs`, `ExecutorProofs` |
| `SpscRingProofs` | theorems about `SpscRing` | |
| `StreamingTableProofs`, `StreamingTableRefinement` | theorems about `StreamingTable` | |
| `ThreadPoolProofs` | theorems about `ThreadPool` | |
| `PartitionProofs` | theorems about `Partition` | |
| `LoaderProofs`, `ExecutorProofs` | theorems about the loaders and the queries of `Engine` | `ExecutorAnswer` |
| `ExecutorAnswer` | the theorem about the answers of queries | |
| `MC...` | the sets TLC needs; `Partition` is run as it is | |

### SpscRing

`buf`, `head`, `tail` are the members. An acquire load may return an old value
but never one older than the last it returned to that thread: `headSeen` and
`tailSeen` are what the producer's load of `head_` and the consumer's load of
`tail_` return, and `SeeHead`, `SeeTail` move them on by one store. `push()` is
`PushAccept` (loads, full test), `PushWrite` (the move into the slot),
`PushPublish` (the release store), or `PushRefuse`; `pop()` likewise. Between
Accept and the store the thread owns the slot, so a race would be two threads
inside at once (`NoDataRace`). `ppc`, `item`, `cpc`, `out` are the threads'
local state, `pushed` and `popped` the results.

### StreamingTable

Rows are the numbers 1, 2, 3, ... in the order of insertion. The ring is
`BatchQueue` (variables `q`, `visible`, `owed`), which `SpscRing` is proved to
implement, so its internal steps need not be interleaved again. Each thread
has a program counter (`ppc`, `fpc`, `rpc`, `dpc`), and a step ends at each
operation another thread can observe. Points that need care:

- *Locks give visibility.* An empty critical section on `wake_mu_` is what
  makes the notify protocol work: the next owner sees what was done before.
  `covered` is how much of the queue was pushed before the last unlock by
  producer or destructor, and the flush thread sees at least that when it locks
  (`FlusherCatchesUp`). `flushedSafe` is the same for `rows_flushed_` the other
  way. Every other load of an atomic may be stale.
- *Waiting.* A wait is three steps: the predicate under the lock, blocking
  together with unlocking, and locking again. A thread in `waiters` sleeps
  until `NotifyAll` or `SpuriousWake`. `wait(lk, stop_token, pred)` tests the
  token in the same step as it blocks, because the library holds the condition
  variable's own mutex for both, and `request_stop()` sets the flag
  (`RequestStop`) before it runs the callback that notifies (`StopCallbacks`).
- *`table_mu_`.* `writer` is the exclusive owner; a reader at `"scan"` holds it
  shared. The writer has no precedence.
- *`apply_batch()`* is `FlushLock`, one `FlushAppend` per row, `FlushPublish`.
- *Destruction* starts when no other thread is inside a member function, which
  is the language's rule, while the flush thread may be anywhere. What is
  buffered or left over is applied after the join (`JoinAndApply`).

The reader is `cmd_stream`'s loop: `visible_rows()`, then a query.

### ThreadPool

A critical section of `m_` is one step; a worker whose predicate fails keeps
`m_` (variable `m`) until it blocks, so that what could slip in between is
explored. The stop token of each worker is set in turn without `m_`
(`RequestStop`, `StopCallback`). Task k of caller c is `<<c, k>>`. Condition
variables as above.

### Partition

`Start` is the call with any number of rows, pool size and `nparts` within the
bounds, `ForStep`/`MapStep` the iterations of the loop that builds the task
list. `LoopsBuildRanges` ties the loops to the
closed form of `Ranges`, from which `Executor` takes its tasks.

### Columns, Loader

A file is a sequence of lines, a line a sequence of fields, a field a token.
`IntOf` and `DblOf` say what `std::from_chars` makes of a token, `Chomp` what
is left without a carriage return. A table is `[cols, rows]`, a column `[name,
type, data, dict]`; `ColumnOf` is the lookup by name, which finds the last
column added under it. `lpc` is where `from_csv` is: `Open`, `Stat`, `Map` are
the constructor of `MappedFile`, each may fail; `ReadHeader` computes `targets`
(field to column, 0 to skip) and the columns, `BodyLine` is one iteration of
the loop with its blank-line test, padding and row limit, `FinishLoad` the
return, `OutOfMemory` an exception out of a growing vector, with the destructor
of `MappedFile` in both (`Unmap`). `ApplyBatch` is `apply_batch()` on the next
lines `cmd_stream`'s producer inserted (`Inserted`); how lines become batches
and when they are flushed is `StreamingTable`'s. The two loaders share no
state, so `Engine` runs them one after the other.

### Executor

The variables up to `threads` are the members; `qpc` is where the query is.
`Filter`, `CliWhere`, `PyFilter` are the three ways to add a predicate: the two
front ends look the column up at once, `Executor::filter` does not. `Start`
resolves the measure, `FilterTask(t)` is `apply_range` on one range of
`for_ranges`, `StartReduce` the return of `for_ranges`, `ReduceTask(t)` one task
of `map_reduce`, `Emit` the merge and the emission of groups. Tasks run in any
order and the caller goes on when all have run, which is what `ForkJoin`
promises and `ThreadPool` refines. `Sort`, `HandOut` and `CliPrint` are what is
done with the result; `sorts` numbers the vectors `sort_by_value_desc()` swaps
in, `views` are the ones arrays look at. A task that throws ends the process
(`"terminated"`), without a pool the exception reaches the caller (`"threw"`).

Doubles are `PosInf`, `NegInf`, `NaN` and fractions with the denominator `One`,
added exactly. C++ division toward zero is `Quotient`, the masked sum
multiplies by the mask (`Gate`), comparisons with NaN are false, `std::sort`
promises nothing when there is one. `AnswerIsAggregate` compares with a
reference that has no codes, masks, ranges or slots: strings for `==` and `!=`,
keys by `Bucket` (the multiple of b toward zero, so keys in (-b, b) share one),
sums and extremes over sets of rows. Two known errors of ungrouped aggregates
are named and allowed. `GatesNonFinite`: an infinite or NaN measure of a
rejected row makes SUM and AVG NaN. `MiscountsRows`: without a filter, a range
that ends before it starts makes the count wrong; the property then leaves the
count, COUNT and AVG open, and asks of an extreme that it is right or 0 (see
`threads_disagree`) and of SUM that it is right.

## Runs

| run | instance | states | question |
|---|---|---|---|
| `ring` | 4 slots, 2 values | 10 007 | order of the indices, no race, no empty batch popped, FIFO, delivery, a full ring makes room |
| `ring_no_room` | 1 slot | 2 | *violated*: a one-slot ring never makes room |
| `streaming` | 2 readers, threshold 2, ring 3, 5 rows | 386 000 | nothing lost, no lost wake-up, `flush_sync()` means visible, refinement of the log, whole batches, stable store, counters never ahead of the store |
| `streaming_live` | 1 reader, threshold 2, ring 2, 3 rows | 12 800 | calls return, destruction ends, a batch handed off is shown |
| `streaming_starved` | 2 readers, 2 rows | about 20 000 | *violated*: overlapping queries starve the flush |
| `pool` | 2 callers, 2 workers, up to 3 tasks | 9 029 | count exact, no lost wake-up, fork-join, liveness |
| `pool_shared` | 2 callers, 1 task each | 647 | *violated*: others' tasks hold up a caller |
| `partition` | n <= 12, P <= 7 | 577 | ranges tile, each row once, the loops build the closed form |
| `engine` | 9 files, 3 of them queried with up to 2 predicates on 1 or 4 threads | 171 000 | tables are the files, nothing leaks, codes stay, clean files stream as they load, answers are the aggregates, front ends survive, the greatest values are printed |
| `threads_disagree` | a file of 9 equal rows, MIN and MAX on 8 threads | 1 900 | *violated*: the count is 0, and so is the extreme |
| `streamed_not_bulk` | 9 files, no queries | 400 | *violated*: streaming ignores the header, blank lines and carriage returns |
| `views_dangle` | 3 files, no predicates | 1 200 | *violated*: arrays taken before a sort look at vectors the result no longer has |

Why the bounds suffice. Ring: four slots let a popped, a visible and an unseen
batch coexist and the indices wrap; every index difference 0..3 occurs.
Streaming: three ring slots hold two batches, so a third waits for room;
five rows make two full batches and a partial one that only `flush_sync()` or
the destructor can hand over. Two readers are enough for the lock to be shared
and to overlap for ever. The pool repeats calls without limit; only the tasks
per call are bounded, with more of them than workers. Partition: every
remainder of n modulo P, and P below, at and above n. Engine: the files have
each thing the loaders treat differently (a header in another order, unknown,
repeated and missing columns, short, long and blank lines, carriage returns, no
rows, no bytes at all); five rows on four threads give two ranges of two rows, one of
one and one that ends before it starts; measures include infinity and NaN, keys
negative numbers; predicates include an unseen string, a number against codes,
a string against numbers, and a column that does not exist.

Bounds are the constants `MaxRows`, `MaxTasks`, `MaxThreads`, `BatchRows`,
`MaxPreds` and the sets of inputs in `MCEngine` (`Asked` are the files that are
queried). They
limit inputs only; no bound stops a thread in the middle of an operation.
Deadlock is checked in every run; `Gone` and `Finished` are the ends where
nothing is left to do.

### What the violated runs say

- `ring_no_room`: `queue_capacity = 1` is accepted (only 0 is replaced) and
  gives a ring that is full from the start; `enqueue()` spins for ever. The
  comment at `memtable.cpp:55` calls a full ring momentary.
- `streaming_starved`: `std::shared_mutex` promises a waiting writer nothing
  (with glibc readers are preferred), so two threads with overlapping queries
  can keep `apply_batch()` out and `flush_sync()` waiting (`memtable.hpp:82`).
- `pool_shared`: `pending_` belongs to all callers, so `run()` may outlast its
  own tasks for as long as others submit (`threadpool.hpp:42`). With nobody
  else submitting it returns: `RunEndsUndisturbed`.
- `threads_disagree`: with chunk = ceil(n/P) the last ranges of `map_reduce` can
  start behind their end; five rows on four threads give `<<6,5>>`. Kernels that
  loop are unharmed (`EachRowOnce`), but `reduce_global` without mask counts
  `hi - lo` = -1: COUNT is 4, and AVG divides by it. The same counts decide
  whether there is an extreme at all (`acc.count ? acc.mn : 0.0`,
  `executor.cpp:282`): nine rows on eight threads count 9 - 1 - 3 - 5 = 0, so
  MIN, MAX and AVG are 0, and right on one thread. `threadpool.hpp:74` says there
  are no empty partitions; the test of `test_strata.cpp:137` asks for SUM only,
  of 200 000 rows on 8 threads, where the cut comes out even.
- `streamed_not_bulk`: `apply_batch()` is positional and the producer drops the
  header. The test that compares the two paths (`test_strata.cpp:188`) inserts
  lines already in schema order; `CleanFilesAgree` says that such files do
  agree, ragged lines included.
- `views_dangle`: `strata_py.cpp:6` says arrays view the vectors of the result
  and that their base keeps the result alive. The base keeps the `QueryResult`
  alive, but `sort_by_value_desc()` swaps new vectors into it and frees the
  ones earlier arrays look at. Arrays taken after the sort are fine.

### Fairness

- *Ring*: the consumer pops again and again (the flush loop), a begun `push()`
  is finished, a store becomes visible in finite time (as C++ asks of atomics).
  Nobody has to push.
- *Streaming table*: threads run; a begun call is carried on; queries end.
  Strong fairness where a thread waits for a mutex that others take and
  release again and again (`wake_mu_`, and `table_mu_` for the flush thread):
  the scheduler is assumed to let it in when it is free infinitely often. With
  one reader it is; with two it need not be, hence `streaming_starved`.
  Nobody has to insert, flush, query or destroy; notifies are never assumed,
  they are steps of the thread that makes them.
- *Pool*: the same for workers, callers inside `run()` and a begun
  destruction. Tasks end.

## Proofs

`SpscRingProofs` proves, for every requested capacity and every set of values,
all safety properties of the `ring` run:

- `TypeCorrect`, `OrderKept`, `RaceFree`, `NothingEmptyPopped`:
  `Spec => []` of `TypeOK`, `RingOrder`, `NoDataRace`, `NoEmptyBatch`.
- `Refinement`: `Spec => IsBatchQueue`.

The only assumption is `RingAssumption` (the capacity is a natural number and
the moved-from content is not a value).

The inductive invariant `IInv` is `TypeOK`, `RingOrder`, `NoEmptyBatch` and two
facts about the threads in the middle of an operation: `ProducerOwns` (the
producer's slot is still free in its own view, so one more index step keeps
`RingOrder` below the capacity, and at `"publish"` it holds a value) and
`ConsumerOwns` (the consumer's slot is among those it has seen published, and
at `"release"` its `out` holds the value). `RingOrder` alone is not inductive:
nothing in it says that the full test made two steps ago still holds. The
arguments are arithmetic on the cyclic distance `Ahead`; its lemmas
(`AheadIncLeft`, `AheadIncRight`, `AheadAdd`, ...) are stated once and every
action cites them. `NextInv` has one step per action. `NoDataRace` follows from
the invariant. The refinement proof shows that `PushPublish` is the abstract
push, `PopRelease` the abstract pop, `SeeHead` and `SeeTail` the two
visibility steps, and everything else a stutter: writing the slot at `tail`
and moving out of the slot at `head` leave `Contents` as it was.

`PartitionProofs` proves the four properties of the `partition` run for every
number of rows, pool size and `nparts`; its only assumption is
`PartitionAssumption` (the bounds are natural numbers):

- `PartitionTypes`, `Tiling`, `RowsOnce`, `LoopsAreClosed`: `Spec => []` of
  `TypeOK`, `RangesTile`, `EachRowOnce`, `LoopsBuildRanges`.

`Tiling` needs an invariant of the unfinished loop (`PInv`): the ranges built
so far are chained and end at min(n, k * Chunk). With `Ceiling`
(P * ceil(n/P) >= n) that is n when the loop ends. `RowsOnce` needs where each
range lies (`PlacedInv`): the i-th begins at (i - 1) * Chunk, and the loop has
skipped an iteration only if the ranges already reach n, which `map_reduce`
never does (`MapLength`). The row's range is then `row \div Chunk + 1`
(`Quotient`), and no other (`SameChunk`). `LoopsAreClosed` needs in addition how
many ranges there are: `map_reduce` has k of them (`MapLength`), a finished
`for_ranges` ceil(n / Chunk), because its last range begins before n
(`ForLength`, `ChunkCount`); `NoRows` is the call without rows.

### Streaming table

All nine properties of the `streaming` run are proved for every flush
threshold, queue capacity, set of readers and number of rows. The only
assumption is `StreamingAssumption` (the three parameters are natural numbers).

- `StreamingTableProofs`: `TableTypes`, `CountersTrue`, `WholeBatches`,
  `RowsKept`, `SyncIsComplete`, `StoreStandsStill` are `Spec => []` of `TypeOK`,
  `CountersFollow`, `QueriesSeeWholeBatches`, `NothingLost`, and the action
  properties `SyncMeansVisible`, `StableUnderQuery`; `CapacityKept` and
  `WakeupsKept` are those of `QBounded` and `NoLostWakeup`.
- `StreamingTableRefinement`: `Refinement`, `Spec => IsIngestLog`.

The argument is built up in layers, each proved on top of the one before:

1. *Control* (`Types`, `ProducerPlace`, `FlusherPlace`, `Shutdown`): where each
   thread is tells which lock it holds, and how far destruction has come. After
   the join the flush thread is gone for good, and before it the destructor
   touches no row.
2. *Counted* (`BatchProgress`, `Counters`, `Snapshots`): what the three counters
   are while a batch is half applied, and which earlier value a stale load or a
   reader's snapshot may hold. `CountersFollow` alone is not inductive: between
   the rows and their counter the store is ahead by exactly the batch.
3. *Rows* (`RowsInv`): store, half applied batch, ring and buffer, joined in
   that order, are the rows 1, 2, 3, ... inserted. That is `NothingLost`, whose
   step needs both layers: the destructor's two extra batches are in order only
   because the flush thread has left nothing behind.
4. *Wake-ups* (`Handed`, `AboutToPark`): what the flush thread will see of the
   ring at its next lock is all of it but a batch that is not handed off yet,
   and it goes to sleep only when that is nothing; a `flush_sync()` about to
   sleep although all is flushed has the flush thread's notify still to come.

The rows of several batches are one `FlattenSeq`, a recursive function of the
library. Its facts (`JoinsExists`, `FlattenAppend`, `FlattenHead`) go by
induction on the number of batches. The library's induction theorems take an
operator, so the step is taken from a smallest counterexample instead
(`LeastNumber`, from the well-foundedness of <).

For the refinement the log is the rows inserted and what is shown the first
`numRows` entries of the store, which are the numbers up to `numRows`
(`ShownRows`, from `RowsInv`). The rows in no batch yet are the buffer, and the
batches on their way the one in the flush thread's hand and then the queue
(`HandedOff`), of which the log knows the sizes. `Insert` adds a row;
`PushBatch` cuts a batch, which is full unless `flush_sync()` pushes it
(`BufferFits`, an invariant of its own); `FlushPublish` shows the oldest batch,
all of it and nothing more; `QueryLock` and `QueryUnlock` begin and end a query;
`JoinAndApply` closes the log with everything shown; and `flush_sync()` returns
only when everything is, which is what `RowsInv` says of its last test. Every
other step stutters (`NotSeen`), `FlushPop` because it takes a batch from the
queue into the hand (`PopKeepsBatches`).

### Thread pool

`ThreadPoolProofs` proves the safety properties of the `pool` run for every
number of workers, callers and tasks, from `PoolAssumption`:

- `PoolTypes`, `PendingTrue`, `WakeupsKept`: `Spec => []` of `TypeOK`,
  `PendingExact`, `NoLostWakeup`.
- `Refinement`: `Spec => IsForkJoin`.

That `pending_` never falls below zero already needs `PendingExact`: a worker
that subtracts one holds a task that was counted. `NoLostWakeup` needs that a
worker whose predicate failed still has the mutex (`OwnMutex`) and in which
order the tokens are stopped and their callbacks run (`StopOrder`). The
refinement needs that a task is in one place only (`Once`, `Held`) and that a
caller outside `run()` has none (`IdleHasNone`). `Submit` is the abstract call,
`RunTask` the execution, `RunReturns` the return, the rest stutters. That a
caller never returns before its own tasks have run follows from `PendingExact`:
when the shared count is zero, nobody has a task left.

### Loaders

`LoaderProofs` proves, for every set of files, every schema and every way text
is read as numbers:

- `LoaderTypes`, `ColumnsKept`, `AllClosed`, `FileIsLoaded`, `LoadersAgree`:
  `Spec => []` of `LoadTypeOK`, `ColumnsSound`, `NothingLeaks`, `BulkIsFile`,
  `CleanFilesAgree`.
- `CodesKept`: `Spec => CodesStay`.

`LoaderAssumption` says that a file is a sequence of lines of at least one
field, that a schema gives each name a type, that taking off a carriage return
leaves text, and that the limits are numbers and a batch has a row;
`ColumnsAssumption` that both parsers know the same texts, the empty one among
them. The invariant `LoadInv` says where `from_csv` is (`Place`), how far
(`Progress`), and that both tables are sound for the rows read or sent
(`Tables`), the bulk one before its number of rows is set. It rests on one
lemma per layer of the code: `EncodeKeeps` (a code is the position in the
dictionary), `AppendKeeps` (one field), `FeedKeeps` (one line, however ragged),
`BatchKeeps` (one batch). `KnownReached` shows that each column a header makes
has a field that named it, and so a type: the count of known fields grows by one
at a time. `CodesKept` follows from the same lemmas.

What the tables *contain* is `TextInv`, on top of `LoadInv`: entry r of a column
shows the token of line r in that column's field (`Shows`), where the field is
the one the header gave the column (`FieldOf`) or, for the streamed table, its
position. It has the same layers (`AppendShows`, `FeedShows`, `BatchShows`): a
field appended shows its token and no entry before it changes, although the
dictionary may have grown in between. The rows of the file are its lines that
are not blank, in order; that the r-th row is the r-th such line is counted by
`Rank` and `Nth`, whose lemmas (`RankNext`, `NthExists`, `NthOfRank`) go by
induction from a smallest counterexample (`LeastNumber`). `FileIsLoaded` then
needs that the lookup by name finds the last field of the header with that name
(`ColumnOfName`), and `LoadersAgree` that with a clean header field and position
are the same (`CleanLines`, `CleanColumns`).

### Queries

`ExecutorProofs` proves, for every table that can be loaded, every query and
any number of threads:

- `ProcessSurvives`, `QueryTypes`, `GreatestPrinted`: `Spec => []` of
  `FrontEndsSurvive`, `QueryTypeOK`, `TopPrinted`.
- `RunInvariant`: `Spec => []RunInv`, the invariant of `agg()`.

`ExecutorAssumption` says what the arguments of a query are, that text is read
as an integer and as a double, and that the two infinities and NaN are no
numbers.

`FrontEndsSurvive` needs that names a front end let through stay columns of the
table queried, that the tasks that are left are among those cut from it, and
that there are none without rows (`NamesChecked`).

`RunInv` says what a query has computed at any point in between: the query was
built from a table whose entries have the types of their columns, from the
text the file showed (`BuiltWell`); the mask has the right bit on every row of
every filter task that has run, and on *every* row when the last one has
(`Masked`); each slot holds what its task computes from that mask (`Reduced`);
the vectors of the answer belong together and are in order once they are sorted
(`Vectors`). The step from the last filter task to the first reduce task is the
interesting one: that no row keeps the 1 it was initialised with is that the
ranges tile the rows (`TilesCover`), which `MapTiles` shows for chunks of any
size by bounds b[0] <= ... <= b[k], the last ranges being empty or ending before
they start. `TopPrinted` needs that a printed grouped answer was sorted; an
answer without groups has one value (`FoundCount`).

### Answers

`ExecutorAnswer` proves what a query is for, from the same assumptions:

- `Answers`: `Spec => []AnswerIsAggregate`.

`AnswerIsAggregate` is not inductive: it speaks of finished queries only. Until
`Emit` it is `RunInv` that is carried along, and `Answers` derives the answer
from it in the step that emits (`EmitAnswers`); sorting, handing out and printing
then keep it (`SortAnswers`, `ShowAnswers`), because an order of `std::sort`
reaches every place of the vectors exactly once (`OrdersAreOnto`). The way from
the slots to the reference definition:

1. *Folds.* What the loops of the kernels and the merge compute is a `Fold`, a
   recursive function. That it has values at all is shown once (`ScanExists`),
   what they are with `ScanKeeps`, both by induction from a smallest
   counterexample. A sum is told by three facts (`IsSum`: NaN or both infinities
   make it NaN, one infinity makes it that, else it is the sum of the integers),
   an extreme by two (`IsLeast`, `IsGreatest`: it is one of the values or what
   the fold started with, and none is below it). All three join over sets of
   rows that are apart (`SumJoin`, `LeastJoin`, `GreatestJoin`), whatever the
   order. This is where addition being associative on exact numbers, NaN and
   infinities included, is used.
2. *Tasks.* `Accumulates(a, y, R)` says that accumulator `a` stands for the
   terms `y` of the rows `R`. Each task's does so for its range
   (`AccumulatePart`), merging two is the union (`MergePart`), and as the ranges
   tile the rows (`TasksTile`, `TilesNext`) the fold over the slots stands for
   all of them (`PartsJoin`, `MergedJoins`).
3. *Rows.* The mask leaves the rows that satisfy the reference `Matches`
   (`SelectedIsKept`), which compares strings where the code compares codes and
   -1 for a string nobody has (`MatchesHolds`). Without groups a sum under a
   mask is over all rows, those rejected times 0: their term is 0 (`GatedSum`) or,
   when it is not finite, NaN (`GatedNaN`). What the counts of ranges that end
   before they start can do is in `GlobalAnswer`: nothing to a sum, and to an
   extreme only to make it 0 (`ExtremeIs`).
4. *Groups.* Each row is in one group (`OneGroup`), and two rows are in the
   same group just when they are shown under the same keys (`LabelIs`,
   `LabelsDiffer`): the quotient toward zero, times the bucket, is the multiple
   `Bucket` chooses (`BucketIs`), and codes are positions in a dictionary
   without repetitions. The groups that are emitted are the labels of the
   selected rows, each once (`EmittedRows`, `RowsCount`).

The two exceptions the property names are errors of the code and not gaps of the
proof: `threads_disagree` shows the first, and an infinite measure in a row
that a filter rejects is the second.

### Only model-checked

Every safety property of a passing run is stated by a theorem. Left to TLC:

- Liveness (`Delivered`, `FullIsMomentary`, `CallsReturn`, `DestructionEnds`,
  `HandedOffIsShown`, `EveryTaskRuns`, `RunEndsUndisturbed`), which needs
  ENABLED, beyond the backends used here. The theorems about wake-ups
  (`WakeupsKept`) are the safety half of it: nobody sleeps whom no notify will
  reach.

## Not modelled

- Memory orders other than what the code uses are not explored; the acquire
  and release operations are modelled by what they guarantee.
- Allocation failure outside `from_csv`; the registry of `shared()`, a map
  under one mutex; `pending_rows()` and `batches_flushed()`, whose values only a
  progress line prints and no doc explains while rows are on their way.
- Bytes: finding delimiters and line ends, and what number a text is
  (`IntOf`, `DblOf`). Rounding and the order of floating-point additions, and
  integers beyond 2^53 as doubles. Grouping by doubles that are not finite,
  whose conversion to an integer is undefined (guard of `GroupBy`).
- A file that changes while it is mapped.
- Formatting, labels, statistics, timing, usage texts, `Table_describe`; the
  conversion of Python arguments; `bench_scan`, the demos and the data tools,
  which only call the above.

## Plan

What would say more about the code, in this order:

1. *Rounding.* Doubles are exact in `Executor`. A model of a few bits of mantissa
   would show where one thread and several may differ in the last digit, and
   which ids beyond 2^53 an `==` filter confuses.
2. *Progress counters.* `pending_rows()` and `batches_flushed()` are read without
   any order promised; they become worth modelling when something relies on them.
3. *Files that change* while they are mapped, once the loader handles them.
4. *The two loaders.* `CleanFilesAgree` covers the files on which they agree. If
   `cmd_stream` comes to map by header, `SameAnswers` takes its place, and the
   lemmas about lines (`LoaderProofs`) carry over.
