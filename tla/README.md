# Formal models of the Akumuli query path

This directory holds TLA+ models of the query side of libakumuli:

- the query parser (`query_processing/queryparser.cpp`);
- the series resolution it performs (`SeriesRetreiver`);
- the two-tier query plan (`query_processing/queryplan.cpp`);
- the streaming driver with its group-by buckets (`queryprocessor.cpp`);
- the processing nodes a query's samples pass through (`randomsamplingnode.cpp`, the limiter and the terminal node);
- the legacy query path of `queryprocessor.cpp`: `Builder::build_query_processor`, its `RegexFilter` and the `MetadataQueryProcessor`;
- the PAA counters (`query_processing/paa.cpp`).

Runs of TLC check the models on small instances. TLAPS proves ten theorems for every value of the constants.

## The system and how its parts interact

A query is a JSON document. It goes through these steps:

1. `QueryParser::get_query_kind` reads the first of `select`, `aggregate`, `join` and `group-aggregate`.
2. The caller dispatches to the parse function of that kind.
3. Every parse function first calls `validate_query`. It then parses the statements: order-by, group-by, where, range, and the kind's own statement.
4. The where clause is resolved into series ids by `SeriesRetreiver::extract_ids`, a regex over the series names.
5. The result is a `ReshapeRequest`.
6. `QueryPlan`'s constructor calls `create_plan`. That chooses a builder (`create_scan`, `create_aggregate`, `create_join` or `create_group_aggregate`), and the builder produces a tier-1 stage (per-series storage operators) and a tier-2 stage (materialization). A builder aborts the process (`AKU_PANIC`) on a request it cannot handle.
7. `parse_processing_topology` builds the node chain: an optional `Limiter`, then a `TerminalNode` that forwards to the cursor.

The older builder (`Builder::build_query_processor`) builds a `ScanQueryProcessor` instead. That processor drives a `GroupByStatement` (time buckets) and a chain `[RandomSamplingNode..., TerminalNode]`.

The storage operator calls `put` for each sample, then `stop`, or `set_error`. A `put` returning false tells it to stop the scan. All of this runs on one thread.

The legacy builder also builds a `RegexFilter` from the where clause. The storage calls its `apply(id)` for each series it scans. Meanwhile the ingest thread keeps interning new series names into the string pool. The filter's constructor reads the pool size (`prev_size_`) and scans the pool once. `apply` rescans the rest of the pool when the size differs from `prev_size_`. For `select: names` the builder returns a `MetadataQueryProcessor` instead, whose `start` puts one id-only sample per filter id.

## Modules

| Module | Models | Source |
|---|---|---|
| `Pipeline` | the streaming driver, the group-by buckets and the node chain, under a cursor that refuses puts after an arbitrary budget | queryprocessor.cpp 113-233, randomsamplingnode.cpp, queryparser.cpp 918-978 |
| `MCPipeline` | the harness TLC runs `Pipeline` through, with constants from each .cfg | |
| `PipelineProofs` | TLAPS proofs about `Pipeline` | |
| `GroupByProofs` | TLAPS proofs of the group-by marker properties | |
| `BucketProofs` | TLAPS proof that every marker closes a bucket the stream entered | |
| `SamplerProofs` | TLAPS proof that a forward scan through the sampler reaches the cursor sorted | |
| `QueryParser` | `validate_query`, `get_query_kind`, every statement parser, `SeriesRetreiver`, the five parse functions, `parse_processing_topology` | queryparser.cpp |
| `QueryPlan` | the four builders and `create_plan`, each `AKU_PANIC` as the plan `PanicPlan` | queryplan.cpp 117-388 |
| `QueryService` | one query through the parser, the plan builder and the topology builder | the caller (spec 2) |
| `MCQuery` | a five-series catalog and families of queries for TLC | |
| `LegacyQuery` | `build_query_processor` and its parse helpers, `RegexFilter` racing the ingest thread, `MetadataQueryProcessor` | queryprocessor.cpp 63-99, 247-496 |
| `MCLegacy` | a catalog and families of legacy queries for TLC | |
| `LegacyProofs` | TLAPS proofs that `RegexFilter` answers exactly and that a names query lists its matches | |
| `PAAProofs` | TLAPS proofs of the PAA counters' type and of the max counter's value | |
| `PAACounters` | `MeanCounter`, `MedianCounter`, `MaxCounter` | paa.cpp |
| `MCPAA` | the values fed to the counters | |

### Pipeline

State:

- The variables `first_hit`, `lowerbound` and `upperbound` are `GroupByStatement`'s fields.
- `samples` is the sampler's buffer.
- `counter` is the limiter's count of puts.
- The cursor is the environment. `calls` holds every sample it received, and `budget` is the number of puts it accepts before refusing.
- `phase` and `inputs` are the storage operator.

Actions:

- `Put` is `ScanQueryProcessor::put`. It is one whole driver call: the group-by statement, its markers and every node call they make. The operators are `GroupByPut`, `RootPut`, `SamplerPut`, `Flush`, `LimiterPut` and `TerminalPut`. Each one returns the new chain state and the boolean result.
- `Stop` is `stop` → `complete`. It includes the sampler's flush, whose result is ignored.
- `SetError` is `set_error`.

Modelling choices:

- `std::stable_sort` is nondeterministic over the sorting permutations (`SortPerms`).
- `random() % size` is any slot of the full buffer.
- The two builders never put a sampler and a limiter in one chain. This is stated in `PipelineAssumption`.

### QueryParser, QueryPlan, QueryService

The data abstraction:

- A query is a sequence of `[key, val]` statements in document order, with duplicates kept, as a property tree keeps them.
- `Get` returns the first statement with a key, as `get_child_optional` does.
- Series names are catalog entries (a metric and a tag record), and a series id is the entry's index.
- The regex that `extract_ids` builds is modelled by what it matches (`NameMatches`): the metric, and for each where tag one of its listed values.
- Timestamps and durations are abstracted to a complete or incomplete range, and to a step that parses (10), is zero, or does not parse.

Parsing:

- `GAStep` is one iteration of the loop in `parse_group_aggregate_stmt`, including its `break`s. `ParseGroupAggregateStmt` folds it over the statement (`FoldLeft`).
- `ExtractIds` reproduces the column-major result of several metrics. A missing alternative series gives id 0.
- `GroupByTag` is not in these sources. Its transient map (`TransientMap`) is modelled from the spec: each series maps to the first series of the metric with the same group-by tags.

`QueryService` has the actions `Receive`, `Parse`, `BuildPlan` and `BuildTopology`. `Parse` calls `get_query_kind` and then the parse function of that kind. `phase` records how the query ended:

- "listed": a meta query succeeded;
- "rejected": a parse returned an error status;
- "crashed": the parser or a builder hit `AKU_PANIC`;
- "ready": a plan and a topology were built.

### LegacyQuery

The state:

- The string pool is the first `interned` names of the catalog. `Ingest` (the ingest thread) interns the next one, so a name's id is its position.
- `filter`, `prev_size`, `offset` and `ids` are the `RegexFilter`'s fields. The regex is modelled by the names it matches (`FilterMatches`).
- `probe` is an `apply` call that has read the pool size and found it changed, but has not yet refreshed.
- `answers` records every `apply` result, with the pool size it read.
- `calls`, `budget` and `errored` are the cursor.

The actions:

- `Build(q)` runs the parse helpers in the code's order (`BuildFront`: group-by, select, where). It stops at the first that throws. With a filter to build, the constructor reads the pool size.
- `FilterCtor` is the constructor's `refresh`, followed by the rest of the builder (`BuildRest`): the select/sample conflict, the range, the samplers, and `ScanQueryProcessor`'s GROUP_BY_REQUIRED check. The two steps are separate because ingestion may run between the size read and the scan.
- `ApplyCheck(id)` and `ApplyRefresh` are `apply`, split at its size check. Without a size change, `ApplyCheck` answers directly.
- `MetaStart` puts the ids of `get_ids` (an `unordered_set`: any order) up to the first refusal. It crashes on a null filter. `MetaStop` and `MetaSetError` are the other two processor calls.

The data abstraction:

- A legacy query is the sequence of its statements.
- A where item records its tag, whether its value is a scalar, and its listed values.

### PAACounters

Each counter keeps the values added since its reset (`mean_in`, `med_in`, `max_in`) as history for the properties.

`MedianEval` is `MedianCounter::value`. It is `const`, yet `partial_sort` reorders `acc` in place. The model therefore lets it leave any permutation whose first size/2+1 elements are the smallest, in order (`PartialSorts`). Later adds append to the reordered vector.

The values are small even integers. The code's double sums and its average of two are then exact.

## Runs

All runs are safety checks, and `CHECK_DEADLOCK FALSE` is set. After `stop`, or after a query reaches its final phase, the code makes no further call.

| Run | Expect | What it shows |
|---|---|---|
| groupby_fwd, groupby_bwd | pass | Group-by markers advance monotonically (`MarkersAdvance`). A step that sends a marker moves the bucket so that the marker bounds it from behind, unless the cursor refused (`MarkerOpensBucket`, an action property). Every marker follows a data sample that lies in the bucket the marker closes or past it, which fails when the first bucket is aligned one step off (`MarkerClosesBucket`). Nothing reaches the cursor after its refusal (`NoCallAfterRefusal`). Every budget from 0 to past the end is tried, in both scan directions. |
| sampler | pass | Every overwritten slot and every refusal point is tried. Up to the refused put, the output is sorted by (timestamp, id) (`OutputSorted`). |
| query_shapes | pass | 720 queries: every kind × order-by × group-by × where × range. Tier 1 scans exactly the series the where clause selects, in id order. Joins are row-aligned. Each plan has its kind's operators, functions and step. Group-by maps each tier-1 series to its group's representative. |
| legacy_filter | pass | The ingest thread interns names between every step of 12 legacy queries covering each builder path. `apply` processes only matching series, and every matching series interned before it read the pool size (`FilterAnswersExact`). A names query lists distinct matching ids, stops at the cursor's refusal, and otherwise lists every match interned before the filter was built (`MetaListsMatches`). |
| paa_counters | pass | Values -2 and 4 are added up to 4 times per interval, with resets and evaluations in any order. The mean counter's value is the sum and count of the interval (`MeanValueMatches`). The max counter's value is the interval's maximum, also when every value is below the 0 that `reset` leaves (`MaxValueMatches`). And every median returned is the median of its interval (`MedianValueIsMedian`). |
| sampler_refusal | violation | Finding 1. |
| query_limit_offset | violation | Finding 2. |
| query_step_zero | violation | Finding 3. |
| legacy_where_last_tag | violation | Finding 4. |
| legacy_null_filter | violation | Finding 5. |
| groupby_gap | violation | Finding 6. |

Four more configurations are not among the runs above. Each states what the spec says and TLC finds it violated: `MCQuery_conflict.cfg`, `MCQuery_where_dup.cfg`, `MCQuery_join_groupby.cfg` and `MCLegacy_scalar_where.cfg`. See "Further divergences" below.

### Bounds

Pipeline:

- 2 series ids and a range of 7 or 8 timestamps with step 2. A sample can therefore land in the same bucket, the next bucket, or several buckets ahead.
- 3 to 5 puts.
- Cursor budgets from 0 (refuse the first put) to beyond the last put.
- A reservoir of 2, so that the overwrite and the sort both happen.

Queries:

- The catalog has the cases that distinguish the properties:
  - a cpu series without a mem counterpart (join id 0);
  - two cpu series with the same host (group-by representatives);
  - a series with an extra tag.
- Statements cover every error path of each parser: a bad order-by, an incomplete range, an invalid function, a zero and an unparsable step, a duplicate step, and a one-metric join.

Legacy queries:

- 5 catalog names. Ingestion can interleave with the constructor's size read, its scan, and each `apply`, at every pool size from 0 to 5.
- 3 `apply` calls per scan. That is enough for a refresh and an answer both before and after a further ingest.
- Cursor budgets 0, 1 and 5: refuse at once, refuse mid-list, never refuse.

PAA counters:

- A negative and a positive value. This makes the reset value 0 wrong as a maximum.
- Up to 4 values per interval. That covers the one- and two-value special cases, and odd and even sizes of 3 and 4 where `partial_sort` matters.

### Mutants

Each property of a passing run is broken by a plausible bug in the definition it is about. The mutant operators sit just before the definition they replace:

- `GroupByStartOffByOne` (breaks `TypeOK` by underflow and `MarkerClosesBucket` by the marker it sends first), `GroupByMoveMissing`, `GroupByPutIgnoresRefusal`;
- `FlushUnsorted`;
- `GAStepUnchecked`, `NameMatchesAnyValue`;
- `JoinConcat`, `CreateScanNoChain`, `MapThroughIdentity`;
- `RefreshedReplaces` (refresh overwrites `ids_`), `MetaStartIgnoresRefusal`;
- `MeanResetKeepsNum`, `MedianEvalShort` (the partial sort stops before the middle), `MaxAddNoFirst` (the first value is compared with the reset 0).

## Findings

1. **Sampler re-delivers after a refusal** (randomsamplingnode.cpp:36). A flush refused by the cursor leaves the buffer full. `complete()` then flushes it again, and the cursor that returned false receives the samples again.
2. **`offset` is written to `limit`** (queryparser.cpp:342).
3. **A zero group-aggregate step crashes the server** (queryparser.cpp:755). The parse returns SUCCESS with an empty request, and `create_scan` aborts (queryplan.cpp:133).
4. **The legacy where clause keeps only its last tag** (queryprocessor.cpp:396). Every where item builds a `RegexFilter` and assigns it to the same result. `{host: [a], dc: [x]}` selects every series with dc=x, whatever its host.
5. **`where: {}` yields a null filter** (queryprocessor.cpp:401). The loop runs no iteration and `not_set` stays false. The builder returns a processor holding a null `shared_ptr`, which `MetadataQueryProcessor::start` and `filter()` dereference.
6. **One group-by marker per sample, not per boundary** (queryprocessor.cpp:146; `MarkerPerBoundary`). A sample several buckets ahead produces one marker and a one-step move, so the bucket trails the data. Spec 4.E/8 says each boundary gets a marker.

### Further divergences

Each of these is shown by the configuration named, with `tlc -config <cfg> <MC module>`:

- **`validate_query` checks nothing but unknown keys** (queryparser.cpp:500; `MCQuery_conflict.cfg`, `ValidatorRejectsConflicts`). The `keywords` set is never filled, so duplicate statements and select+aggregate queries are accepted.
- **A repeated where tag is accepted** (queryparser.cpp:403; `MCQuery_where_dup.cfg`, `WhereTagsDistinct`). The EBAD_ARG status of `add_tags` is dropped, and the second occurrence is ignored.
- **A join drops its group-by** (queryparser.cpp:886; `MCQuery_join_groupby.cfg`, `JoinGroupByRefused`). `parse_join_query` skips the statement ("TODO") and succeeds. Spec 4.D calls a join with group-by unsupported. `GroupByTier2` is therefore stated for select and aggregate only.
- **A scalar where value fails a legacy query** (queryprocessor.cpp:394; `MCLegacy_scalar_where.cfg`, `ScalarWhereAccepted`). `host: a` has no children, so the regex is `)`, which the filter's construction refuses. Spec 4.B allows a single value as a scalar.

## Proofs

### PipelineProofs

Both theorems hold for every value of the constants allowed by `PipelineAssumption`, which restates what the builders guarantee.

- `TypeCorrect`: `Spec => []TypeOK`.
  - `TypeOK` alone is not inductive. A put to a full reservoir overwrites a slot, and a group-by step subtracts `Step` from the bounds. The strengthening `IInv` adds two facts:
    - the buffer never exceeds `SamplerCap`;
    - once the first sample is seen, `lowerbound` is a multiple of `Step` and `upperbound = lowerbound + Step`.
  - So a backward move never goes below 0 while a sample at or above 0 lies below `lowerbound` (`MoveAligned`).
  - The proof has one lemma per node operation (`TerminalPutType`, `LimiterPutType`, `FlushType`, `SamplerPutType`, `RootPutType`, `GroupByPutType`) and one per action.
- `NoCallAfterRefusalHolds`: `Spec => []NoCallAfterRefusal` for chains without a sampler.
  - The strengthening `RInv` adds that a cursor that has refused (more than `budget` calls) implies a phase other than "running". The lemmas `TerminalPutRefusal`, `LimiterPutRefusal`, `RootPutRefusal` and `GroupByPutRefusal` show that each node's result is false whenever it made the refused call.
  - With a sampler the property is false (finding 1), so the theorem carries the hypothesis `SamplerCap = 0`.

### LegacyProofs

- `FilterAnswersExactHolds`: `Spec => []FilterAnswersExact`. It holds for every catalog and every interleaving with the ingest thread. The regex is left opaque.
- The strengthening `FilterInv` adds:
  - `ids_` is exactly the matches among the first `offset_` names;
  - `offset_` never trails the pool;
  - outside the constructor, `prev_size_ <= offset_`;
  - a pending `apply` read a size no larger than the pool.
- With these, an `apply` that sees no size change answers from a complete scan. An `apply` that refreshes scans up to a size at least the one it read.

### GroupByProofs

Both theorems hold for every range, step, sampler size, limiter and budget that `PipelineAssumption` allows.

- `MarkersAdvanceHolds`: `Spec => []MarkersAdvance`.
- `MarkerOpensBucketHolds`: `Spec => MarkerOpensBucket`, an action property.

`MarkersAdvance` is not inductive: whether the next marker lies past the last one depends on where the bucket is and where the last input was. The strengthening `GInv` adds:

- with a sampler or a zero step, the cursor only ever receives data (`AllData`);
- before the first sample nothing reached the cursor;
- while the stream runs, the last input lies beyond the bucket's front (`Beyond`), and every marker sent so far lies within it (`MarkersWithin`).

A new sample past the bucket sends the marker stamped with the bucket's upper bound, which is beyond every earlier marker. The bucket then moves one step, which brings the marker within the new front. The node lemmas (`RootPutCalls`, `RootPutPast`, `FlushData`, `SamplerPutData`) say what one put through the chain appends to `calls`. `GroupByPutNext` then covers one whole group-by put. For `MarkerOpensBucket`, the same lemma shows that the appended marker opens the new bucket (`OpensBucket`) whenever the chain answered true.

### BucketProofs

- `MarkerClosesBucketHolds`: in a chain without a limiter (`~TopologyHasLimiter`, as in every group-by run), `Spec => []MarkerClosesBucket`. It holds for every range, step, reservoir size and cursor budget.
- `MarkerClosesBucket` is not inductive. Whether a new marker closes a bucket the stream entered depends on what the cursor received last. The strengthening `BInv` is `GInv`, the property itself, and `LastCall`: while a group-by scan without a sampler runs past its first sample, the cursor's last call is the last input.
- `GroupByPutShape`: one group-by put appends one of three things to the calls: the sample; the marker of the bucket it started from, refused, which halts the stream; or that marker and then the sample.
- `MarkerAfterLast`: a marker comes after a data sample, and `GInv` places that sample in or past the current bucket, whose upper bound stamps the marker.
- `ClosesAppend` then extends the property across the append. On the first sample the bucket is aligned on it, and `GroupByPutFirst` shows that no marker is sent.

### LegacyProofs, names queries

- `MetaListsMatchesHolds`: `Spec => []MetaListsMatches`.
- It needs `LegacyAssumption`: budgets are natural numbers, because the cursor counts its puts.
- The strengthening `MetaInv` is `FilterInv`, the budget's type and `MetaListsMatches` itself.
- The proof enumerates the matching ids with `SetToSeqs`. `EnumerationOnto` shows that the enumeration is injective and has the length of the set, by a pigeonhole argument on finite sets (`FS_Injection`). So the ids listed are distinct matches, and an unrefused run lists them all.

### SamplerProofs

- `OutputSortedHolds`: with a sampler (`SamplerCap # 0`), `Spec => []OutputSorted`. It holds for every range, step, reservoir size and cursor budget. Without a sampler, `OutputSorted` is not claimed: no run checks it there.
- `OutputSorted` is not inductive. Whether the next flush continues the sorted output depends on what the reservoir holds. The strengthening `SortInv` (with `IInv`) adds, for a forward scan:
  - the calls are sorted up to the refused put (`SortedUpTo`);
  - while the cursor has not been sent more than its budget, every sample in the reservoir comes after every call;
  - before the first input nothing was buffered or sent;
  - no call and no buffered sample comes after the last input (`NotAfter`).
- The last conjunct makes the next input, which the storage yields in time order (`Later`), come after everything the cursor or the reservoir holds.
- `FlushSorted` says what one flush does:
  - it appends a sorted batch of reservoir samples;
  - it leaves the reservoir non-empty only after a refusal, and by then the cursor has received more than its budget.
- `GroupByPutExtends` covers one whole group-by put, in every branch of `GroupByPut`. `ConcatSorted` joins the two sorted parts.

### PAAProofs

- `PAATypeCorrect`: `Spec => []TypeOK`.
- `MaxValueMatchesHolds`: `Spec => []MaxValueMatches`. This is `MaxCounter`'s value against the maximum of what was added since the reset, for every set of values `PAAAssumption` allows.
- The strengthening `PInv` says:
  - each counter's `num` equals the number of values added since its reset;
  - once a value was added, `acc` is the maximum of them (`IsMaxOf`). This holds even though `reset` sets `acc` to 0, because the first `add` overwrites it.
- `MedianEvalPInv` shows that the in-place `partial_sort` of `MedianCounter::value` keeps the accumulator's type. It splits into the three cases of the code (fewer than two values, two values, more than two).

### What stays with TLC

Some things are only model-checked:

- all the query-side properties;
- `OutputSorted` without a sampler;
- `MeanValueMatches` and `MedianValueIsMedian`. These state what a fold (`FoldLeft`) or a sort computes for every input. That needs induction over data, which the installed provers cannot instantiate. `MaxValueMatches` avoids this: it is stated over the set of values (`Range`), not a fold;
- `MarkerClosesBucket` in a chain with a limiter, which counts markers like samples (not a topology any run builds).

No liveness is stated. The code has no waiting, retry or scheduling whose progress could be argued, and TLAPS does not handle liveness or ENABLED here anyway.

## Not modelled

- The string pool and `SeriesMatcher::add` are not in these sources. They are modelled from the spec as an append-only prefix of the catalog.
- `QP::Limiter` is not in these sources either. It is modelled from the spec, only so that the chain the builder makes is complete. No property is stated about it, since any would check the spec against itself.
- The `PAA<T>` node that drives the counters is in a header outside these sources. `PAACounters` models the counters alone, with any order of reset, add and value.
- `datetime.h` holds declarations only. Its conversions are abstracted to parsed or unparsable durations and to complete or incomplete ranges.
- The `ProcessingStep` classes: they call the column store.
- The unit tests.
