------------------------------ MODULE Pipeline ------------------------------
(***************************************************************************)
(* The streaming side of one query: the ScanQueryProcessor driver, its     *)
(* GroupByStatement (time buckets), and the node chain it owns, as built   *)
(* by the two builders of the code:                                        *)
(*   - Builder::build_query_processor: [RandomSamplingNode, TerminalNode]  *)
(*   - QueryParser::parse_processing_topology: [Limiter, TerminalNode]     *)
(* The storage operator that calls put/stop/set_error and the cursor that  *)
(* receives the samples are the environment.  Everything runs on one       *)
(* thread; one driver call (with all the node calls it makes) is one step. *)
(***************************************************************************)
EXTENDS Integers, Sequences, FiniteSets

CONSTANTS
    Ids,         \* series ids the storage operator yields
    Begin, End,  \* the query range; Begin > End means a backward scan
    Step,        \* group-by time step; 0 means no group-by statement
    SamplerCap,  \* reservoir size of the random sampler; 0 means no sampler
    Limit,       \* limiter's limit; Limit = Offset = 0 means no limiter
    Offset,      \* limiter's offset
    Budgets,     \* how many puts the cursor may accept before it refuses
    MaxPuts      \* bound on the number of driver puts (model bound)

ASSUME PipelineAssumption ==
    /\ Ids \subseteq Nat \ {0}
    /\ Begin \in Nat /\ End \in Nat
    /\ Step \in Nat
    /\ SamplerCap \in Nat /\ Limit \in Nat /\ Offset \in Nat
    \* the two builders never put a sampler and a limiter in one chain
    /\ SamplerCap = 0 \/ (Limit = 0 /\ Offset = 0)
    /\ Budgets \subseteq Nat /\ Budgets # {}
    /\ MaxPuts \in Nat

-----------------------------------------------------------------------------
NoId == 0
FWD == "fwd"
BWD == "bwd"

\* ScanQueryProcessor constructor: bounds and direction of the scan
QLower == IF Begin < End THEN Begin ELSE End
QUpper == IF Begin < End THEN End ELSE Begin
direction == IF Begin > End THEN BWD ELSE FWD

Sample == [ts : Nat, id : Ids \cup {NoId}, kind : {"data", "empty"}]

\* samples the storage operator yields: inside [QLower, QUpper)
DataSample == [ts : QLower .. (QUpper - 1), id : Ids, kind : {"data"}]

\* EMPTY_SAMPLE with its timestamp set: a group-by bucket marker
Marker(t) == [ts |-> t, id |-> NoId, kind |-> "empty"]

\* the storage operator yields samples in time order in the scan's direction
Later(s, prev) ==
    IF direction = FWD
    THEN s.ts > prev.ts \/ (s.ts = prev.ts /\ s.id > prev.id)
    ELSE s.ts < prev.ts \/ (s.ts = prev.ts /\ s.id > prev.id)

\* RandomSamplingNode::flush's sort predicate: (timestamp, paramid) ascending
Before(x, y) == x.ts < y.ts \/ (x.ts = y.ts /\ x.id < y.id)

TopologyHasLimiter == Limit # 0 \/ Offset # 0
TopologyHasSampler == SamplerCap # 0

-----------------------------------------------------------------------------
VARIABLES
    first_hit, lowerbound, upperbound,  \* GroupByStatement
    samples,                            \* RandomSamplingNode::samples_
    counter,                            \* Limiter's count of puts
    calls,      \* cursor: every sample put to it, in order
    budget,     \* cursor: it accepts the first `budget` puts
    completed,  \* cursor: complete() reached it
    errored,    \* cursor: set_error() reached it
    phase,      \* storage operator: "running", "halted" or "stopped"
    inputs      \* storage operator: the samples it has put so far

vars == <<first_hit, lowerbound, upperbound, samples, counter, calls,
          budget, completed, errored, phase, inputs>>

\* The node-chain state threaded through one driver call; ok is the result
\* of the last put.
Chain == [ok |-> TRUE, samples |-> samples, counter |-> counter, calls |-> calls]

\* TerminalNode::put forwards to the cursor, which answers true to its first
\* `budget` puts.
TerminalPut(s, r) ==
    [r EXCEPT !.calls = Append(@, s), !.ok = Len(r.calls) < budget]

\* Limiter::put: skip the first Offset puts, forward the next Limit, then
\* refuse.  Without a limiter the root is the terminal.
LimiterPut(s, r) ==
    IF ~TopologyHasLimiter THEN TerminalPut(s, r)
    ELSE IF r.counter < Offset THEN [r EXCEPT !.counter = @ + 1, !.ok = TRUE]
    ELSE IF r.counter < Offset + Limit
         THEN TerminalPut(s, [r EXCEPT !.counter = @ + 1])
    ELSE [r EXCEPT !.ok = FALSE]

\* The permutations that stable_sort may apply to the buffer: they order it
\* by (timestamp, paramid).
SortPerms(b) ==
    {p \in [1 .. Len(b) -> 1 .. Len(b)] :
        \A i, j \in 1 .. Len(b) : i < j => Before(b[p[i]], b[p[j]])}

\* Bug variant of RandomSamplingNode::flush: the sort left out.
FlushUnsorted(r, p) ==
    LET sb   == r.samples
        ok   == Len(r.calls) + Len(sb) <= budget \/ sb = <<>>
        made == IF ok THEN Len(sb)
                ELSE IF budget - Len(r.calls) + 1 > 1
                     THEN budget - Len(r.calls) + 1 ELSE 1
    IN  [ok |-> ok, samples |-> IF ok THEN <<>> ELSE sb,
         counter |-> r.counter, calls |-> r.calls \o SubSeq(sb, 1, made)]

\* RandomSamplingNode::flush: sort the buffer in place, put its samples to
\* the terminal one by one and stop at the first refusal; the buffer is
\* cleared only when every put succeeded.
Flush(r, p) ==
    LET sb   == [i \in 1 .. Len(r.samples) |-> r.samples[p[i]]]
        ok   == Len(r.calls) + Len(sb) <= budget \/ sb = <<>>
        made == IF ok THEN Len(sb)
                ELSE IF budget - Len(r.calls) + 1 > 1
                     THEN budget - Len(r.calls) + 1 ELSE 1
    IN  [ok      |-> ok,
         samples |-> IF ok THEN <<>> ELSE sb,
         counter |-> r.counter,
         calls   |-> r.calls \o SubSeq(sb, 1, made)]

\* RandomSamplingNode::put: a marker flushes; a sample is appended while
\* the buffer has room, else it overwrites slot random() % size, which is
\* always a slot of the full buffer.
SamplerPut(s, r, p, ix) ==
    IF s.kind = "empty" THEN Flush(r, p)
    ELSE IF Len(r.samples) < SamplerCap
         THEN [r EXCEPT !.samples = Append(@, s), !.ok = TRUE]
    ELSE [r EXCEPT !.samples[ix] = s, !.ok = TRUE]

\* the slots random() % size may pick (one dummy slot without a sampler)
Slots == 1 .. (IF SamplerCap > 1 THEN SamplerCap ELSE 1)

\* root_node_->put
RootPut(s, r, p, ix) ==
    IF TopologyHasSampler THEN SamplerPut(s, r, p, ix) ELSE LimiterPut(s, r)

-----------------------------------------------------------------------------
Init ==
    /\ first_hit = TRUE
    /\ lowerbound = 0
    /\ upperbound = 0
    /\ samples = <<>>
    /\ counter = 0
    /\ calls = <<>>
    /\ budget \in Budgets
    /\ completed = FALSE
    /\ errored = FALSE
    /\ phase = "running"
    /\ inputs = <<>>

\* GroupByStatement::put, first sample: align the bucket to ts / step * step
Aligned(ts) == (ts \div Step) * Step

\* Bug variant: the first bucket aligned one step too low.
GroupByStartOffByOne(ts) ==
    IF first_hit THEN [lo |-> Aligned(ts) - Step, up |-> Aligned(ts)]
    ELSE [lo |-> lowerbound, up |-> upperbound]

GroupByStart(ts) ==
    IF first_hit THEN [lo |-> Aligned(ts), up |-> Aligned(ts) + Step]
    ELSE [lo |-> lowerbound, up |-> upperbound]

\* Bug variant: the bucket is not moved after a marker.
GroupByMoveMissing(b, fwd) == b

\* GroupByStatement::put: after a marker the bucket moves ONE step
GroupByMove(b, fwd) ==
    IF fwd THEN [lo |-> b.lo + Step, up |-> b.up + Step]
    ELSE [lo |-> b.lo - Step, up |-> b.up - Step]

\* Bug variant: the result of putting the marker is ignored.
GroupByPutIgnoresRefusal(s, p, ix) ==
    LET b   == GroupByStart(s.ts)
        fwd == s.ts >= b.up
        bwd == ~fwd /\ s.ts < b.lo
        m   == RootPut(Marker(b.up), Chain, p, ix)
    IN  IF Step = 0
        THEN [bucket |-> [lo |-> lowerbound, up |-> upperbound],
              chain  |-> RootPut(s, Chain, p, ix)]
        ELSE IF ~fwd /\ ~bwd THEN [bucket |-> b, chain |-> RootPut(s, Chain, p, ix)]
        ELSE [bucket |-> GroupByMove(b, fwd), chain |-> RootPut(s, m, p, ix)]

(***************************************************************************)
(* GroupByStatement::put.  A sample at or past the upper bound (forward)   *)
(* or below the lower bound (backward) sends ONE marker stamped with the   *)
(* upper bound and moves the bucket one step; a refused marker returns     *)
(* false before the bucket moves and before the sample is put.  Returns    *)
(* the new bucket and the chain after the call.                            *)
(***************************************************************************)
GroupByPut(s, p, ix) ==
    LET b   == GroupByStart(s.ts)
        fwd == s.ts >= b.up
        bwd == ~fwd /\ s.ts < b.lo
        m   == RootPut(Marker(b.up), Chain, p, ix)
    IN  IF Step = 0
        THEN [bucket |-> [lo |-> lowerbound, up |-> upperbound],
              chain  |-> RootPut(s, Chain, p, ix)]
        ELSE IF ~fwd /\ ~bwd THEN [bucket |-> b, chain |-> RootPut(s, Chain, p, ix)]
        ELSE IF ~m.ok THEN [bucket |-> b, chain |-> m]
        ELSE [bucket |-> GroupByMove(b, fwd), chain |-> RootPut(s, m, p, ix)]

(***************************************************************************)
(* ScanQueryProcessor::put: the storage operator puts the next sample of   *)
(* the scan; the driver hands it to the group-by statement.  The storage   *)
(* operator stops putting once a put returned false.                       *)
(***************************************************************************)
Put ==
    /\ phase = "running"
    /\ Len(inputs) < MaxPuts
    /\ \E s \in DataSample, p \in SortPerms(samples), ix \in Slots :
        /\ IF inputs = <<>> THEN TRUE ELSE Later(s, inputs[Len(inputs)])
        /\ LET g == GroupByPut(s, p, ix)
           IN  /\ first_hit' = (first_hit /\ Step = 0)
               /\ lowerbound' = g.bucket.lo
               /\ upperbound' = g.bucket.up
               /\ samples' = g.chain.samples
               /\ counter' = g.chain.counter
               /\ calls' = g.chain.calls
               /\ phase' = IF g.chain.ok THEN "running" ELSE "halted"
               /\ inputs' = Append(inputs, s)
    /\ UNCHANGED <<budget, completed, errored>>

(***************************************************************************)
(* ScanQueryProcessor::stop -> root_node_->complete(): the sampler flushes *)
(* what it holds (ignoring the result) and completes its next node; the    *)
(* limiter and the terminal pass complete on to the cursor.                *)
(***************************************************************************)
Stop ==
    /\ phase \in {"running", "halted"}
    /\ \E p \in SortPerms(samples) :
        LET r == IF TopologyHasSampler THEN Flush(Chain, p) ELSE Chain
        IN  /\ samples' = r.samples
            /\ calls' = r.calls
    /\ completed' = TRUE
    /\ phase' = "stopped"
    /\ UNCHANGED <<first_hit, lowerbound, upperbound, counter, budget,
                   errored, inputs>>

(***************************************************************************)
(* ScanQueryProcessor::set_error -> root_node_->set_error(): every node    *)
(* forwards it, the terminal hands it to the cursor.  No node records it.  *)
(***************************************************************************)
SetError ==
    /\ phase \in {"running", "halted"}
    /\ ~errored
    /\ errored' = TRUE
    /\ UNCHANGED <<first_hit, lowerbound, upperbound, samples, counter,
                   calls, budget, completed, phase, inputs>>

Next == Put \/ Stop \/ SetError

Spec == Init /\ [][Next]_vars

-----------------------------------------------------------------------------
TypeOK ==
    /\ first_hit \in BOOLEAN
    /\ lowerbound \in Nat /\ upperbound \in Nat
    /\ samples \in Seq(Sample)
    /\ counter \in Nat
    /\ calls \in Seq(Sample)
    /\ budget \in Budgets
    /\ completed \in BOOLEAN /\ errored \in BOOLEAN
    /\ phase \in {"running", "halted", "stopped"}
    /\ inputs \in Seq(DataSample)

(***************************************************************************)
(* Backpressure (ScanQueryProcessor::put, GroupByStatement::put, Limiter,  *)
(* RandomSamplingNode::flush/complete): once the cursor has refused a put  *)
(* it is never called again -- a false return halts the stream.  The       *)
(* cursor refuses exactly the puts after its first `budget`.               *)
(***************************************************************************)
NoCallAfterRefusal == Len(calls) <= budget + 1

(***************************************************************************)
(* Group-by markers (GroupByStatement::put): the bucket markers the cursor *)
(* receives move strictly in the scan's direction, and every sample that   *)
(* follows a marker lies beyond the bucket the marker closed (at or above  *)
(* it going forward, below its bucket [ts - Step, ts) going backward).     *)
(***************************************************************************)
PastBucket(m, x) ==
    IF direction = FWD
    THEN IF x.kind = "empty" THEN x.ts > m.ts ELSE x.ts >= m.ts
    ELSE IF x.kind = "empty" THEN x.ts < m.ts ELSE x.ts + Step < m.ts

MarkersAdvance ==
    \A i, j \in 1 .. Len(calls) :
        i < j /\ calls[i].kind = "empty" => PastBucket(calls[i], calls[j])

(***************************************************************************)
(* Group-by bucket move (GroupByStatement::put): a step that puts a marker *)
(* to the cursor opens the bucket the marker bounds -- going forward the   *)
(* new lower bound is the marker's timestamp, going backward the new upper *)
(* bound is one step below it -- unless the stream halted on that step.    *)
(***************************************************************************)
MarkerOpensBucket ==
    [][\A k \in (Len(calls) + 1) .. Len(calls') :
           calls'[k].kind = "empty" =>
               \/ phase' = "halted"
               \/ IF direction = FWD THEN lowerbound' = calls'[k].ts
                  ELSE upperbound' + Step = calls'[k].ts]_vars

(***************************************************************************)
(* Group-by alignment (GroupByStatement::put): the first sample opens the  *)
(* bucket ts / step * step that holds it, and each marker is stamped with  *)
(* the bound of the bucket it closes.  So every marker the cursor receives *)
(* follows a data sample that lies in that bucket [ts - Step, ts) or past *)
(* it in the scan's direction: going forward at or above ts - Step, going  *)
(* backward below ts.  A bucket aligned one step off sends a marker before *)
(* any sample, or one that closes a bucket the stream never entered.       *)
(***************************************************************************)
MarkerClosesBucket ==
    \A k \in 1 .. Len(calls) :
        calls[k].kind = "empty" =>
            /\ k > 1
            /\ calls[k - 1].kind = "data"
            /\ IF direction = FWD THEN calls[k - 1].ts + Step >= calls[k].ts
               ELSE calls[k - 1].ts < calls[k].ts

(***************************************************************************)
(* Spec 4.E / 8: GroupByTime emits a marker at EACH bucket boundary the    *)
(* stream crosses: between two consecutive data samples the cursor gets as *)
(* many markers as there are boundaries between their buckets (forward).   *)
(***************************************************************************)
MarkersBetween(i, j) ==
    Cardinality({k \in (i + 1) .. (j - 1) : calls[k].kind = "empty"})

MarkerPerBoundary ==
    \A i, j \in 1 .. Len(calls) :
        /\ i < j
        /\ calls[i].kind = "data" /\ calls[j].kind = "data"
        /\ \A k \in (i + 1) .. (j - 1) : calls[k].kind = "empty"
        => MarkersBetween(i, j) = calls[j].ts \div Step - calls[i].ts \div Step

(***************************************************************************)
(* Random sampler (RandomSamplingNode::flush): a forward scan reaches the  *)
(* cursor sorted by (timestamp, paramid), up to the put the cursor refused, *)
(* although the reservoir overwrites slots in random order and a flush may *)
(* be cut short by the refusal: each flush sorts, and flush intervals      *)
(* follow the time order of the scan.                                      *)
(***************************************************************************)
OutputSorted ==
    direction = FWD =>
        \A i, j \in 1 .. Len(calls) :
            i < j /\ j <= budget + 1 => Before(calls[i], calls[j])

=============================================================================
