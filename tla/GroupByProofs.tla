---------------------------- MODULE GroupByProofs ----------------------------
(***************************************************************************)
(* Proof that the group-by markers the cursor receives advance in the      *)
(* scan's direction (Pipeline!MarkersAdvance), for every query range,      *)
(* step, sampler size, limiter and cursor budget.                          *)
(*                                                                         *)
(* The argument: without a sampler every root put appends at most the one  *)
(* sample it was given to the cursor, so the cursor's sequence only grows  *)
(* at its end; a marker is stamped with the upper bound of the current     *)
(* bucket, which lies past every earlier marker, and every later sample    *)
(* lies past the bucket the marker closed.  With a sampler, or without a   *)
(* group-by step, no marker ever reaches the cursor.                       *)
(***************************************************************************)
EXTENDS PipelineProofs

USE PipelineAssumption

\* every element of a sequence of samples is a data sample
AllData(c) == \A k \in 1 .. Len(c) : c[k].kind = "data"

\* MarkersAdvance for an arbitrary sequence of samples
MarkersAdvanceIn(c) ==
    \A i, j \in 1 .. Len(c) :
        i < j /\ c[i].kind = "empty" => PastBucket(c[i], c[j])

(***************************************************************************)
(* The front of a bucket is the bound the scan moves away from: the lower  *)
(* bound going forward, the upper bound going backward.  A marker is       *)
(* Within a front when it closed a bucket at or behind it; a sample is     *)
(* Beyond a front when it may follow such a marker.                        *)
(***************************************************************************)
FrontOf(bk) == IF direction = FWD THEN bk.lo ELSE bk.up

Within(m, v) == IF direction = FWD THEN m.ts <= v ELSE m.ts >= v + Step

Beyond(x, v) ==
    IF direction = FWD
    THEN IF x.kind = "data" THEN x.ts >= v ELSE x.ts > v
    ELSE IF x.kind = "data" THEN x.ts < v ELSE x.ts < v + Step

MarkersWithin(c, v) ==
    \A k \in 1 .. Len(c) : c[k].kind = "empty" => Within(c[k], v)

-----------------------------------------------------------------------------
\* A marker Within a front is passed by every sample Beyond it.
LEMMA WithinBeyond ==
    ASSUME NEW m \in Sample, NEW x \in Sample, NEW v \in Int,
           Within(m, v), Beyond(x, v)
    PROVE  PastBucket(m, x)
BY DEF Within, Beyond, PastBucket, Sample

\* Appending one sample past every marker keeps the markers advancing.
LEMMA AppendAdvance ==
    ASSUME NEW c \in Seq(Sample), NEW x \in Sample, MarkersAdvanceIn(c),
           \A k \in 1 .. Len(c) : c[k].kind = "empty" => PastBucket(c[k], x),
           NEW c2, c2 \in {c, Append(c, x)}
    PROVE  MarkersAdvanceIn(c2)
<1>1. CASE c2 = c
    BY <1>1
<1>2. CASE c2 = Append(c, x)
    <2>. SUFFICES ASSUME NEW i \in 1 .. Len(c2), NEW j \in 1 .. Len(c2),
                         i < j, c2[i].kind = "empty"
                  PROVE  PastBucket(c2[i], c2[j])
        BY DEF MarkersAdvanceIn
    <2>1. Len(c2) = Len(c) + 1 /\ i \in 1 .. Len(c) /\ c2[i] = c[i]
        BY <1>2
    <2>2. CASE j = Len(c) + 1
        BY <1>2, <2>1, <2>2
    <2>3. CASE j # Len(c) + 1
        BY <1>2, <2>1, <2>3 DEF MarkersAdvanceIn
    <2>. QED  BY <2>2, <2>3
<1>. QED  BY <1>1, <1>2

\* Appending a data sample, or a marker Within the front, keeps every
\* marker Within it.
LEMMA AppendWithin ==
    ASSUME NEW c \in Seq(Sample), NEW x \in Sample, NEW v,
           MarkersWithin(c, v), x.kind = "empty" => Within(x, v),
           NEW c2, c2 \in {c, Append(c, x)}
    PROVE  MarkersWithin(c2, v)
BY DEF MarkersWithin

\* A front that moved in the scan's direction keeps the markers Within it.
LEMMA WithinMoves ==
    ASSUME NEW c \in Seq(Sample), NEW v \in Int, NEW w \in Int,
           MarkersWithin(c, v),
           IF direction = FWD THEN v <= w ELSE w <= v
    PROVE  MarkersWithin(c, w)
<1>. SUFFICES ASSUME NEW k \in 1 .. Len(c), c[k].kind = "empty"
              PROVE  Within(c[k], w)
    BY DEF MarkersWithin
<1>0. c[k] \in Sample
    OBVIOUS
<1>1. c[k].ts \in Nat /\ Within(c[k], v)
    BY <1>0 DEF MarkersWithin, Sample
<1>2. CASE direction = FWD
    BY <1>1, <1>2 DEF Within
<1>3. CASE direction # FWD
    BY <1>1, <1>3 DEF Within
<1>. QED  BY <1>2, <1>3

-----------------------------------------------------------------------------
\* Limiter::put and TerminalNode::put append at most the sample they were
\* given to the cursor.
LEMMA LimiterPutCalls ==
    ASSUME NEW s, NEW r, ChainOK(r)
    PROVE  LimiterPut(s, r).calls \in {r.calls, Append(r.calls, s)}
<1>0. r \in ChainType
    BY DEF ChainOK
<1>1. TerminalPut(s, r).calls = Append(r.calls, s)
    BY <1>0, Zenon DEF TerminalPut, ChainType
<1>2. TerminalPut(s, [r EXCEPT !.counter = @ + 1]).calls = Append(r.calls, s)
    BY <1>0, Zenon DEF TerminalPut, ChainType
<1>3. [r EXCEPT !.counter = @ + 1, !.ok = TRUE].calls = r.calls
      /\ [r EXCEPT !.ok = FALSE].calls = r.calls
    BY <1>0, Zenon DEF ChainType
<1>. QED  BY <1>1, <1>2, <1>3 DEF LimiterPut

LEMMA RootPutCalls ==
    ASSUME SamplerCap = 0, NEW s, NEW r, ChainOK(r), NEW p, NEW ix
    PROVE  RootPut(s, r, p, ix).calls \in {r.calls, Append(r.calls, s)}
BY LimiterPutCalls DEF RootPut, TopologyHasSampler

-----------------------------------------------------------------------------
\* the data samples among all samples
SampleData == {x \in Sample : x.kind = "data"}

\* AllData of a sequence of samples is membership in Seq(SampleData).
LEMMA AllDataSeq ==
    ASSUME NEW c \in Seq(Sample)
    PROVE  AllData(c) <=> c \in Seq(SampleData)
<1>1. AllData(c) => c \in Seq(SampleData)
    <2>. SUFFICES ASSUME AllData(c) PROVE c \in [1 .. Len(c) -> SampleData]
        OBVIOUS
    <2>. QED  BY DEF AllData, SampleData
<1>2. c \in Seq(SampleData) => AllData(c)
    BY DEF AllData, SampleData
<1>. QED  BY <1>1, <1>2

\* How many samples a flush puts: never more than the buffer holds.
LEMMA FlushMadeBound ==
    ASSUME NEW lc \in Nat, NEW n \in Nat, NEW bud \in Nat, NEW sb,
           Len(sb) = n, n = 0 => sb = <<>>
    PROVE  LET made == IF lc + Len(sb) <= bud \/ sb = <<>> THEN Len(sb)
                       ELSE IF bud - lc + 1 > 1 THEN bud - lc + 1 ELSE 1
           IN  made \in Int /\ made <= n
OBVIOUS

\* RandomSamplingNode::flush puts to the cursor only what the buffer held,
\* and leaves in the buffer only what it held.
LEMMA FlushData ==
    ASSUME NEW r, ChainOK(r), budget \in Nat, NEW p \in SortPerms(r.samples),
           AllData(r.samples), AllData(r.calls)
    PROVE  AllData(Flush(r, p).calls) /\ AllData(Flush(r, p).samples)
<1>. DEFINE n  == Len(r.samples)
            sb == [i \in 1 .. n |-> r.samples[p[i]]]
            ok   == Len(r.calls) + Len(sb) <= budget \/ sb = <<>>
            made == IF ok THEN Len(sb)
                    ELSE IF budget - Len(r.calls) + 1 > 1
                         THEN budget - Len(r.calls) + 1 ELSE 1
<1>1. n \in Nat /\ p \in [1 .. n -> 1 .. n] /\ r.samples \in Seq(Sample)
      /\ r.calls \in Seq(Sample)
    BY DEF ChainOK, ChainType, SortPerms
<1>2. r.samples \in Seq(SampleData) /\ r.calls \in Seq(SampleData)
    BY <1>1, AllDataSeq
<1>3. \A i \in 1 .. n : sb[i] \in SampleData
    BY <1>1, <1>2
<1>4. sb \in Seq(SampleData) /\ Len(sb) = n
    <2>1. sb \in [1 .. n -> SampleData]
        BY <1>3
    <2>. QED  BY <1>1, <2>1
<1>5. made \in Int /\ made <= n
    <2>1. n = 0 => sb = <<>>
        BY <1>1
    <2>2. Len(sb) = n /\ Len(r.calls) \in Nat /\ n \in Nat
        BY <1>1
    <2>. HIDE DEF sb, n
    <2>. QED  BY <2>1, <2>2, FlushMadeBound
<1>6. SubSeq(sb, 1, made) \in Seq(SampleData)
    <2>0. n \in Nat
        BY <1>1
    <2>. HIDE DEF made, n
    <2>1. 1 .. made \subseteq 1 .. n
        BY <1>5, <2>0
    <2>2. \A i \in 1 .. made : sb[i] \in SampleData
        BY <1>3, <2>1
    <2>. QED  BY <1>5, <2>2, SubSeqProperties
<1>7. r.calls \o SubSeq(sb, 1, made) \in Seq(SampleData)
    BY <1>2, <1>6, ConcatProperties
<1>8. <<>> \in Seq(SampleData)
    OBVIOUS
<1>9. Flush(r, p).calls = r.calls \o SubSeq(sb, 1, made)
      /\ Flush(r, p).samples = IF ok THEN <<>> ELSE sb
    BY DEF Flush
<1>10. Flush(r, p).calls \in Seq(Sample) /\ Flush(r, p).samples \in Seq(Sample)
    BY FlushType DEF ChainOK, ChainType
<1>. QED  BY <1>4, <1>7, <1>8, <1>9, <1>10, AllDataSeq

\* RandomSamplingNode::put of a data sample touches only the buffer; of a
\* marker, it flushes.
LEMMA SamplerPutData ==
    ASSUME NEW s \in Sample, NEW r, ChainOK(r), budget \in Nat,
           NEW p, NEW ix \in Slots, SamplerCap # 0,
           s.kind = "empty" => p \in SortPerms(r.samples),
           AllData(r.samples), AllData(r.calls)
    PROVE  LET q == SamplerPut(s, r, p, ix)
           IN  AllData(q.calls) /\ AllData(q.samples)
<1>0. r \in ChainType /\ r.samples \in Seq(Sample)
    BY DEF ChainOK, ChainType
<1>1. CASE s.kind = "empty"
    BY <1>1, FlushData DEF SamplerPut
<1>2. CASE s.kind # "empty" /\ Len(r.samples) < SamplerCap
    <2>1. [r EXCEPT !.samples = Append(@, s), !.ok = TRUE].samples
            = Append(r.samples, s)
          /\ [r EXCEPT !.samples = Append(@, s), !.ok = TRUE].calls = r.calls
        BY <1>0, Zenon DEF ChainType
    <2>2. s.kind = "data"
        BY <1>2 DEF Sample
    <2>3. AllData(Append(r.samples, s))
        BY <1>0, <2>2 DEF AllData
    <2>. QED  BY <1>2, <2>1, <2>3 DEF SamplerPut
<1>3. CASE s.kind # "empty" /\ ~(Len(r.samples) < SamplerCap)
    <2>1. [r EXCEPT !.samples[ix] = s, !.ok = TRUE].samples
            = [r.samples EXCEPT ![ix] = s]
          /\ [r EXCEPT !.samples[ix] = s, !.ok = TRUE].calls = r.calls
        BY <1>0, Zenon DEF ChainType
    <2>2. s.kind = "data"
        BY <1>3 DEF Sample
    <2>3. AllData([r.samples EXCEPT ![ix] = s])
        BY <1>0, <2>2 DEF AllData
    <2>. QED  BY <1>3, <2>1, <2>3 DEF SamplerPut
<1>. QED  BY <1>1, <1>2, <1>3

-----------------------------------------------------------------------------
\* One root put without a sampler: a sample Beyond the front the markers
\* are Within keeps them advancing, and they stay Within every front that
\* held them and the sample.
LEMMA RootPutPast ==
    ASSUME SamplerCap = 0, NEW x \in Sample, NEW r, ChainOK(r),
           NEW v \in Int, NEW w, NEW p, NEW ix,
           MarkersAdvanceIn(r.calls), MarkersWithin(r.calls, v), Beyond(x, v),
           MarkersWithin(r.calls, w), x.kind = "empty" => Within(x, w)
    PROVE  /\ MarkersAdvanceIn(RootPut(x, r, p, ix).calls)
           /\ MarkersWithin(RootPut(x, r, p, ix).calls, w)
<1>1. r.calls \in Seq(Sample)
    BY DEF ChainOK, ChainType
<1>2. RootPut(x, r, p, ix).calls \in {r.calls, Append(r.calls, x)}
    BY RootPutCalls
<1>3. \A k \in 1 .. Len(r.calls) :
        r.calls[k].kind = "empty" => PastBucket(r.calls[k], x)
    BY <1>1, WithinBeyond DEF MarkersWithin
<1>. QED  BY <1>1, <1>2, <1>3, AppendAdvance, AppendWithin

\* The storage operator's samples come in the scan's order, so a sample
\* after one Beyond a front is Beyond it too.
LEMMA LaterBeyond ==
    ASSUME NEW s \in DataSample, NEW l \in DataSample, NEW v \in Int,
           Later(s, l), Beyond(l, v)
    PROVE  Beyond(s, v)
BY DataSampleType DEF Later, Beyond

\* The first bucket, ts / step * step, holds the sample it was aligned to.
LEMMA AlignedBounds ==
    ASSUME Step # 0, NEW t \in Nat
    PROVE  Aligned(t) \in Nat /\ Aligned(t) <= t /\ t < Aligned(t) + Step
BY DEF Aligned

-----------------------------------------------------------------------------
(***************************************************************************)
(* MarkerOpensBucket: the markers a step appends to the cursor (from       *)
(* position Len(c) + 1 of the new sequence c2) bound the bucket bk the     *)
(* step leaves open, unless the step's chain call reported false.          *)
(***************************************************************************)
OpenedBy(t, bk) == IF direction = FWD THEN bk.lo = t ELSE bk.up + Step = t

OpensBucket(c, c2, ok, bk) ==
    \A k \in (Len(c) + 1) .. Len(c2) :
        c2[k].kind = "empty" => ~ok \/ OpenedBy(c2[k].ts, bk)

\* the action MarkerOpensBucket asks of every step
MarkerOpensStep ==
    \A k \in (Len(calls) + 1) .. Len(calls') :
        calls'[k].kind = "empty" =>
            \/ phase' = "halted"
            \/ IF direction = FWD THEN lowerbound' = calls'[k].ts
               ELSE upperbound' + Step = calls'[k].ts

\* At most two appends add nothing but the two samples appended.
LEMMA AppendsOpen ==
    ASSUME NEW c \in Seq(Sample), NEW x \in Sample, NEW y \in Sample,
           NEW c1, c1 \in {c, Append(c, x)},
           NEW c2, c2 \in {c1, Append(c1, y)},
           NEW ok, NEW bk,
           x.kind = "empty" => ~ok \/ OpenedBy(x.ts, bk),
           y.kind = "empty" => ~ok \/ OpenedBy(y.ts, bk)
    PROVE  OpensBucket(c, c2, ok, bk)
<1>1. c1 \in Seq(Sample) /\ Len(c1) \in {Len(c), Len(c) + 1}
      /\ \A k \in (Len(c) + 1) .. Len(c1) : c1[k] = x
    <2>1. CASE c1 = c
        BY <2>1
    <2>2. CASE c1 = Append(c, x)
        <3>1. Append(c, x) \in Seq(Sample) /\ Len(Append(c, x)) = Len(c) + 1
              /\ Append(c, x)[Len(c) + 1] = x
            OBVIOUS
        <3>. QED  BY <2>2, <3>1
    <2>. QED  BY <2>1, <2>2
<1>2. \A k \in (Len(c) + 1) .. Len(c2) : c2[k] = x \/ c2[k] = y
    <2>1. CASE c2 = c1
        BY <1>1, <2>1
    <2>2. CASE c2 = Append(c1, y)
        <3>1. Len(c2) = Len(c1) + 1 /\ c2[Len(c1) + 1] = y
              /\ \A k \in 1 .. Len(c1) : c2[k] = c1[k]
            BY <1>1, <2>2
        <3>. QED  BY <1>1, <3>1
    <2>. QED  BY <2>1, <2>2
<1>. QED  BY <1>2 DEF OpensBucket

\* A sequence of data samples has no marker.
LEMMA AllDataMarkers ==
    ASSUME NEW c, AllData(c), NEW v
    PROVE  MarkersAdvanceIn(c) /\ MarkersWithin(c, v)
BY DEF AllData, MarkersAdvanceIn, MarkersWithin

-----------------------------------------------------------------------------
\* the current bucket's front, and the sample the storage operator put last
Front == FrontOf([lo |-> lowerbound, up |-> upperbound])

LastInput == inputs[Len(inputs)]

(***************************************************************************)
(* The inductive invariant.  MarkersAdvance alone is not inductive: the    *)
(* next marker is stamped with the current bucket's upper bound, so the    *)
(* bucket must lie past every marker sent so far, and the next sample      *)
(* (later than the last one) must lie in or past the current bucket.       *)
(* Both hold only while the stream runs: a refused marker leaves the       *)
(* bucket behind it, but the storage operator then stops.  The sampler     *)
(* buffers only data samples, so with a sampler, as without a step, the   *)
(* cursor never sees a marker.                                             *)
(***************************************************************************)
GInv ==
    /\ IInv
    /\ AllData(samples)
    /\ TopologyHasSampler \/ Step = 0 => AllData(calls)
    /\ MarkersAdvanceIn(calls)
    /\ Step # 0 => (first_hit <=> inputs = <<>>)
    /\ first_hit /\ Step # 0 /\ ~TopologyHasSampler => calls = <<>>
    /\ phase = "running" /\ Step # 0 /\ ~TopologyHasSampler /\ ~first_hit =>
           /\ Beyond(LastInput, Front)
           /\ MarkersWithin(calls, Front)

\* With a sampler, GroupByStatement::put passes on only data samples.
LEMMA GroupByPutSampler ==
    ASSUME GInv, SamplerCap # 0, NEW s \in DataSample,
           NEW p \in SortPerms(samples), NEW ix \in Slots
    PROVE  LET g == GroupByPut(s, p, ix)
           IN  AllData(g.chain.calls) /\ AllData(g.chain.samples)
<1>. DEFINE b   == GroupByStart(s.ts)
            fwd == s.ts >= b.up
            bwd == ~fwd /\ s.ts < b.lo
            m   == RootPut(Marker(b.up), Chain, p, ix)
<1>0. /\ ChainOK(Chain) /\ budget \in Nat
      /\ AllData(Chain.samples) /\ AllData(Chain.calls)
      /\ s \in Sample /\ s.kind = "data" /\ s.ts \in Nat
      /\ p \in SortPerms(Chain.samples)
    BY ChainInit, DataSampleType DEF GInv, Chain, TopologyHasSampler
<1>1. LET q == RootPut(s, Chain, p, ix)
      IN  AllData(q.calls) /\ AllData(q.samples)
    BY <1>0, SamplerPutData DEF RootPut, TopologyHasSampler
<1>2. CASE Step = 0 \/ (~fwd /\ ~bwd)
    BY <1>1, <1>2 DEF GroupByPut
<1>3. CASE Step # 0 /\ (fwd \/ bwd)
    <2>1. b.up \in Nat
        <3>1. IInv
            BY DEF GInv
        <3>2. b.lo \in Nat /\ b.up = b.lo + Step
            BY <1>0, <1>3, <3>1, StartAligned
        <3>. QED  BY <3>2
    <2>2. Marker(b.up) \in Sample /\ Marker(b.up).kind = "empty"
        BY <2>1, MarkerType
    <2>3. AllData(m.calls) /\ AllData(m.samples) /\ ChainOK(m)
        BY <1>0, <2>2, SamplerPutData, RootPutType DEF RootPut, TopologyHasSampler
    <2>4. LET q == RootPut(s, m, p, ix)
          IN  AllData(q.calls) /\ AllData(q.samples)
        BY <1>0, <2>3, SamplerPutData DEF RootPut, TopologyHasSampler
    <2>. QED  BY <1>3, <2>3, <2>4 DEF GroupByPut
<1>. QED  BY <1>2, <1>3

\* The first sample of a group-by scan opens the bucket that holds it and
\* sends no marker.
LEMMA GroupByPutFirst ==
    ASSUME GInv, SamplerCap = 0, Step # 0, first_hit,
           NEW s \in DataSample, NEW p, NEW ix
    PROVE  LET g == GroupByPut(s, p, ix)
           IN  AllData(g.chain.calls) /\ Beyond(s, FrontOf(g.bucket))
<1>. DEFINE b   == GroupByStart(s.ts)
            fwd == s.ts >= b.up
            bwd == ~fwd /\ s.ts < b.lo
<1>1. s \in Sample /\ s.kind = "data" /\ s.ts \in Nat
    BY DataSampleType
<1>2. b = [lo |-> Aligned(s.ts), up |-> Aligned(s.ts) + Step]
    BY DEF GroupByStart
<1>9. Aligned(s.ts) \in Nat /\ Aligned(s.ts) <= s.ts /\ s.ts < Aligned(s.ts) + Step
    BY <1>1, AlignedBounds
<1>10. b.lo = Aligned(s.ts) /\ b.up = Aligned(s.ts) + Step
    BY <1>2
<1>3. ~fwd /\ ~bwd
    <2>. HIDE DEF b
    <2>. QED  BY <1>1, <1>9, <1>10
<1>4. GroupByPut(s, p, ix) = [bucket |-> b, chain |-> RootPut(s, Chain, p, ix)]
    BY <1>3 DEF GroupByPut
<1>5. ChainOK(Chain) /\ Chain.calls = <<>>
    BY ChainInit DEF GInv, Chain, TopologyHasSampler
<1>6. RootPut(s, Chain, p, ix).calls \in {<<>>, Append(<<>>, s)}
    BY <1>5, RootPutCalls
<1>7. AllData(RootPut(s, Chain, p, ix).calls)
    BY <1>1, <1>6 DEF AllData
<1>8. Beyond(s, FrontOf(b))
    BY <1>1, <1>2, <1>9 DEF Beyond, FrontOf
<1>. QED  BY <1>4, <1>7, <1>8

(***************************************************************************)
(* GroupByStatement::put after the first sample, while the stream runs.   *)
(* A sample inside the bucket is put as it is.  A sample past it sends the *)
(* marker stamped with the bucket's upper bound, which lies past every     *)
(* earlier marker; if the marker is accepted the bucket moves one step,   *)
(* the marker is then Within the new front and the sample Beyond it.      *)
(***************************************************************************)
LEMMA GroupByPutNext ==
    ASSUME GInv, SamplerCap = 0, Step # 0, ~first_hit, phase = "running",
           NEW s \in DataSample, Later(s, LastInput),
           NEW p \in SortPerms(samples), NEW ix \in Slots
    PROVE  LET g == GroupByPut(s, p, ix)
           IN  /\ MarkersAdvanceIn(g.chain.calls)
               /\ g.chain.ok => /\ Beyond(s, FrontOf(g.bucket))
                                /\ MarkersWithin(g.chain.calls, FrontOf(g.bucket))
               /\ OpensBucket(calls, g.chain.calls, g.chain.ok, g.bucket)
<1>. DEFINE b   == GroupByStart(s.ts)
            fwd == s.ts >= b.up
            bwd == ~fwd /\ s.ts < b.lo
            mk  == Marker(b.up)
            m   == RootPut(mk, Chain, p, ix)
<1>1. s \in Sample /\ s.kind = "data" /\ s.ts \in Nat
    BY DataSampleType
<1>2. /\ b = [lo |-> lowerbound, up |-> upperbound]
      /\ lowerbound \in Nat /\ upperbound = lowerbound + Step
    BY DEF GroupByStart, GInv, IInv, BucketAligned, TypeOK
<1>3. b.lo = lowerbound /\ b.up = upperbound /\ FrontOf(b) = Front
      /\ Front \in Int
    BY <1>2 DEF Front, FrontOf
<1>4. /\ inputs # <<>> /\ inputs \in Seq(DataSample)
      /\ Beyond(LastInput, Front) /\ MarkersWithin(calls, Front)
      /\ MarkersAdvanceIn(calls)
    BY DEF GInv, IInv, TypeOK, TopologyHasSampler
<1>5. Beyond(s, Front)
    <2>1. LastInput \in DataSample
        BY <1>4 DEF LastInput
    <2>. QED  BY <1>3, <1>4, <2>1, LaterBeyond
<1>6. /\ ChainOK(Chain) /\ budget \in Nat /\ Chain.calls = calls
      /\ p \in SortPerms(Chain.samples)
    BY ChainInit DEF GInv, Chain
<1>. HIDE DEF b
<1>7. CASE ~fwd /\ ~bwd
    <2>1. GroupByPut(s, p, ix) = [bucket |-> b, chain |-> RootPut(s, Chain, p, ix)]
        BY <1>7 DEF GroupByPut, b
    <2>2. /\ MarkersAdvanceIn(RootPut(s, Chain, p, ix).calls)
          /\ MarkersWithin(RootPut(s, Chain, p, ix).calls, Front)
        BY <1>1, <1>3, <1>4, <1>5, <1>6, RootPutPast
    <2>3. OpensBucket(calls, RootPut(s, Chain, p, ix).calls,
                      RootPut(s, Chain, p, ix).ok, b)
        <3>1. calls \in Seq(Sample)
              /\ RootPut(s, Chain, p, ix).calls \in {calls, Append(calls, s)}
            BY <1>6, RootPutCalls DEF GInv, IInv, TypeOK
        <3>. QED  BY <1>1, <3>1, AppendsOpen
    <2>. QED  BY <1>3, <1>5, <2>1, <2>2, <2>3
<1>8. CASE fwd \/ bwd
    <2>. DEFINE nb == GroupByMove(b, fwd)
    <2>1. /\ direction = FWD => fwd
          /\ direction # FWD => bwd /\ ~fwd
        BY <1>1, <1>3, <1>5, <1>8 DEF Beyond, Front, FrontOf
    <2>2. /\ FrontOf(nb) \in Int
          /\ direction = FWD => FrontOf(nb) = upperbound
          /\ direction # FWD => FrontOf(nb) = lowerbound
        BY <1>2, <2>1 DEF GroupByMove, FrontOf
    <2>3. /\ mk \in Sample /\ mk.kind = "empty"
          /\ Beyond(mk, Front) /\ Within(mk, FrontOf(nb))
        BY <1>2, <1>3, <2>2, MarkerType DEF Beyond, Within, Marker, Front, FrontOf
    <2>4. MarkersWithin(calls, FrontOf(nb))
        <3>1. IF direction = FWD THEN Front <= FrontOf(nb) ELSE FrontOf(nb) <= Front
            BY <1>2, <2>2 DEF Front, FrontOf
        <3>2. calls \in Seq(Sample)
            BY DEF GInv, IInv, TypeOK
        <3>. HIDE DEF Front, nb
        <3>. QED  BY <1>3, <1>4, <2>2, <3>1, <3>2, WithinMoves
    <2>5. /\ MarkersAdvanceIn(m.calls) /\ MarkersWithin(m.calls, FrontOf(nb))
          /\ ChainOK(m)
        BY <1>3, <1>4, <1>6, <2>3, <2>4, RootPutPast, RootPutType
    <2>6. CASE ~m.ok
        <3>1. GroupByPut(s, p, ix) = [bucket |-> b, chain |-> m]
            BY <1>8, <2>6 DEF GroupByPut, b
        <3>2. OpensBucket(calls, m.calls, m.ok, b)
            BY <2>6 DEF OpensBucket
        <3>. QED  BY <2>5, <2>6, <3>1, <3>2
    <2>7. CASE m.ok
        <3>1. GroupByPut(s, p, ix) = [bucket |-> nb, chain |-> RootPut(s, m, p, ix)]
            BY <1>8, <2>7 DEF GroupByPut, b
        <3>2. Beyond(s, FrontOf(nb))
            BY <1>1, <1>3, <2>1, <2>2 DEF Beyond
        <3>3. /\ MarkersAdvanceIn(RootPut(s, m, p, ix).calls)
              /\ MarkersWithin(RootPut(s, m, p, ix).calls, FrontOf(nb))
            BY <1>1, <2>2, <2>5, <3>2, RootPutPast
        <3>4. OpensBucket(calls, RootPut(s, m, p, ix).calls,
                          RootPut(s, m, p, ix).ok, nb)
            <4>. DEFINE q == RootPut(s, m, p, ix)
            <4>1. calls \in Seq(Sample)
                  /\ m.calls \in {calls, Append(calls, mk)}
                  /\ q.calls \in {m.calls, Append(m.calls, s)}
                BY <1>6, <2>5, RootPutCalls DEF GInv, IInv, TypeOK
            <4>2. OpenedBy(mk.ts, nb)
                <5>1. mk.ts = b.up
                    BY DEF Marker
                <5>2. /\ fwd => nb.lo = b.lo + Step
                      /\ ~fwd => nb.up = b.up - Step
                    BY DEF GroupByMove
                <5>3. b.up \in Int /\ b.up = b.lo + Step
                    BY <1>2, <1>3
                <5>. HIDE DEF mk, nb, fwd
                <5>. QED  BY <2>1, <5>1, <5>2, <5>3 DEF OpenedBy
            <4>3. /\ mk.kind = "empty" => ~q.ok \/ OpenedBy(mk.ts, nb)
                  /\ s.kind = "empty" => ~q.ok \/ OpenedBy(s.ts, nb)
                BY <1>1, <4>2
            <4>4. s \in Sample /\ mk \in Sample
                BY <1>1, <2>3
            <4>. HIDE DEF mk, nb, m, q
            <4>5. OpensBucket(calls, q.calls, q.ok, nb)
                BY <4>1, <4>3, <4>4, AppendsOpen
            <4>. QED  BY <4>5 DEF q
        <3>. QED  BY <3>1, <3>2, <3>3, <3>4
    <2>. QED  BY <2>6, <2>7
<1>. QED  BY <1>7, <1>8

-----------------------------------------------------------------------------
LEMMA InitGInv == Init => GInv
<1>. SUFFICES ASSUME Init PROVE GInv
    OBVIOUS
<1>1. IInv
    BY InitIInv
<1>2. AllData(<<>>) /\ MarkersAdvanceIn(<<>>)
    BY DEF AllData, MarkersAdvanceIn
<1>. QED  BY <1>1, <1>2 DEF Init, GInv

LEMMA PutGInv == GInv /\ Put => GInv'
<1>. SUFFICES ASSUME GInv, Put PROVE GInv'
    OBVIOUS
<1>1. PICK s \in DataSample, p \in SortPerms(samples), ix \in Slots :
        /\ IF inputs = <<>> THEN TRUE ELSE Later(s, inputs[Len(inputs)])
        /\ LET g == GroupByPut(s, p, ix)
           IN  /\ first_hit' = (first_hit /\ Step = 0)
               /\ lowerbound' = g.bucket.lo
               /\ upperbound' = g.bucket.up
               /\ samples' = g.chain.samples
               /\ calls' = g.chain.calls
               /\ phase' = IF g.chain.ok THEN "running" ELSE "halted"
               /\ inputs' = Append(inputs, s)
    BY DEF Put
<1>. DEFINE g == GroupByPut(s, p, ix)
<1>2. IInv'
    BY PutIInv DEF GInv
<1>3. /\ samples' \in Seq(Sample) /\ calls' \in Seq(Sample)
      /\ inputs \in Seq(DataSample)
      /\ inputs' # <<>> /\ LastInput' = s
      /\ Front' = FrontOf(g.bucket)
      /\ phase = "running"
    BY <1>1, <1>2 DEF IInv, TypeOK, LastInput, Front, FrontOf, Put
<1>4. CASE SamplerCap # 0
    <2>1. AllData(calls') /\ AllData(samples')
        BY <1>1, <1>4, GroupByPutSampler
    <2>2. MarkersAdvanceIn(calls')
        BY <2>1, AllDataMarkers
    <2>. QED  BY <1>1, <1>2, <1>3, <1>4, <2>1, <2>2 DEF GInv, TopologyHasSampler
<1>5. CASE SamplerCap = 0
    <2>1. AllData(samples')
        BY <1>2, <1>5 DEF IInv, AllData
    <2>2. CASE Step = 0
        <3>1. g.chain = RootPut(s, Chain, p, ix)
            BY <2>2 DEF GroupByPut
        <3>2. AllData(calls') /\ ChainOK(Chain) /\ Chain.calls = calls
            <4>1. ChainOK(Chain) /\ Chain.calls = calls
                BY ChainInit DEF GInv, Chain
            <4>2. s \in Sample /\ s.kind = "data" /\ calls \in Seq(Sample)
                  /\ AllData(calls)
                BY DataSampleType, <2>2 DEF GInv, IInv, TypeOK
            <4>3. calls' \in {calls, Append(calls, s)}
                BY <1>1, <1>5, <3>1, <4>1, RootPutCalls
            <4>. QED  BY <4>1, <4>2, <4>3 DEF AllData
        <3>3. MarkersAdvanceIn(calls')
            BY <3>2, AllDataMarkers
        <3>. QED  BY <1>2, <2>1, <2>2, <3>2, <3>3 DEF GInv
    <2>3. CASE Step # 0 /\ first_hit
        <3>1. AllData(g.chain.calls) /\ Beyond(s, FrontOf(g.bucket))
            BY <1>5, <2>3, GroupByPutFirst
        <3>2. MarkersAdvanceIn(calls') /\ MarkersWithin(calls', Front')
            BY <1>1, <3>1, AllDataMarkers
        <3>3. ~first_hit'
            BY <1>1, <2>3
        <3>. QED  BY <1>2, <1>3, <1>5, <2>1, <2>3, <3>1, <3>2, <3>3
                  DEF GInv, TopologyHasSampler
    <2>4. CASE Step # 0 /\ ~first_hit
        <3>1. inputs # <<>>
            BY <2>4 DEF GInv
        <3>2. Later(s, LastInput)
            BY <1>1, <3>1 DEF LastInput
        <3>3. /\ MarkersAdvanceIn(g.chain.calls)
              /\ g.chain.ok => /\ Beyond(s, FrontOf(g.bucket))
                               /\ MarkersWithin(g.chain.calls, FrontOf(g.bucket))
            BY <1>3, <1>5, <2>4, <3>2, GroupByPutNext
        <3>4. phase' = "running" => g.chain.ok
            BY <1>1
        <3>5. ~first_hit'
            BY <1>1, <2>4
        <3>. QED  BY <1>1, <1>2, <1>3, <1>5, <2>1, <2>4, <3>3, <3>4, <3>5
                  DEF GInv, TopologyHasSampler
    <2>. QED  BY <2>2, <2>3, <2>4
<1>. QED  BY <1>4, <1>5

LEMMA StopGInv == GInv /\ Stop => GInv'
<1>. SUFFICES ASSUME GInv, Stop PROVE GInv'
    OBVIOUS
<1>1. PICK p \in SortPerms(samples) :
        LET r == IF TopologyHasSampler THEN Flush(Chain, p) ELSE Chain
        IN  /\ samples' = r.samples
            /\ calls' = r.calls
    BY DEF Stop
<1>2. IInv' /\ phase' = "stopped"
      /\ UNCHANGED <<first_hit, lowerbound, upperbound, inputs>>
    BY StopIInv DEF GInv, Stop
<1>3. CASE TopologyHasSampler
    <2>1. AllData(Flush(Chain, p).calls) /\ AllData(Flush(Chain, p).samples)
        <3>1. IInv /\ AllData(samples) /\ AllData(calls)
            BY <1>3 DEF GInv
        <3>2. ChainOK(Chain) /\ budget \in Nat
            BY <3>1, ChainInit
        <3>3. Chain.samples = samples /\ Chain.calls = calls
            BY DEF Chain
        <3>. HIDE DEF Chain
        <3>. QED  BY <3>1, <3>2, <3>3, FlushData
    <2>2. AllData(calls') /\ AllData(samples')
        BY <1>1, <1>3, <2>1
    <2>3. MarkersAdvanceIn(calls')
        BY <2>2, AllDataMarkers
    <2>. QED  BY <1>2, <1>3, <2>2, <2>3 DEF GInv
<1>4. CASE ~TopologyHasSampler
    <2>1. samples' = samples /\ calls' = calls
        BY <1>1, <1>4 DEF Chain
    <2>. QED  BY <1>2, <2>1 DEF GInv
<1>. QED  BY <1>3, <1>4

LEMMA SetErrorGInv == GInv /\ SetError => GInv'
<1>. SUFFICES ASSUME GInv, SetError PROVE GInv'
    OBVIOUS
<1>1. IInv'
    BY SetErrorIInv DEF GInv
<1>. QED  BY <1>1 DEF SetError, GInv, LastInput, Front

LEMMA StutterGInv == GInv /\ UNCHANGED vars => GInv'
<1>. SUFFICES ASSUME GInv, UNCHANGED vars PROVE GInv'
    OBVIOUS
<1>1. IInv'
    BY StutterIInv DEF GInv
<1>. QED  BY <1>1 DEF vars, GInv, LastInput, Front

-----------------------------------------------------------------------------
(* The steps of MarkerOpensBucket.  A step that appends only data, or    *)
(* nothing, opens no bucket; a group-by put past the first opens the      *)
(* bucket of every marker it sends, unless the cursor refused.            *)

LEMMA DataOpensNothing ==
    ASSUME calls \in Seq(Sample), AllData(calls')
    PROVE  MarkerOpensStep
BY DEF AllData, MarkerOpensStep

LEMMA PutOpens == GInv /\ Put => MarkerOpensStep
<1>. SUFFICES ASSUME GInv, Put PROVE MarkerOpensStep
    OBVIOUS
<1>1. PICK s \in DataSample, p \in SortPerms(samples), ix \in Slots :
        /\ IF inputs = <<>> THEN TRUE ELSE Later(s, inputs[Len(inputs)])
        /\ LET g == GroupByPut(s, p, ix)
           IN  /\ lowerbound' = g.bucket.lo
               /\ upperbound' = g.bucket.up
               /\ calls' = g.chain.calls
               /\ phase' = IF g.chain.ok THEN "running" ELSE "halted"
    BY DEF Put
<1>. DEFINE g == GroupByPut(s, p, ix)
<1>2. calls \in Seq(Sample) /\ phase = "running"
    BY DEF GInv, IInv, TypeOK, Put
<1>3. CASE SamplerCap # 0
    <2>1. AllData(calls')
        BY <1>1, <1>3, GroupByPutSampler
    <2>. QED  BY <1>2, <2>1, DataOpensNothing
<1>4. CASE SamplerCap = 0 /\ Step = 0
    <2>1. g.chain = RootPut(s, Chain, p, ix)
        BY <1>4 DEF GroupByPut
    <2>2. ChainOK(Chain) /\ Chain.calls = calls
        BY ChainInit DEF GInv, Chain
    <2>3. s \in Sample /\ s.kind = "data" /\ AllData(calls)
        BY DataSampleType, <1>4 DEF GInv
    <2>4. calls' \in {calls, Append(calls, s)}
        BY <1>1, <1>4, <2>1, <2>2, RootPutCalls
    <2>5. AllData(calls')
        BY <1>2, <2>3, <2>4 DEF AllData
    <2>. QED  BY <1>2, <2>5, DataOpensNothing
<1>5. CASE SamplerCap = 0 /\ Step # 0 /\ first_hit
    <2>1. AllData(calls')
        BY <1>1, <1>5, GroupByPutFirst
    <2>. QED  BY <1>2, <2>1, DataOpensNothing
<1>6. CASE SamplerCap = 0 /\ Step # 0 /\ ~first_hit
    <2>1. Later(s, LastInput)
        BY <1>1, <1>6 DEF GInv, LastInput
    <2>2. OpensBucket(calls, g.chain.calls, g.chain.ok, g.bucket)
        BY <1>2, <1>6, <2>1, GroupByPutNext
    <2>3. /\ calls' = g.chain.calls
          /\ phase' = "halted" <=> ~g.chain.ok
          /\ lowerbound' = g.bucket.lo /\ upperbound' = g.bucket.up
        BY <1>1
    <2>. HIDE DEF g
    <2>. QED  BY <2>2, <2>3 DEF OpensBucket, OpenedBy, MarkerOpensStep
<1>. QED  BY <1>3, <1>4, <1>5, <1>6

LEMMA StopOpens == GInv /\ Stop => MarkerOpensStep
<1>. SUFFICES ASSUME GInv, Stop PROVE MarkerOpensStep
    OBVIOUS
<1>1. PICK p \in SortPerms(samples) :
        calls' = (IF TopologyHasSampler THEN Flush(Chain, p) ELSE Chain).calls
    BY DEF Stop
<1>2. calls \in Seq(Sample)
    BY DEF GInv, IInv, TypeOK
<1>3. CASE TopologyHasSampler
    <2>1. AllData(calls')
        BY <1>1, <1>3, StopGInv DEF GInv
    <2>. QED  BY <1>2, <2>1, DataOpensNothing
<1>4. CASE ~TopologyHasSampler
    <2>1. calls' = calls
        BY <1>1, <1>4 DEF Chain
    <2>. QED  BY <1>2, <2>1 DEF MarkerOpensStep
<1>. QED  BY <1>3, <1>4

\* Every step of the specification is a MarkerOpensBucket step.
LEMMA NextOpens == GInv /\ [Next]_vars => [MarkerOpensStep]_vars
<1>. SUFFICES ASSUME GInv, [Next]_vars PROVE [MarkerOpensStep]_vars
    OBVIOUS
<1>1. CASE Put
    BY <1>1, PutOpens
<1>2. CASE Stop
    BY <1>2, StopOpens
<1>3. CASE SetError
    BY <1>3 DEF SetError, MarkerOpensStep, GInv, IInv, TypeOK
<1>4. CASE UNCHANGED vars
    BY <1>4 DEF vars
<1>. QED  BY <1>1, <1>2, <1>3, <1>4 DEF Next

(***************************************************************************)
(* Group-by markers (GroupByStatement::put): for every query range, step,  *)
(* sampler size, limiter and cursor budget, the markers the cursor         *)
(* receives move strictly in the scan's direction and every sample after a *)
(* marker lies beyond the bucket the marker closed -- the limiter may drop *)
(* any of them and the cursor may refuse the marker, and with a sampler no *)
(* marker reaches the cursor at all.                                       *)
(***************************************************************************)
THEOREM MarkersAdvanceHolds == Spec => []MarkersAdvance
<1>1. Init => GInv
    BY InitGInv
<1>2. GInv /\ [Next]_vars => GInv'
    BY PutGInv, StopGInv, SetErrorGInv, StutterGInv DEF Next
<1>3. GInv => MarkersAdvance
    BY DEF GInv, MarkersAdvanceIn, MarkersAdvance
<1>. QED  BY <1>1, <1>2, <1>3, PTL DEF Spec

(***************************************************************************)
(* Group-by bucket move (GroupByStatement::put): for every query range,   *)
(* step, limiter and cursor budget, each marker the cursor receives was    *)
(* sent by a step that moved the bucket so that the marker bounds it from  *)
(* behind -- the forward lower bound, or the backward upper bound plus one *)
(* step -- unless the cursor refused on that step and the stream halted.   *)
(***************************************************************************)
THEOREM MarkerOpensBucketHolds == Spec => MarkerOpensBucket
<1>1. Init => GInv
    BY InitGInv
<1>2. GInv /\ [Next]_vars => GInv'
    BY PutGInv, StopGInv, SetErrorGInv, StutterGInv DEF Next
<1>3. GInv /\ [Next]_vars => [MarkerOpensStep]_vars
    BY NextOpens
<1>. QED  BY <1>1, <1>2, <1>3, PTL DEF Spec, MarkerOpensBucket, MarkerOpensStep

=============================================================================
