--------------------------- MODULE PipelineProofs ---------------------------
(***************************************************************************)
(* Proofs about the query pipeline (module Pipeline) for every value of    *)
(* its constants: the type invariant, which says in particular that the    *)
(* group-by bucket bounds, unsigned in the code, never go below zero; and  *)
(* the backpressure property of the limiter/terminal chain.                *)
(***************************************************************************)
EXTENDS Pipeline, SequenceTheorems, TLAPS

USE PipelineAssumption

\* The chain records one driver call threads through the nodes.
ChainType == [ok : BOOLEAN, samples : Seq(Sample), counter : Nat,
              calls : Seq(Sample)]

\* A chain state the sampler buffer of which fits the reservoir.
ChainOK(r) == r \in ChainType /\ Len(r.samples) <= SamplerCap

(***************************************************************************)
(* The group-by bucket is Step-aligned and one Step wide once the first    *)
(* sample has been seen.  This is what keeps `lowerbound_ -= step_` from   *)
(* wrapping around: a backward move happens only below a lower bound that  *)
(* is a positive multiple of Step.                                         *)
(***************************************************************************)
BucketAligned ==
    Step # 0 /\ ~first_hit =>
        /\ \E k \in Nat : lowerbound = k * Step
        /\ upperbound = lowerbound + Step

IInv ==
    /\ TypeOK
    /\ Len(samples) <= SamplerCap
    /\ BucketAligned

-----------------------------------------------------------------------------
LEMMA TerminalPutType ==
    ASSUME NEW s \in Sample, NEW r, ChainOK(r), budget \in Nat
    PROVE  ChainOK(TerminalPut(s, r))
<1>1. r \in ChainType /\ r.calls \in Seq(Sample) /\ Len(r.calls) \in Nat
    BY DEF ChainOK, ChainType
<1>2. Append(r.calls, s) \in Seq(Sample)
    BY <1>1
<1>3. TerminalPut(s, r) \in ChainType
    <2>1. [r EXCEPT !.calls = Append(r.calls, s)] \in ChainType
        BY <1>1, <1>2, Zenon DEF ChainType
    <2>2. (Len(r.calls) < budget) \in BOOLEAN
        OBVIOUS
    <2>. QED  BY <2>1, <2>2, Zenon DEF TerminalPut, ChainType
<1>4. TerminalPut(s, r).samples = r.samples
    BY <1>1, Zenon DEF TerminalPut, ChainType
<1>. QED  BY <1>3, <1>4 DEF ChainOK

LEMMA LimiterPutType ==
    ASSUME NEW s \in Sample, NEW r, ChainOK(r), budget \in Nat
    PROVE  ChainOK(LimiterPut(s, r))
<1>0. r \in ChainType /\ r.counter + 1 \in Nat
    BY DEF ChainOK, ChainType
<1>2. ChainOK([r EXCEPT !.counter = @ + 1])
    <2>1. [r EXCEPT !.counter = @ + 1] \in ChainType
        BY <1>0, Zenon DEF ChainType
    <2>2. [r EXCEPT !.counter = @ + 1].samples = r.samples
        BY <1>0, Zenon DEF ChainType
    <2>. QED  BY <2>1, <2>2 DEF ChainOK
<1>1. ChainOK([r EXCEPT !.counter = @ + 1, !.ok = TRUE])
    <2>1. [r EXCEPT !.counter = @ + 1, !.ok = TRUE] \in ChainType
        BY <1>0, Zenon DEF ChainType
    <2>2. [r EXCEPT !.counter = @ + 1, !.ok = TRUE].samples = r.samples
        BY <1>0, Zenon DEF ChainType
    <2>. QED  BY <2>1, <2>2 DEF ChainOK
<1>3. ChainOK([r EXCEPT !.ok = FALSE])
    <2>1. [r EXCEPT !.ok = FALSE] \in ChainType
        BY <1>0, Zenon DEF ChainType
    <2>2. [r EXCEPT !.ok = FALSE].samples = r.samples
        BY <1>0, Zenon DEF ChainType
    <2>. QED  BY <2>1, <2>2 DEF ChainOK
<1>4. ChainOK(TerminalPut(s, [r EXCEPT !.counter = @ + 1]))
    BY <1>2, TerminalPutType
<1>5. ChainOK(TerminalPut(s, r))
    BY TerminalPutType
<1>. QED  BY <1>1, <1>3, <1>4, <1>5 DEF LimiterPut

LEMMA FlushType ==
    ASSUME NEW r, ChainOK(r), budget \in Nat, NEW p \in SortPerms(r.samples)
    PROVE  ChainOK(Flush(r, p))
<1>. DEFINE n  == Len(r.samples)
            sb == [i \in 1 .. n |-> r.samples[p[i]]]
<1>1. n \in Nat /\ p \in [1 .. n -> 1 .. n]
    BY DEF ChainOK, ChainType, SortPerms
<1>2. sb \in Seq(Sample) /\ Len(sb) = n
    BY <1>1 DEF ChainOK, ChainType
<1>3. \A m \in Int : m <= n => SubSeq(sb, 1, m) \in Seq(Sample)
    BY <1>2, SubSeqProperties
<1>4. r.calls \in Seq(Sample)
    BY DEF ChainOK, ChainType
<1>. DEFINE ok   == Len(r.calls) + Len(sb) <= budget \/ sb = <<>>
            made == IF ok THEN Len(sb)
                    ELSE IF budget - Len(r.calls) + 1 > 1
                         THEN budget - Len(r.calls) + 1 ELSE 1
<1>8. n = 0 => sb = <<>>
    BY <1>1
<1>5. made \in Int /\ made <= n
    BY <1>1, <1>2, <1>4, <1>8
<1>6. r.calls \o SubSeq(sb, 1, made) \in Seq(Sample)
    BY <1>3, <1>4, <1>5, ConcatProperties
<1>7. Flush(r, p) = [ok |-> ok, samples |-> IF ok THEN <<>> ELSE sb,
                     counter |-> r.counter,
                     calls |-> r.calls \o SubSeq(sb, 1, made)]
    BY DEF Flush
<1>. QED  BY <1>2, <1>6, <1>7 DEF ChainOK, ChainType

LEMMA SamplerPutType ==
    ASSUME NEW s \in Sample, NEW r, ChainOK(r), budget \in Nat,
           NEW p, NEW ix \in Slots, SamplerCap # 0,
           s.kind = "empty" => p \in SortPerms(r.samples)
    PROVE  ChainOK(SamplerPut(s, r, p, ix))
<1>0. r \in ChainType /\ r.samples \in Seq(Sample)
    BY DEF ChainOK, ChainType
<1>1. CASE s.kind = "empty"
    BY <1>1, FlushType DEF SamplerPut
<1>2. CASE s.kind # "empty" /\ Len(r.samples) < SamplerCap
    <2>1. Append(r.samples, s) \in Seq(Sample)
            /\ Len(Append(r.samples, s)) <= SamplerCap
        BY <1>0, <1>2
    <2>2. [r EXCEPT !.samples = Append(@, s), !.ok = TRUE] \in ChainType
        BY <1>0, <2>1, Zenon DEF ChainType
    <2>3. [r EXCEPT !.samples = Append(@, s), !.ok = TRUE].samples
            = Append(r.samples, s)
        BY <1>0, Zenon DEF ChainType
    <2>. QED  BY <1>2, <2>1, <2>2, <2>3 DEF SamplerPut, ChainOK
<1>3. CASE s.kind # "empty" /\ ~(Len(r.samples) < SamplerCap)
    <2>1. ix \in 1 .. Len(r.samples)
        BY <1>0, <1>3 DEF Slots, ChainOK
    <2>2. [r.samples EXCEPT ![ix] = s] \in Seq(Sample)
            /\ Len([r.samples EXCEPT ![ix] = s]) = Len(r.samples)
        BY <1>0, <2>1
    <2>3. [r EXCEPT !.samples[ix] = s, !.ok = TRUE]
            = [r EXCEPT !.samples = [r.samples EXCEPT ![ix] = s], !.ok = TRUE]
        BY <1>0, Zenon DEF ChainType
    <2>4. [r EXCEPT !.samples = [r.samples EXCEPT ![ix] = s], !.ok = TRUE]
            \in ChainType
        BY <1>0, <2>2, Zenon DEF ChainType
    <2>5. [r EXCEPT !.samples = [r.samples EXCEPT ![ix] = s], !.ok = TRUE].samples
            = [r.samples EXCEPT ![ix] = s]
        BY <1>0, Zenon DEF ChainType
    <2>. QED  BY <1>3, <2>2, <2>3, <2>4, <2>5 DEF SamplerPut, ChainOK
<1>. QED  BY <1>1, <1>2, <1>3

LEMMA RootPutType ==
    ASSUME NEW s \in Sample, NEW r, ChainOK(r), budget \in Nat,
           NEW p, NEW ix \in Slots,
           s.kind = "empty" => p \in SortPerms(r.samples)
    PROVE  ChainOK(RootPut(s, r, p, ix))
<1>1. CASE TopologyHasSampler
    BY <1>1, SamplerPutType DEF RootPut, TopologyHasSampler
<1>2. CASE ~TopologyHasSampler
    BY <1>2, LimiterPutType DEF RootPut
<1>. QED  BY <1>1, <1>2

LEMMA ChainInit ==
    ASSUME IInv
    PROVE  ChainOK(Chain) /\ budget \in Nat
BY DEF IInv, TypeOK, ChainOK, ChainType, Chain

LEMMA DataSampleType ==
    ASSUME NEW s \in DataSample
    PROVE  s \in Sample /\ s.kind = "data" /\ s.ts \in Nat
BY DEF DataSample, Sample, QLower, QUpper

LEMMA MarkerType ==
    ASSUME NEW t \in Nat
    PROVE  Marker(t) \in Sample /\ Marker(t).kind = "empty"
BY DEF Marker, Sample, NoId

\* The bucket GroupByStatement::put starts from is aligned and one step wide.
LEMMA StartAligned ==
    ASSUME IInv, Step # 0, NEW t \in Nat
    PROVE  LET b == GroupByStart(t)
           IN  /\ b.lo \in Nat /\ b.up = b.lo + Step
               /\ \E k \in Nat : b.lo = k * Step
<1>1. CASE first_hit
    <2>1. t \div Step \in Nat /\ Aligned(t) = (t \div Step) * Step
        BY DEF Aligned
    <2>2. Aligned(t) \in Nat
        BY <2>1
    <2>. QED  BY <1>1, <2>1, <2>2 DEF GroupByStart
<1>2. CASE ~first_hit
    BY <1>2 DEF GroupByStart, IInv, BucketAligned, TypeOK
<1>. QED  BY <1>1, <1>2

\* Moving an aligned bucket one step keeps it aligned, and a backward move
\* below a lower bound that is a multiple of Step never goes under zero
\* (the unsigned `lowerbound_ -= step_` of GroupByStatement::put).
LEMMA MoveAligned ==
    ASSUME Step # 0, NEW lo \in Nat, NEW k \in Nat, lo = k * Step,
           NEW fwd \in BOOLEAN, NEW t \in Nat, ~fwd => t < lo
    PROVE  LET b == GroupByMove([lo |-> lo, up |-> lo + Step], fwd)
           IN  /\ b.lo \in Nat /\ b.up = b.lo + Step
               /\ \E j \in Nat : b.lo = j * Step
<1>1. CASE fwd
    <2>1. lo + Step = (k + 1) * Step
        OBVIOUS
    <2>. QED  BY <1>1, <2>1 DEF GroupByMove
<1>2. CASE ~fwd
    <2>1. k # 0
        BY <1>2
    <2>2. lo - Step = (k - 1) * Step /\ k - 1 \in Nat
        BY <2>1
    <2>3. lo - Step \in Nat
        BY <2>2
    <2>. QED  BY <1>2, <2>2, <2>3 DEF GroupByMove
<1>. QED  BY <1>1, <1>2

\* BucketOK(g): the bucket GroupByPut returns is aligned, as the invariant
\* requires of the next state.
BucketOK(bk) ==
    /\ bk.lo \in Nat /\ bk.up \in Nat
    /\ Step # 0 => /\ \E k \in Nat : bk.lo = k * Step
                  /\ bk.up = bk.lo + Step

LEMMA GroupByPutType ==
    ASSUME IInv, NEW s \in DataSample, NEW p \in SortPerms(samples),
           NEW ix \in Slots
    PROVE  ChainOK(GroupByPut(s, p, ix).chain)
           /\ BucketOK(GroupByPut(s, p, ix).bucket)
<1>. DEFINE b   == GroupByStart(s.ts)
            fwd == s.ts >= b.up
            bwd == ~fwd /\ s.ts < b.lo
            m   == RootPut(Marker(b.up), Chain, p, ix)
<1>0. /\ ChainOK(Chain) /\ budget \in Nat
      /\ s \in Sample /\ s.kind = "data" /\ s.ts \in Nat
      /\ p \in SortPerms(Chain.samples)
    BY ChainInit, DataSampleType DEF Chain
<1>1. ChainOK(RootPut(s, Chain, p, ix))
    BY <1>0, RootPutType
<1>2. CASE Step = 0
    <2>1. BucketOK([lo |-> lowerbound, up |-> upperbound])
        BY <1>2 DEF BucketOK, IInv, TypeOK
    <2>. QED  BY <1>1, <1>2, <2>1 DEF GroupByPut
<1>3. CASE Step # 0
    <2>1. /\ b.lo \in Nat /\ b.up = b.lo + Step
          /\ \E k \in Nat : b.lo = k * Step
        BY <1>0, <1>3, StartAligned
    <2>2. BucketOK(b)
        BY <1>3, <2>1 DEF BucketOK
    <2>3. CASE ~fwd /\ ~bwd
        BY <1>1, <1>3, <2>2, <2>3 DEF GroupByPut
    <2>4. CASE (fwd \/ bwd) /\ ~m.ok
        <3>1. Marker(b.up) \in Sample /\ Marker(b.up).kind = "empty"
            BY <2>1, MarkerType
        <3>2. ChainOK(m)
            BY <1>0, <3>1, RootPutType
        <3>. QED  BY <1>3, <2>2, <2>4, <3>2 DEF GroupByPut
    <2>5. CASE (fwd \/ bwd) /\ m.ok
        <3>1. Marker(b.up) \in Sample /\ Marker(b.up).kind = "empty"
            BY <2>1, MarkerType
        <3>2. ChainOK(m)
            BY <1>0, <3>1, RootPutType
        <3>3. ChainOK(RootPut(s, m, p, ix))
            BY <1>0, <3>2, RootPutType
        <3>4. fwd \in BOOLEAN /\ (~fwd => s.ts < b.lo)
            BY <2>5
        <3>5. BucketOK(GroupByMove([lo |-> b.lo, up |-> b.lo + Step], fwd))
            <4>1. PICK k \in Nat : b.lo = k * Step
                BY <2>1
            <4>2. LET nb == GroupByMove([lo |-> b.lo, up |-> b.lo + Step], fwd)
                  IN  /\ nb.lo \in Nat /\ nb.up = nb.lo + Step
                      /\ \E j \in Nat : nb.lo = j * Step
                BY <1>0, <1>3, <2>1, <3>4, <4>1, MoveAligned
            <4>. QED  BY <4>2 DEF BucketOK
        <3>6. b = [lo |-> b.lo, up |-> b.lo + Step]
            BY <2>1 DEF GroupByStart
        <3>. QED  BY <1>3, <2>5, <3>3, <3>5, <3>6 DEF GroupByPut
    <2>. QED  BY <2>3, <2>4, <2>5
<1>. QED  BY <1>2, <1>3

-----------------------------------------------------------------------------
LEMMA InitIInv == Init => IInv
<1>. SUFFICES ASSUME Init PROVE IInv
    OBVIOUS
<1>1. <<>> \in Seq(Sample) /\ <<>> \in Seq(DataSample) /\ Len(<<>>) = 0
    OBVIOUS
<1>2. TypeOK
    BY <1>1 DEF Init, TypeOK
<1>. QED  BY <1>1, <1>2 DEF Init, IInv, BucketAligned

LEMMA PutIInv == IInv /\ Put => IInv'
<1>. SUFFICES ASSUME IInv, Put PROVE IInv'
    OBVIOUS
<1>1. PICK s \in DataSample, p \in SortPerms(samples), ix \in Slots :
        LET g == GroupByPut(s, p, ix)
        IN  /\ first_hit' = (first_hit /\ Step = 0)
            /\ lowerbound' = g.bucket.lo
            /\ upperbound' = g.bucket.up
            /\ samples' = g.chain.samples
            /\ counter' = g.chain.counter
            /\ calls' = g.chain.calls
            /\ phase' = IF g.chain.ok THEN "running" ELSE "halted"
            /\ inputs' = Append(inputs, s)
    BY DEF Put
<1>. DEFINE g == GroupByPut(s, p, ix)
<1>2. ChainOK(g.chain) /\ BucketOK(g.bucket)
    BY GroupByPutType
<1>3. Append(inputs, s) \in Seq(DataSample)
    BY DEF IInv, TypeOK
<1>4. TypeOK'
    BY <1>1, <1>2, <1>3 DEF Put, IInv, TypeOK, ChainOK, ChainType, BucketOK
<1>5. Len(samples') <= SamplerCap
    BY <1>1, <1>2 DEF ChainOK
<1>6. BucketAligned'
    BY <1>1, <1>2 DEF BucketAligned, BucketOK
<1>. QED  BY <1>4, <1>5, <1>6 DEF IInv

LEMMA StopIInv == IInv /\ Stop => IInv'
<1>. SUFFICES ASSUME IInv, Stop PROVE IInv'
    OBVIOUS
<1>1. PICK p \in SortPerms(samples) :
        LET r == IF TopologyHasSampler THEN Flush(Chain, p) ELSE Chain
        IN  /\ samples' = r.samples
            /\ calls' = r.calls
    BY DEF Stop
<1>. DEFINE r == IF TopologyHasSampler THEN Flush(Chain, p) ELSE Chain
<1>2. ChainOK(r)
    BY ChainInit, FlushType DEF Chain
<1>3. TypeOK'
    BY <1>1, <1>2 DEF Stop, IInv, TypeOK, ChainOK, ChainType
<1>. QED  BY <1>1, <1>2, <1>3 DEF Stop, IInv, ChainOK, BucketAligned

LEMMA SetErrorIInv == IInv /\ SetError => IInv'
BY DEF SetError, IInv, TypeOK, BucketAligned

LEMMA StutterIInv == IInv /\ UNCHANGED vars => IInv'
BY DEF vars, IInv, TypeOK, BucketAligned

(***************************************************************************)
(* Type correctness of the whole pipeline for every query range, step,     *)
(* sampler size, limiter and cursor budget: in particular the group-by     *)
(* bounds, u64 in GroupByStatement, never wrap below zero, and the sampler *)
(* buffer never holds more than its reservoir size.                        *)
(***************************************************************************)
THEOREM TypeCorrect == Spec => []TypeOK
<1>1. Init => IInv
    BY InitIInv
<1>2. IInv /\ [Next]_vars => IInv'
    BY PutIInv, StopIInv, SetErrorIInv, StutterIInv DEF Next
<1>3. IInv => TypeOK
    BY DEF IInv
<1>. QED  BY <1>1, <1>2, <1>3, PTL DEF Spec

-----------------------------------------------------------------------------
(***************************************************************************)
(* Backpressure without the sampler.  A chain call leaves at most one      *)
(* refused put at the cursor, and reports false when it made one.          *)
(***************************************************************************)
RefusalOK(r) ==
    /\ Len(r.calls) <= budget + 1
    /\ Len(r.calls) > budget => ~r.ok

\* The strengthening: a running stream has made no refused put yet.
RInv ==
    /\ IInv
    /\ Len(calls) <= budget + 1
    /\ Len(calls) > budget => phase # "running"

LEMMA TerminalPutRefusal ==
    ASSUME NEW s \in Sample, NEW r, ChainOK(r), budget \in Nat,
           Len(r.calls) <= budget
    PROVE  RefusalOK(TerminalPut(s, r))
<1>1. r \in ChainType /\ r.calls \in Seq(Sample)
    BY DEF ChainOK, ChainType
<1>2. TerminalPut(s, r).calls = Append(r.calls, s)
      /\ TerminalPut(s, r).ok = (Len(r.calls) < budget)
    BY <1>1, Zenon DEF TerminalPut, ChainType
<1>3. Len(Append(r.calls, s)) = Len(r.calls) + 1 /\ Len(r.calls) \in Nat
    BY <1>1
<1>4. TerminalPut(s, r).ok <=> Len(r.calls) < budget
    BY <1>2, Zenon
<1>. QED  BY <1>2, <1>3, <1>4 DEF RefusalOK

LEMMA LimiterPutRefusal ==
    ASSUME NEW s \in Sample, NEW r, ChainOK(r), budget \in Nat,
           Len(r.calls) <= budget
    PROVE  RefusalOK(LimiterPut(s, r))
<1>0. r \in ChainType /\ r.counter + 1 \in Nat
    BY DEF ChainOK, ChainType
<1>1. RefusalOK([r EXCEPT !.counter = @ + 1, !.ok = TRUE])
    <2>1. [r EXCEPT !.counter = @ + 1, !.ok = TRUE].calls = r.calls
        BY <1>0, Zenon DEF ChainType
    <2>. QED  BY <2>1 DEF RefusalOK
<1>2. RefusalOK([r EXCEPT !.ok = FALSE])
    <2>1. [r EXCEPT !.ok = FALSE].calls = r.calls
          /\ [r EXCEPT !.ok = FALSE].ok = FALSE
        BY <1>0, Zenon DEF ChainType
    <2>. QED  BY <2>1 DEF RefusalOK
<1>3. RefusalOK(TerminalPut(s, [r EXCEPT !.counter = @ + 1]))
    <2>1. ChainOK([r EXCEPT !.counter = @ + 1])
        <3>1. [r EXCEPT !.counter = @ + 1] \in ChainType
            BY <1>0, Zenon DEF ChainType
        <3>2. [r EXCEPT !.counter = @ + 1].samples = r.samples
              /\ [r EXCEPT !.counter = @ + 1].calls = r.calls
            BY <1>0, Zenon DEF ChainType
        <3>. QED  BY <3>1, <3>2 DEF ChainOK
    <2>2. [r EXCEPT !.counter = @ + 1].calls = r.calls
        BY <1>0, Zenon DEF ChainType
    <2>. QED  BY <2>1, <2>2, TerminalPutRefusal
<1>4. RefusalOK(TerminalPut(s, r))
    BY TerminalPutRefusal
<1>. QED  BY <1>1, <1>2, <1>3, <1>4 DEF LimiterPut

LEMMA RootPutRefusal ==
    ASSUME SamplerCap = 0, NEW s \in Sample, NEW r, ChainOK(r),
           budget \in Nat, Len(r.calls) <= budget, NEW p, NEW ix
    PROVE  RefusalOK(RootPut(s, r, p, ix))
BY LimiterPutRefusal DEF RootPut, TopologyHasSampler

LEMMA GroupByPutRefusal ==
    ASSUME SamplerCap = 0, IInv, Len(calls) <= budget,
           NEW s \in DataSample, NEW p \in SortPerms(samples), NEW ix \in Slots
    PROVE  RefusalOK(GroupByPut(s, p, ix).chain)
<1>. DEFINE b   == GroupByStart(s.ts)
            fwd == s.ts >= b.up
            bwd == ~fwd /\ s.ts < b.lo
            m   == RootPut(Marker(b.up), Chain, p, ix)
<1>0. /\ ChainOK(Chain) /\ budget \in Nat /\ Len(Chain.calls) <= budget
      /\ s \in Sample /\ p \in SortPerms(Chain.samples)
    BY ChainInit, DataSampleType DEF Chain
<1>1. RefusalOK(RootPut(s, Chain, p, ix))
    BY <1>0, RootPutRefusal
<1>2. CASE Step = 0 \/ (~fwd /\ ~bwd)
    BY <1>1, <1>2 DEF GroupByPut
<1>3. CASE Step # 0 /\ (fwd \/ bwd)
    <2>0. s.ts \in Nat
        BY DataSampleType
    <2>1. b.up \in Nat
        <3>1. b.lo \in Nat /\ b.up = b.lo + Step
            BY <2>0, <1>3, StartAligned
        <3>. QED  BY <3>1
    <2>2. Marker(b.up) \in Sample
        BY <2>1, MarkerType
    <2>3. RefusalOK(m) /\ ChainOK(m)
        BY <1>0, <2>2, RootPutRefusal, RootPutType
    <2>4. CASE ~m.ok
        BY <1>3, <2>3, <2>4 DEF GroupByPut
    <2>5. CASE m.ok
        <3>1. Len(m.calls) <= budget
            <4>1. Len(m.calls) \in Nat
                BY <2>3 DEF ChainOK, ChainType
            <4>2. Len(m.calls) <= budget + 1 /\ (Len(m.calls) > budget => ~m.ok)
                BY <2>3 DEF RefusalOK
            <4>. QED  BY <1>0, <2>5, <4>1, <4>2
        <3>2. RefusalOK(RootPut(s, m, p, ix))
            BY <1>0, <2>3, <3>1, RootPutRefusal
        <3>. QED  BY <1>3, <2>5, <3>2 DEF GroupByPut
    <2>. QED  BY <2>4, <2>5
<1>. QED  BY <1>2, <1>3

LEMMA PutRInv ==
    ASSUME SamplerCap = 0
    PROVE  RInv /\ Put => RInv'
<1>. SUFFICES ASSUME RInv, Put PROVE RInv'
    OBVIOUS
<1>1. PICK s \in DataSample, p \in SortPerms(samples), ix \in Slots :
        LET g == GroupByPut(s, p, ix)
        IN  /\ calls' = g.chain.calls
            /\ phase' = IF g.chain.ok THEN "running" ELSE "halted"
    BY DEF Put
<1>. DEFINE g == GroupByPut(s, p, ix)
<1>2. Len(calls) <= budget /\ budget \in Nat
    BY DEF Put, RInv, IInv, TypeOK
<1>3. RefusalOK(g.chain)
    BY <1>2, GroupByPutRefusal DEF RInv
<1>4. IInv'
    BY PutIInv DEF RInv
<1>5. budget' = budget
    BY DEF Put
<1>. QED  BY <1>1, <1>3, <1>4, <1>5 DEF RInv, RefusalOK

LEMMA StopRInv ==
    ASSUME SamplerCap = 0
    PROVE  RInv /\ Stop => RInv'
<1>. SUFFICES ASSUME RInv, Stop PROVE RInv'
    OBVIOUS
<1>1. calls' = calls /\ budget' = budget /\ phase' = "stopped"
    BY DEF Stop, TopologyHasSampler, Chain
<1>. QED  BY <1>1, StopIInv DEF RInv

(***************************************************************************)
(* Backpressure of the limiter/terminal chain, for every budget, limit and *)
(* offset: once the cursor refused a put, GroupByStatement::put,           *)
(* Limiter::put and ScanQueryProcessor::put return false, the storage      *)
(* operator stops, and the cursor is never called again -- it sees at most *)
(* one put beyond its budget.  (With the random sampler this fails: see    *)
(* the sampler refusal run.)                                               *)
(***************************************************************************)
THEOREM NoCallAfterRefusalHolds ==
    ASSUME SamplerCap = 0
    PROVE  Spec => []NoCallAfterRefusal
<1>1. Init => RInv
    BY InitIInv DEF Init, RInv
<1>2. RInv /\ [Next]_vars => RInv'
    <2>1. RInv /\ SetError => RInv'
        BY SetErrorIInv DEF SetError, RInv
    <2>2. RInv /\ UNCHANGED vars => RInv'
        BY StutterIInv DEF vars, RInv
    <2>. QED  BY <2>1, <2>2, PutRInv, StopRInv DEF Next
<1>3. RInv => NoCallAfterRefusal
    BY DEF RInv, NoCallAfterRefusal
<1>. QED  BY <1>1, <1>2, <1>3, PTL DEF Spec

=============================================================================
