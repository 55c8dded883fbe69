---------------------------- MODULE SamplerProofs ----------------------------
(***************************************************************************)
(* Proof that a forward scan through the random sampler reaches the cursor *)
(* sorted by (timestamp, paramid) up to the refused put (OutputSorted),    *)
(* for every range, step, reservoir size and cursor budget.               *)
(***************************************************************************)
EXTENDS GroupByProofs

\* x comes no later than y in the (timestamp, paramid) order
NotAfter(x, y) == x = y \/ Before(x, y)

\* d is strictly increasing
Sorted(d) == \A i, j \in 1 .. Len(d) : i < j => Before(d[i], d[j])

\* x is one of the elements of c
InSeq(x, c) == \E j \in 1 .. Len(c) : x = c[j]

\* the first n calls of c are strictly increasing
SortedUpTo(c, n) ==
    \A i, j \in 1 .. Len(c) : i < j /\ j <= n => Before(c[i], c[j])

(***************************************************************************)
(* The inductive invariant, for a forward scan through a sampler.  Besides *)
(* the output being sorted, it says that while the cursor has not refused, *)
(* every sample in the reservoir comes after everything already flushed    *)
(* -- which is what makes the next flush, sorted on its own, continue the *)
(* sorted output -- and that nothing flushed or buffered comes after the  *)
(* last input, which is what puts the next input after all of them.        *)
(***************************************************************************)
SortInv ==
    direction = FWD =>
        /\ SortedUpTo(calls, budget + 1)
        /\ Len(calls) <= budget =>
               \A i \in 1 .. Len(calls), k \in 1 .. Len(samples) :
                   Before(calls[i], samples[k])
        /\ inputs = <<>> => samples = <<>> /\ calls = <<>>
        /\ inputs # <<>> =>
               /\ \A i \in 1 .. Len(calls) : NotAfter(calls[i], LastInput)
               /\ \A k \in 1 .. Len(samples) : NotAfter(samples[k], LastInput)

SInv == IInv /\ SortInv

-----------------------------------------------------------------------------
\* The (timestamp, paramid) order is transitive.
LEMMA BeforeTrans ==
    ASSUME NEW x \in Sample, NEW y \in Sample, NEW z \in Sample,
           Before(x, y), Before(y, z)
    PROVE  Before(x, z)
<1>1. /\ x.ts \in Nat /\ y.ts \in Nat /\ z.ts \in Nat
      /\ x.id \in Nat /\ y.id \in Nat /\ z.id \in Nat
    BY PipelineAssumption DEF Sample, NoId
<1>. QED  BY <1>1 DEF Before

LEMMA NotAfterBefore ==
    ASSUME NEW x \in Sample, NEW y \in Sample, NEW z \in Sample,
           NotAfter(x, y), Before(y, z)
    PROVE  Before(x, z)
BY BeforeTrans DEF NotAfter

\* In a forward scan the storage operator yields samples in that order.
LEMMA LaterBefore ==
    ASSUME direction = FWD, NEW s, NEW prev, Later(s, prev)
    PROVE  Before(prev, s)
BY DEF Later, Before

\* A sorted batch whose samples all come after the calls before it (when
\* those are still within the first n) extends a sequence sorted up to n.
LEMMA ConcatSorted ==
    ASSUME NEW c \in Seq(Sample), NEW d \in Seq(Sample), NEW n \in Nat,
           SortedUpTo(c, n), Sorted(d),
           Len(c) < n => \A i \in 1 .. Len(c), k \in 1 .. Len(d) : Before(c[i], d[k])
    PROVE  SortedUpTo(c \o d, n)
<1>. DEFINE e == c \o d
            lc == Len(c)
<1>1. /\ Len(e) = lc + Len(d) /\ lc \in Nat /\ Len(d) \in Nat
      /\ \A i \in 1 .. lc : e[i] = c[i]
      /\ \A k \in 1 .. Len(d) : e[lc + k] = d[k]
    OBVIOUS
<1>. SUFFICES ASSUME NEW i \in 1 .. Len(e), NEW j \in 1 .. Len(e), i < j, j <= n
              PROVE  Before(e[i], e[j])
    BY DEF SortedUpTo
<1>2. CASE j <= lc
    BY <1>1, <1>2 DEF SortedUpTo
<1>3. CASE i <= lc /\ j > lc
    <2>1. e[j] = d[j - lc] /\ j - lc \in 1 .. Len(d) /\ lc < n
        BY <1>1, <1>3
    <2>. QED  BY <1>1, <1>3, <2>1
<1>4. CASE i > lc
    <2>1. e[i] = d[i - lc] /\ e[j] = d[j - lc]
          /\ i - lc \in 1 .. Len(d) /\ j - lc \in 1 .. Len(d) /\ i - lc < j - lc
        BY <1>1, <1>4
    <2>. QED  BY <2>1 DEF Sorted
<1>. QED  BY <1>2, <1>3, <1>4

(***************************************************************************)
(* RandomSamplingNode::flush appends to the cursor a sorted batch of what  *)
(* the reservoir held, and keeps only reservoir samples; the reservoir is  *)
(* left non-empty only by a refusal, after which the cursor has received   *)
(* more than its budget.                                                   *)
(***************************************************************************)
LEMMA FlushSorted ==
    ASSUME NEW r, ChainOK(r), budget \in Nat, NEW p \in SortPerms(r.samples)
    PROVE  LET F == Flush(r, p)
           IN  /\ \E d \in Seq(Sample) :
                     /\ F.calls = r.calls \o d /\ Sorted(d)
                     /\ \A k \in 1 .. Len(d) : InSeq(d[k], r.samples)
               /\ \A k \in 1 .. Len(F.samples) : InSeq(F.samples[k], r.samples)
               /\ Len(F.calls) <= budget => F.samples = <<>>
<1>. DEFINE n  == Len(r.samples)
            lc == Len(r.calls)
            sb == [i \in 1 .. n |-> r.samples[p[i]]]
            ok   == lc + Len(sb) <= budget \/ sb = <<>>
            made == IF ok THEN Len(sb)
                    ELSE IF budget - lc + 1 > 1 THEN budget - lc + 1 ELSE 1
            d  == SubSeq(sb, 1, made)
<1>1. /\ n \in Nat /\ lc \in Nat /\ p \in [1 .. n -> 1 .. n]
      /\ r.samples \in Seq(Sample) /\ r.calls \in Seq(Sample)
      /\ \A i, j \in 1 .. n : i < j => Before(r.samples[p[i]], r.samples[p[j]])
    BY DEF ChainOK, ChainType, SortPerms
<1>2. /\ sb \in Seq(Sample) /\ Len(sb) = n
      /\ \A i \in 1 .. n : sb[i] = r.samples[p[i]] /\ InSeq(sb[i], r.samples)
      /\ \A i \in 1 .. n : sb[i] \in Sample
      /\ Sorted(sb)
    <2>1. \A i \in 1 .. n : p[i] \in 1 .. n /\ r.samples[p[i]] \in Sample
        BY <1>1
    <2>2. sb \in Seq(Sample) /\ Len(sb) = n
        BY <1>1, <2>1
    <2>3. \A i \in 1 .. n : sb[i] = r.samples[p[i]] /\ InSeq(sb[i], r.samples)
        BY <2>1 DEF InSeq
    <2>4. Sorted(sb)
        BY <1>1, <2>2, <2>3 DEF Sorted
    <2>. QED  BY <2>1, <2>2, <2>3, <2>4
<1>3. made \in 0 .. n /\ (~ok => lc + made >= budget + 1)
    <2>1. n = 0 => sb = <<>>
        BY <1>1, <1>2
    <2>2. Len(sb) = n
        BY <1>2
    <2>. HIDE DEF sb, n
    <2>3. CASE ok
        <3>1. made = n
            BY <2>2, <2>3 DEF made
        <3>. QED  BY <1>1, <3>1
    <2>4. CASE ~ok
        <3>1. ~(lc + n <= budget) /\ sb # <<>>
            BY <2>2, <2>4 DEF ok
        <3>2. n # 0
            BY <3>1, <2>1
        <3>3. made = IF budget - lc + 1 > 1 THEN budget - lc + 1 ELSE 1
            BY <2>4 DEF made
        <3>. HIDE DEF made, ok, lc
        <3>. QED  BY <1>1, <3>1, <3>2, <3>3, <2>4
    <2>. QED  BY <2>3, <2>4
<1>4. /\ d \in Seq(Sample) /\ Len(d) = made
      /\ \A k \in 1 .. made : d[k] = sb[k]
    <2>. HIDE DEF made, sb, n
    <2>1. made \in Int /\ \A i \in 1 .. made : sb[i] \in Sample
        BY <1>1, <1>2, <1>3
    <2>2. SubSeq(sb, 1, made) \in Seq(Sample)
        BY <2>1, SubSeqProperties
    <2>4. Len(SubSeq(sb, 1, made)) = made
        BY <2>1, <1>3, SubSeqProperties
    <2>5. \A i \in 1 .. made : SubSeq(sb, 1, made)[i] = sb[i]
        BY <2>1, SubSeqProperties
    <2>. HIDE DEF d
    <2>3. d = SubSeq(sb, 1, made)
        BY DEF d
    <2>. QED  BY <2>2, <2>3, <2>4, <2>5
<1>5. Sorted(d) /\ \A k \in 1 .. Len(d) : InSeq(d[k], r.samples)
    <2>. HIDE DEF made, sb, d
    <2>1. \A k \in 1 .. Len(d) : k \in 1 .. n /\ d[k] = sb[k]
        BY <1>3, <1>4
    <2>2. Sorted(d)
        BY <2>1, <1>2 DEF Sorted
    <2>3. \A k \in 1 .. Len(d) : InSeq(d[k], r.samples)
        BY <2>1, <1>2
    <2>. QED  BY <2>2, <2>3
<1>6. Flush(r, p).calls = r.calls \o d
      /\ Flush(r, p).samples = IF ok THEN <<>> ELSE sb
    BY DEF Flush
<1>7. Len(r.calls \o d) = lc + made
    <2>. HIDE DEF made, sb, d
    <2>. QED  BY <1>1, <1>4, ConcatProperties
<1>. HIDE DEF made, sb, d, ok
<1>8. \A k \in 1 .. Len(Flush(r, p).samples) : InSeq(Flush(r, p).samples[k], r.samples)
    BY <1>2, <1>6
<1>9. Len(Flush(r, p).calls) <= budget => Flush(r, p).samples = <<>>
    BY <1>1, <1>3, <1>6, <1>7
<1>. QED  BY <1>4, <1>5, <1>6, <1>8, <1>9

\* RandomSamplingNode::put of a data sample sends the cursor nothing and
\* leaves in the reservoir only that sample and what it held before.
LEMMA SamplerPutSample ==
    ASSUME NEW s \in Sample, s.kind = "data", NEW r, ChainOK(r),
           NEW p, NEW ix \in Slots, SamplerCap # 0
    PROVE  LET q == SamplerPut(s, r, p, ix)
           IN  /\ q.calls = r.calls /\ q.ok
               /\ \A k \in 1 .. Len(q.samples) :
                      q.samples[k] = s \/ InSeq(q.samples[k], r.samples)
<1>0. r \in ChainType /\ r.samples \in Seq(Sample)
    BY DEF ChainOK, ChainType
<1>1. CASE Len(r.samples) < SamplerCap
    <2>1. /\ [r EXCEPT !.samples = Append(@, s), !.ok = TRUE].samples
               = Append(r.samples, s)
          /\ [r EXCEPT !.samples = Append(@, s), !.ok = TRUE].calls = r.calls
          /\ [r EXCEPT !.samples = Append(@, s), !.ok = TRUE].ok
        BY <1>0, Zenon DEF ChainType
    <2>2. \A k \in 1 .. Len(Append(r.samples, s)) :
              Append(r.samples, s)[k] = s \/ InSeq(Append(r.samples, s)[k], r.samples)
        BY <1>0 DEF InSeq
    <2>. QED  BY <1>1, <2>1, <2>2 DEF SamplerPut
<1>2. CASE ~(Len(r.samples) < SamplerCap)
    <2>1. /\ [r EXCEPT !.samples[ix] = s, !.ok = TRUE].samples
               = [r.samples EXCEPT ![ix] = s]
          /\ [r EXCEPT !.samples[ix] = s, !.ok = TRUE].calls = r.calls
          /\ [r EXCEPT !.samples[ix] = s, !.ok = TRUE].ok
        BY <1>0, Zenon DEF ChainType
    <2>2. ix \in 1 .. Len(r.samples)
        BY <1>0, <1>2, PipelineAssumption DEF Slots, ChainOK
    <2>3. Len([r.samples EXCEPT ![ix] = s]) = Len(r.samples)
        BY <1>0, <2>2
    <2>4. \A k \in 1 .. Len(r.samples) :
              [r.samples EXCEPT ![ix] = s][k] = s
              \/ InSeq([r.samples EXCEPT ![ix] = s][k], r.samples)
        BY <1>0, <2>2 DEF InSeq
    <2>. QED  BY <1>2, <2>1, <2>3, <2>4 DEF SamplerPut
<1>. QED  BY <1>1, <1>2

(***************************************************************************)
(* What one group-by put of s makes of the chain: the cursor receives a    *)
(* sorted batch of reservoir samples, and the reservoir then holds s and  *)
(* samples it held before -- the latter only if nothing was flushed or    *)
(* the cursor has been sent more than its budget.                          *)
(***************************************************************************)
Extends(q, s) ==
    \E d \in Seq(Sample) :
        /\ q.calls = calls \o d /\ Sorted(d)
        /\ \A k \in 1 .. Len(d) : InSeq(d[k], samples)
        /\ \A k \in 1 .. Len(q.samples) :
               \/ q.samples[k] = s
               \/ InSeq(q.samples[k], samples) /\ (Len(q.calls) <= budget => d = <<>>)

LEMMA GroupByPutExtends ==
    ASSUME IInv, SamplerCap # 0, NEW s \in DataSample,
           NEW p \in SortPerms(samples), NEW ix \in Slots
    PROVE  Extends(GroupByPut(s, p, ix).chain, s)
<1>. DEFINE b   == GroupByStart(s.ts)
            fwd == s.ts >= b.up
            bwd == ~fwd /\ s.ts < b.lo
            m   == RootPut(Marker(b.up), Chain, p, ix)
<1>0. /\ ChainOK(Chain) /\ budget \in Nat
      /\ Chain.samples = samples /\ Chain.calls = calls
      /\ s \in Sample /\ s.kind = "data" /\ s.ts \in Nat
      /\ p \in SortPerms(Chain.samples)
      /\ calls \in Seq(Sample) /\ calls \o <<>> = calls
    BY ChainInit, DataSampleType DEF IInv, TypeOK, Chain
<1>1. Extends(RootPut(s, Chain, p, ix), s)
    <2>1. LET q == SamplerPut(s, Chain, p, ix)
          IN  /\ q.calls = calls /\ q.ok
              /\ \A k \in 1 .. Len(q.samples) :
                     q.samples[k] = s \/ InSeq(q.samples[k], samples)
        BY <1>0, SamplerPutSample
    <2>2. <<>> \in Seq(Sample) /\ Sorted(<<>>) /\ Len(<<>>) = 0
        BY DEF Sorted
    <2>. DEFINE q == SamplerPut(s, Chain, p, ix)
    <2>3. q.calls = calls \o <<>>
        BY <1>0, <2>1
    <2>4. \A k \in 1 .. Len(q.samples) :
              \/ q.samples[k] = s
              \/ InSeq(q.samples[k], samples) /\ (Len(q.calls) <= budget => <<>> = <<>>)
        BY <1>0, <2>1
    <2>6. \A k \in 1 .. Len(<<>>) : InSeq(<<>>[k], samples)
        OBVIOUS
    <2>. HIDE DEF q
    <2>5. Extends(q, s)
        BY <2>2, <2>3, <2>4, <2>6, Zenon DEF Extends
    <2>. QED  BY <2>5 DEF q, RootPut, TopologyHasSampler
<1>2. CASE Step = 0 \/ (~fwd /\ ~bwd)
    BY <1>1, <1>2 DEF GroupByPut
<1>3. CASE Step # 0 /\ (fwd \/ bwd)
    <2>1. b.up \in Nat
        <3>1. b.lo \in Nat /\ b.up = b.lo + Step
            BY <1>0, <1>3, StartAligned
        <3>. QED  BY <3>1, PipelineAssumption
    <2>2. m = Flush(Chain, p)
        BY <2>1, MarkerType DEF RootPut, TopologyHasSampler, SamplerPut
    <2>3. /\ \E d \in Seq(Sample) :
                 /\ m.calls = calls \o d /\ Sorted(d)
                 /\ \A k \in 1 .. Len(d) : InSeq(d[k], samples)
          /\ \A k \in 1 .. Len(m.samples) : InSeq(m.samples[k], samples)
          /\ Len(m.calls) <= budget => m.samples = <<>>
          /\ m.ok => m.samples = <<>>
          /\ ChainOK(m)
        <3>1. Flush(Chain, p).ok => Flush(Chain, p).samples = <<>>
            BY Zenon DEF Flush
        <3>. HIDE DEF m
        <3>. QED  BY <1>0, <2>2, <3>1, FlushSorted, FlushType
    <2>4. CASE ~m.ok
        <3>1. GroupByPut(s, p, ix).chain = m
            BY <1>3, <2>4 DEF GroupByPut
        <3>. HIDE DEF m
        <3>2. PICK d \in Seq(Sample) :
                 /\ m.calls = calls \o d /\ Sorted(d)
                 /\ \A k \in 1 .. Len(d) : InSeq(d[k], samples)
            BY <2>3
        <3>3. \A k \in 1 .. Len(m.samples) :
                 InSeq(m.samples[k], samples) /\ ~(Len(m.calls) <= budget)
            BY <2>3
        <3>4. Extends(m, s)
            BY <3>2, <3>3, Zenon DEF Extends
        <3>. QED  BY <3>1, <3>4
    <2>5. CASE m.ok
        <3>1. GroupByPut(s, p, ix).chain = RootPut(s, m, p, ix)
            BY <1>3, <2>5 DEF GroupByPut
        <3>. HIDE DEF m
        <3>2. LET q == SamplerPut(s, m, p, ix)
              IN  /\ q.calls = m.calls
                  /\ \A k \in 1 .. Len(q.samples) :
                         q.samples[k] = s \/ InSeq(q.samples[k], m.samples)
            BY <1>0, <2>3, SamplerPutSample
        <3>3. \A x : ~InSeq(x, m.samples)
            BY <2>3, <2>5 DEF InSeq
        <3>4. PICK d \in Seq(Sample) :
                 /\ m.calls = calls \o d /\ Sorted(d)
                 /\ \A k \in 1 .. Len(d) : InSeq(d[k], samples)
            BY <2>3
        <3>. DEFINE q == SamplerPut(s, m, p, ix)
        <3>5. q.calls = calls \o d
            BY <3>2, <3>4
        <3>6. \A k \in 1 .. Len(q.samples) : q.samples[k] = s
            BY <3>2, <3>3
        <3>. HIDE DEF q
        <3>7. Extends(q, s)
            BY <3>4, <3>5, <3>6, Zenon DEF Extends
        <3>. QED  BY <3>1, <3>7 DEF q, RootPut, TopologyHasSampler
    <2>. QED  BY <2>4, <2>5
<1>. QED  BY <1>2, <1>3

-----------------------------------------------------------------------------
LEMMA InitSortInv == Init => SortInv
BY DEF Init, SortInv, SortedUpTo

(***************************************************************************)
(* A put: the new input comes after every call and every buffered sample   *)
(* (they are no later than the previous input), so the sorted batch a    *)
(* marker flushes continues the output and the reservoir stays ahead of   *)
(* it.                                                                    *)
(***************************************************************************)
LEMMA PutSortInv ==
    ASSUME IInv, SortInv, Put, SamplerCap # 0, direction = FWD
    PROVE  SortInv'
<1>1. PICK s \in DataSample, p \in SortPerms(samples), ix \in Slots :
        /\ IF inputs = <<>> THEN TRUE ELSE Later(s, inputs[Len(inputs)])
        /\ samples' = GroupByPut(s, p, ix).chain.samples
        /\ calls' = GroupByPut(s, p, ix).chain.calls
        /\ inputs' = Append(inputs, s)
    BY DEF Put
<1>. DEFINE g == GroupByPut(s, p, ix)
<1>2. /\ s \in Sample /\ budget \in Nat /\ budget' = budget
      /\ calls \in Seq(Sample) /\ samples \in Seq(Sample)
      /\ inputs \in Seq(DataSample)
      /\ inputs' # <<>> /\ LastInput' = s
    <2>1. s \in Sample
        BY DataSampleType
    <2>. QED  BY <1>1, <2>1, PipelineAssumption DEF IInv, TypeOK, LastInput, Put
<1>3. /\ \A i \in 1 .. Len(calls) : Before(calls[i], s)
      /\ \A k \in 1 .. Len(samples) : Before(samples[k], s)
    <2>1. CASE inputs = <<>>
        BY <2>1 DEF SortInv
    <2>2. CASE inputs # <<>>
        <3>1. LastInput \in Sample
            BY <1>2, <2>2, DataSampleType DEF LastInput
        <3>2. Before(LastInput, s)
            BY <1>1, <2>2, LaterBefore DEF LastInput
        <3>3. /\ \A i \in 1 .. Len(calls) : NotAfter(calls[i], LastInput)
              /\ \A k \in 1 .. Len(samples) : NotAfter(samples[k], LastInput)
            BY <2>2 DEF SortInv
        <3>. QED  BY <1>2, <3>1, <3>2, <3>3, NotAfterBefore
    <2>. QED  BY <2>1, <2>2
<1>4. PICK d \in Seq(Sample) :
        /\ calls' = calls \o d /\ Sorted(d)
        /\ \A k \in 1 .. Len(d) : InSeq(d[k], samples)
        /\ \A k \in 1 .. Len(samples') :
               \/ samples'[k] = s
               \/ InSeq(samples'[k], samples) /\ (Len(calls') <= budget => d = <<>>)
    <2>1. Extends(g.chain, s)
        BY <1>1, GroupByPutExtends
    <2>. QED  BY <1>1, <2>1 DEF Extends
<1>5. /\ \A k \in 1 .. Len(d) : Before(d[k], s)
      /\ \A i \in 1 .. Len(calls) : Len(calls) <= budget =>
             \A k \in 1 .. Len(d) : Before(calls[i], d[k])
    BY <1>3, <1>4 DEF InSeq, SortInv
<1>6. /\ Len(calls') = Len(calls) + Len(d)
      /\ \A i \in 1 .. Len(calls') :
             calls'[i] = IF i <= Len(calls) THEN calls[i] ELSE d[i - Len(calls)]
      /\ calls' \in Seq(Sample)
    BY <1>2, <1>4, ConcatProperties
<1>7. \A i \in 1 .. Len(calls') : Before(calls'[i], s)
    BY <1>3, <1>5, <1>6
<1>8. SortedUpTo(calls', budget + 1)
    <2>1. SortedUpTo(calls, budget + 1)
        BY DEF SortInv
    <2>2. Len(calls) < budget + 1 =>
             \A i \in 1 .. Len(calls), k \in 1 .. Len(d) : Before(calls[i], d[k])
        BY <1>2, <1>5
    <2>. QED  BY <1>2, <1>4, <2>1, <2>2, ConcatSorted
<1>9. Len(calls') <= budget =>
         \A i \in 1 .. Len(calls'), k \in 1 .. Len(samples') :
             Before(calls'[i], samples'[k])
    <2>. SUFFICES ASSUME Len(calls') <= budget, NEW i \in 1 .. Len(calls'),
                         NEW k \in 1 .. Len(samples')
                  PROVE  Before(calls'[i], samples'[k])
        OBVIOUS
    <2>1. CASE samples'[k] = s
        BY <1>7, <2>1
    <2>2. CASE samples'[k] # s
        <3>1. InSeq(samples'[k], samples) /\ d = <<>>
            BY <1>4, <2>2
        <3>2. calls' = calls /\ Len(calls) <= budget
            BY <1>2, <1>4, <3>1
        <3>. QED  BY <3>1, <3>2 DEF InSeq, SortInv
    <2>. QED  BY <2>1, <2>2
<1>10. \A k \in 1 .. Len(samples') : NotAfter(samples'[k], s)
    BY <1>3, <1>4 DEF InSeq, NotAfter
<1>11. \A i \in 1 .. Len(calls') : NotAfter(calls'[i], s)
    BY <1>7 DEF NotAfter
<1>. QED  BY <1>2, <1>8, <1>9, <1>10, <1>11 DEF SortInv

(***************************************************************************)
(* complete(): the final flush appends a sorted batch of the reservoir,    *)
(* which the invariant puts after everything the cursor received.         *)
(***************************************************************************)
LEMMA StopSortInv ==
    ASSUME IInv, SortInv, Stop, SamplerCap # 0, direction = FWD
    PROVE  SortInv'
<1>1. PICK p \in SortPerms(samples) :
        /\ samples' = Flush(Chain, p).samples
        /\ calls' = Flush(Chain, p).calls
    BY DEF Stop, TopologyHasSampler
<1>2. /\ budget \in Nat /\ budget' = budget /\ inputs' = inputs
      /\ calls \in Seq(Sample) /\ samples \in Seq(Sample)
      /\ ChainOK(Chain) /\ Chain.samples = samples /\ Chain.calls = calls
    BY ChainInit DEF IInv, TypeOK, Stop, Chain
<1>3. PICK d \in Seq(Sample) :
        /\ calls' = calls \o d /\ Sorted(d)
        /\ \A k \in 1 .. Len(d) : InSeq(d[k], samples)
        /\ \A k \in 1 .. Len(samples') : InSeq(samples'[k], samples)
        /\ Len(calls') <= budget => samples' = <<>>
    <2>. HIDE DEF Chain
    <2>. QED  BY <1>1, <1>2, FlushSorted
<1>4. /\ Len(calls') = Len(calls) + Len(d)
      /\ \A i \in 1 .. Len(calls') :
             calls'[i] = IF i <= Len(calls) THEN calls[i] ELSE d[i - Len(calls)]
    BY <1>2, <1>3, ConcatProperties
<1>5. SortedUpTo(calls', budget + 1)
    <2>1. SortedUpTo(calls, budget + 1)
        BY DEF SortInv
    <2>2. Len(calls) < budget + 1 =>
             \A i \in 1 .. Len(calls), k \in 1 .. Len(d) : Before(calls[i], d[k])
        BY <1>2, <1>3 DEF InSeq, SortInv
    <2>. QED  BY <1>2, <1>3, <2>1, <2>2, ConcatSorted
<1>6. Len(calls') <= budget =>
         \A i \in 1 .. Len(calls'), k \in 1 .. Len(samples') :
             Before(calls'[i], samples'[k])
    BY <1>3
<1>7. CASE inputs = <<>>
    <2>1. samples = <<>> /\ calls = <<>>
        BY <1>7 DEF SortInv
    <2>2. Len(d) = 0 /\ Len(samples') = 0
        BY <1>3, <2>1 DEF InSeq
    <2>3. samples' = <<>> /\ calls' = <<>>
        BY <1>2, <1>3, <1>4, <2>1, <2>2
    <2>. QED  BY <1>2, <1>5, <1>7, <2>3 DEF SortInv
<1>8. CASE inputs # <<>>
    <2>1. /\ \A i \in 1 .. Len(calls) : NotAfter(calls[i], LastInput)
          /\ \A k \in 1 .. Len(samples) : NotAfter(samples[k], LastInput)
        BY <1>8 DEF SortInv
    <2>2. LastInput' = LastInput
        BY <1>2 DEF LastInput
    <2>3. \A i \in 1 .. Len(calls') : NotAfter(calls'[i], LastInput)
        BY <1>3, <1>4, <2>1 DEF InSeq
    <2>4. \A k \in 1 .. Len(samples') : NotAfter(samples'[k], LastInput)
        BY <1>3, <2>1 DEF InSeq
    <2>. QED  BY <1>2, <1>5, <1>6, <1>8, <2>2, <2>3, <2>4 DEF SortInv
<1>. QED  BY <1>7, <1>8

LEMMA SetErrorSortInv == SortInv /\ SetError => SortInv'
BY DEF SetError, SortInv, LastInput

LEMMA StutterSortInv == SortInv /\ UNCHANGED vars => SortInv'
BY DEF vars, SortInv, LastInput

LEMMA SortInvOutputSorted == SortInv => OutputSorted
BY DEF SortInv, SortedUpTo, OutputSorted

-----------------------------------------------------------------------------
LEMMA InitSInv == Init => SInv
BY InitIInv, InitSortInv DEF SInv

LEMMA NextSInv ==
    ASSUME SamplerCap # 0
    PROVE  SInv /\ [Next]_vars => SInv'
<1>. SUFFICES ASSUME SInv, [Next]_vars PROVE SInv'
    OBVIOUS
<1>1. IInv'
    BY PutIInv, StopIInv, SetErrorIInv, StutterIInv DEF SInv, Next
<1>2. SortInv'
    <2>1. CASE direction # FWD
        BY <2>1 DEF SortInv
    <2>2. CASE direction = FWD /\ Put
        BY <2>2, PutSortInv DEF SInv
    <2>3. CASE direction = FWD /\ Stop
        BY <2>3, StopSortInv DEF SInv
    <2>4. CASE SetError
        BY <2>4, SetErrorSortInv DEF SInv
    <2>5. CASE UNCHANGED vars
        BY <2>5, StutterSortInv DEF SInv
    <2>. QED  BY <2>1, <2>2, <2>3, <2>4, <2>5 DEF Next
<1>. QED  BY <1>1, <1>2 DEF SInv

(***************************************************************************)
(* RandomSamplingNode with a forward scan: whatever the range, step,       *)
(* reservoir size and cursor budget, the cursor receives the samples      *)
(* strictly sorted by (timestamp, paramid) up to and including the put it *)
(* refuses -- each flush sorts its batch and every batch comes after the   *)
(* one before it.                                                         *)
(***************************************************************************)
THEOREM OutputSortedHolds ==
    ASSUME SamplerCap # 0
    PROVE  Spec => []OutputSorted
<1>1. Init => SInv
    BY InitSInv
<1>2. SInv /\ [Next]_vars => SInv'
    BY NextSInv
<1>3. SInv => OutputSorted
    BY SortInvOutputSorted DEF SInv
<1>. QED  BY <1>1, <1>2, <1>3, PTL DEF Spec

=============================================================================
