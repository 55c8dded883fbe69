---------------------------- MODULE BucketProofs ----------------------------
(***************************************************************************)
(* Proof that every group-by marker the cursor receives follows a data     *)
(* sample in or past the bucket it closes (Pipeline!MarkerClosesBucket),   *)
(* for every range, step and cursor budget of a chain without a limiter.   *)
(*                                                                         *)
(* The argument: without a limiter every root put hands its sample to the  *)
(* cursor, so while the stream runs the cursor's last call is the last     *)
(* input, which GInv puts in or past the current bucket.  A marker is      *)
(* stamped with that bucket's upper bound and appended right after it.     *)
(***************************************************************************)
EXTENDS GroupByProofs

(***************************************************************************)
(* The strengthening: while a group-by scan without sampler or limiter     *)
(* runs, the cursor has received the last input as its last call.          *)
(***************************************************************************)
LastCall ==
    phase = "running" /\ Step # 0 /\ ~TopologyHasSampler /\ ~first_hit =>
        calls # <<>> /\ calls[Len(calls)] = LastInput

\* the sample d before marker m lies in or past the bucket m closes
Closes(d, m) ==
    IF direction = FWD THEN d.ts + Step >= m.ts ELSE d.ts < m.ts

\* MarkerClosesBucket for an arbitrary sequence of samples
MarkerClosesIn(c) ==
    \A k \in 1 .. Len(c) :
        c[k].kind = "empty" =>
            /\ k > 1
            /\ c[k - 1].kind = "data"
            /\ Closes(c[k - 1], c[k])

BInv == GInv /\ MarkerClosesIn(calls) /\ LastCall

-----------------------------------------------------------------------------
\* Appending a data sample, or a marker right after a data sample in or
\* before the bucket it closes, keeps every marker closing its bucket.
LEMMA ClosesAppend ==
    ASSUME NEW c \in Seq(Sample), MarkerClosesIn(c), NEW x \in Sample,
           x.kind = "empty" =>
               c # <<>> /\ c[Len(c)].kind = "data" /\ Closes(c[Len(c)], x)
    PROVE  MarkerClosesIn(Append(c, x))
<1>. DEFINE e == Append(c, x)
<1>1. /\ Len(e) = Len(c) + 1 /\ Len(c) \in Nat
      /\ \A k \in 1 .. Len(c) : e[k] = c[k]
      /\ e[Len(c) + 1] = x
    OBVIOUS
<1>. SUFFICES ASSUME NEW k \in 1 .. Len(e), e[k].kind = "empty"
              PROVE  k > 1 /\ e[k - 1].kind = "data" /\ Closes(e[k - 1], e[k])
    BY DEF MarkerClosesIn
<1>2. CASE k <= Len(c)
    <2>1. k - 1 \in 0 .. Len(c) /\ (k > 1 => e[k - 1] = c[k - 1])
        BY <1>1, <1>2
    <2>. QED  BY <1>1, <1>2, <2>1 DEF MarkerClosesIn
<1>3. CASE k = Len(c) + 1
    <2>1. x.kind = "empty" /\ e[k] = x
        BY <1>1, <1>3
    <2>2. Len(c) # 0 /\ e[k - 1] = c[Len(c)] /\ k > 1
        BY <1>1, <1>3, <2>1
    <2>. QED  BY <2>1, <2>2
<1>. QED  BY <1>1, <1>2, <1>3

\* Without a limiter and a sampler the root node is the terminal: it hands
\* the cursor every sample.
LEMMA TerminalRootPut ==
    ASSUME ~TopologyHasLimiter, SamplerCap = 0, NEW x, NEW r, ChainOK(r),
           NEW p, NEW ix
    PROVE  RootPut(x, r, p, ix).calls = Append(r.calls, x)
<1>1. RootPut(x, r, p, ix) = TerminalPut(x, r)
    BY DEF RootPut, LimiterPut, TopologyHasSampler
<1>2. TerminalPut(x, r).calls = Append(r.calls, x)
    BY Zenon DEF TerminalPut, ChainType, ChainOK
<1>. QED  BY <1>1, <1>2

(***************************************************************************)
(* GroupByStatement::put in a group-by chain without sampler or limiter    *)
(* hands the cursor the sample, or the marker of the bucket it started     *)
(* from (a refused one ends the scan), or the marker then the sample.      *)
(***************************************************************************)
LEMMA GroupByPutShape ==
    ASSUME GInv, ~TopologyHasLimiter, SamplerCap = 0, Step # 0,
           NEW s \in DataSample, NEW p \in SortPerms(samples), NEW ix \in Slots
    PROVE  LET g  == GroupByPut(s, p, ix)
               mk == Marker(GroupByStart(s.ts).up)
           IN  \/ g.chain.calls = Append(calls, s)
               \/ g.chain.calls = Append(calls, mk) /\ ~g.chain.ok
               \/ g.chain.calls = Append(Append(calls, mk), s)
<1>. DEFINE b   == GroupByStart(s.ts)
            fwd == s.ts >= b.up
            bwd == ~fwd /\ s.ts < b.lo
            mk  == Marker(b.up)
            m   == RootPut(mk, Chain, p, ix)
<1>0. /\ ChainOK(Chain) /\ budget \in Nat /\ Chain.calls = calls
      /\ s \in Sample /\ s.ts \in Nat /\ p \in SortPerms(Chain.samples)
    BY ChainInit, DataSampleType DEF GInv, Chain
<1>1. RootPut(s, Chain, p, ix).calls = Append(calls, s)
    BY <1>0, TerminalRootPut
<1>2. CASE ~fwd /\ ~bwd
    <2>1. GroupByPut(s, p, ix).chain = RootPut(s, Chain, p, ix)
        BY <1>2 DEF GroupByPut
    <2>. QED  BY <1>1, <2>1
<1>3. CASE fwd \/ bwd
    <2>1. b.up \in Nat
        <3>1. IInv
            BY DEF GInv
        <3>2. b.lo \in Nat /\ b.up = b.lo + Step
            BY <1>0, <3>1, StartAligned
        <3>. QED  BY <3>2, PipelineAssumption
    <2>2. mk \in Sample
        BY <2>1, MarkerType
    <2>3. m.calls = Append(calls, mk)
        BY <1>0, TerminalRootPut
    <2>4. ChainOK(m)
        BY <1>0, <2>2, RootPutType
    <2>5. RootPut(s, m, p, ix).calls = Append(m.calls, s)
        BY <2>4, TerminalRootPut
    <2>6. CASE ~m.ok
        <3>1. GroupByPut(s, p, ix).chain = m
            BY <1>3, <2>6 DEF GroupByPut
        <3>. QED  BY <2>3, <2>6, <3>1
    <2>7. CASE m.ok
        <3>1. GroupByPut(s, p, ix).chain = RootPut(s, m, p, ix)
            BY <1>3, <2>7 DEF GroupByPut
        <3>. QED  BY <2>3, <2>5, <3>1
    <2>. QED  BY <2>6, <2>7
<1>. QED  BY <1>2, <1>3

\* The upper bound of the bucket GroupByStatement::put starts from.
LEMMA StartUp ==
    ASSUME IInv, Step # 0, NEW t \in Nat
    PROVE  GroupByStart(t).up \in Nat
<1>1. GroupByStart(t).lo \in Nat /\ GroupByStart(t).up = GroupByStart(t).lo + Step
    BY StartAligned
<1>. QED  BY <1>1, PipelineAssumption

\* While a group-by scan runs past its first sample, the cursor's last call
\* is a data sample in or past the bucket, so the marker stamped with the
\* bucket's upper bound closes it.
LEMMA MarkerAfterLast ==
    ASSUME GInv, LastCall, phase = "running", SamplerCap = 0, Step # 0,
           ~first_hit
    PROVE  /\ calls # <<>>
           /\ calls[Len(calls)].kind = "data"
           /\ Closes(calls[Len(calls)], Marker(upperbound))
<1>1. inputs # <<>> /\ inputs \in Seq(DataSample)
    BY DEF GInv, IInv, TypeOK
<1>2. LastInput \in DataSample
    BY <1>1 DEF LastInput
<1>3. LastInput.kind = "data" /\ LastInput.ts \in Nat
    BY <1>2, DataSampleType
<1>4. calls # <<>> /\ calls[Len(calls)] = LastInput
    BY DEF LastCall, TopologyHasSampler
<1>5. Beyond(LastInput, Front)
    BY DEF GInv, TopologyHasSampler
<1>6. upperbound = lowerbound + Step /\ lowerbound \in Nat
    BY DEF GInv, IInv, BucketAligned, TypeOK
<1>7. Closes(LastInput, Marker(upperbound))
    BY <1>3, <1>5, <1>6, PipelineAssumption
    DEF Closes, Beyond, Front, FrontOf, Marker
<1>. QED  BY <1>3, <1>4, <1>7

-----------------------------------------------------------------------------
(* The steps.  With a sampler or without a step the cursor sees no marker *)
(* (GInv); otherwise a put appends the sample, a marker, or both, and a   *)
(* marker follows the last call, which LastCall and GInv place.           *)

LEMMA PutBInv ==
    ASSUME ~TopologyHasLimiter, BInv, Put
    PROVE  MarkerClosesIn(calls') /\ LastCall'
<1>1. PICK s \in DataSample, p \in SortPerms(samples), ix \in Slots :
        LET g == GroupByPut(s, p, ix)
        IN  /\ first_hit' = (first_hit /\ Step = 0)
            /\ calls' = g.chain.calls
            /\ phase' = IF g.chain.ok THEN "running" ELSE "halted"
            /\ inputs' = Append(inputs, s)
    BY Zenon DEF Put
<1>. DEFINE g  == GroupByPut(s, p, ix)
            mk == Marker(GroupByStart(s.ts).up)
<1>2. /\ GInv /\ GInv' /\ MarkerClosesIn(calls) /\ LastCall
      /\ phase = "running" /\ calls \in Seq(Sample)
      /\ s \in Sample /\ s.kind = "data" /\ s.ts \in Nat
      /\ inputs \in Seq(DataSample) /\ LastInput' = s
    <2>1. GInv /\ MarkerClosesIn(calls) /\ LastCall
        BY DEF BInv
    <2>2. GInv'
        BY <2>1, PutGInv
    <2>3. phase = "running"
        BY DEF Put
    <2>4. calls \in Seq(Sample) /\ inputs \in Seq(DataSample)
        BY <2>1 DEF GInv, IInv, TypeOK
    <2>5. s \in Sample /\ s.kind = "data" /\ s.ts \in Nat
        BY DataSampleType
    <2>6. LastInput' = s
        BY <1>1 DEF LastInput
    <2>. QED  BY <2>1, <2>2, <2>3, <2>4, <2>5, <2>6
<1>3. CASE SamplerCap # 0 \/ Step = 0
    <2>1. AllData(calls')
        BY <1>2, <1>3 DEF GInv, TopologyHasSampler
    <2>2. MarkerClosesIn(calls')
        BY <2>1 DEF AllData, MarkerClosesIn
    <2>. QED  BY <1>3, <2>2 DEF LastCall, TopologyHasSampler
<1>4. CASE SamplerCap = 0 /\ Step # 0
    <2>1. \/ calls' = Append(calls, s)
          \/ calls' = Append(calls, mk) /\ ~g.chain.ok
          \/ calls' = Append(Append(calls, mk), s)
        BY <1>1, <1>2, <1>4, GroupByPutShape
    <2>2. LastCall'
        <3>1. phase' = "running" => g.chain.ok
            BY <1>1
        <3>2. \A c \in Seq(Sample) :
                Append(c, s) # <<>> /\ Append(c, s)[Len(Append(c, s))] = s
            OBVIOUS
        <3>3. mk \in Sample
            <4>1. GroupByStart(s.ts).up \in Nat
                BY <1>2, <1>4, StartUp DEF GInv
            <4>. QED  BY <4>1, MarkerType
        <3>. QED  BY <1>2, <2>1, <3>1, <3>2, <3>3 DEF LastCall
    <2>3. mk \in Sample /\ mk.kind = "empty"
        <3>1. GroupByStart(s.ts).up \in Nat
            BY <1>2, <1>4, StartUp DEF GInv
        <3>. QED  BY <3>1, MarkerType
    <2>4. CASE calls' = Append(calls, s)
        BY <1>2, <2>2, <2>4, ClosesAppend
    <2>5. CASE calls' # Append(calls, s)
        <3>1. calls # <<>> /\ calls[Len(calls)].kind = "data"
              /\ Closes(calls[Len(calls)], mk)
            <4>1. CASE first_hit
                <5>1. AllData(calls')
                    BY <1>1, <1>4, <4>1, <1>2, GroupByPutFirst
                <5>2. \A c \in Seq(Sample) :
                        Append(c, mk)[Len(c) + 1] = mk
                          /\ Append(Append(c, mk), s)[Len(c) + 1] = mk
                          /\ Len(c) + 1 \in 1 .. Len(Append(c, mk))
                          /\ Len(c) + 1 \in 1 .. Len(Append(Append(c, mk), s))
                    OBVIOUS
                <5>. QED  BY <1>2, <2>1, <2>3, <2>5, <5>1, <5>2 DEF AllData
            <4>2. CASE ~first_hit
                <5>1. mk = Marker(upperbound)
                    BY <4>2 DEF GroupByStart
                <5>. QED  BY <1>2, <1>4, <4>2, <5>1, MarkerAfterLast
            <4>. QED  BY <4>1, <4>2
        <3>2. MarkerClosesIn(Append(calls, mk))
            BY <1>2, <2>3, <3>1, ClosesAppend
        <3>3. Append(calls, mk) \in Seq(Sample)
            BY <1>2, <2>3
        <3>4. MarkerClosesIn(Append(Append(calls, mk), s))
            BY <1>2, <3>2, <3>3, ClosesAppend
        <3>. QED  BY <2>1, <2>2, <2>5, <3>2, <3>4
    <2>. QED  BY <2>2, <2>4, <2>5
<1>. QED  BY <1>3, <1>4

LEMMA StopBInv ==
    ASSUME BInv, Stop
    PROVE  MarkerClosesIn(calls') /\ LastCall'
<1>1. GInv' /\ phase' = "stopped"
    BY StopGInv DEF BInv, Stop
<1>2. CASE TopologyHasSampler
    <2>1. AllData(calls')
        BY <1>1, <1>2 DEF GInv
    <2>. QED  BY <1>1, <2>1 DEF AllData, MarkerClosesIn, LastCall
<1>3. CASE ~TopologyHasSampler
    <2>1. calls' = calls
        BY <1>3 DEF Stop, Chain
    <2>. QED  BY <1>1, <2>1 DEF BInv, LastCall
<1>. QED  BY <1>2, <1>3

LEMMA SetErrorBInv ==
    ASSUME BInv, SetError
    PROVE  MarkerClosesIn(calls') /\ LastCall'
BY DEF BInv, SetError, LastCall, LastInput

LEMMA StutterBInv ==
    ASSUME BInv, UNCHANGED vars
    PROVE  MarkerClosesIn(calls') /\ LastCall'
BY DEF BInv, vars, LastCall, LastInput

LEMMA InitBInv == Init => BInv
<1>. SUFFICES ASSUME Init PROVE BInv
    OBVIOUS
<1>1. GInv
    BY InitGInv
<1>. QED  BY <1>1 DEF Init, BInv, MarkerClosesIn, LastCall

LEMMA NextBInv ==
    ASSUME ~TopologyHasLimiter
    PROVE  BInv /\ [Next]_vars => BInv'
<1>. SUFFICES ASSUME BInv, [Next]_vars PROVE BInv'
    OBVIOUS
<1>1. GInv'
    BY PutGInv, StopGInv, SetErrorGInv, StutterGInv DEF BInv, Next
<1>2. MarkerClosesIn(calls') /\ LastCall'
    BY PutBInv, StopBInv, SetErrorBInv, StutterBInv DEF Next
<1>. QED  BY <1>1, <1>2 DEF BInv

(***************************************************************************)
(* Group-by bucket close (GroupByStatement::put): for every query range,  *)
(* step and cursor budget of a chain without a limiter, every marker the   *)
(* cursor receives comes right after a data sample that lies in or past    *)
(* the bucket the marker closes -- the first bucket is aligned on the      *)
(* first sample, and no marker precedes the first sample.                  *)
(***************************************************************************)
THEOREM MarkerClosesBucketHolds ==
    ASSUME ~TopologyHasLimiter
    PROVE  Spec => []MarkerClosesBucket
<1>1. Init => BInv
    BY InitBInv
<1>2. BInv /\ [Next]_vars => BInv'
    BY NextBInv
<1>3. BInv => MarkerClosesBucket
    BY DEF BInv, MarkerClosesIn, Closes, MarkerClosesBucket
<1>. QED  BY <1>1, <1>2, <1>3, PTL DEF Spec

=============================================================================
