----------------------------- MODULE PAAProofs ------------------------------
(***************************************************************************)
(* Proofs about the PAA counters (query_processing/paa.cpp): type          *)
(* correctness, and that MaxCounter's value is the maximum of its          *)
(* interval.  The mean's sum is a FoldLeft over the interval, which only   *)
(* induction over sequences could unfold; it stays with TLC.               *)
(***************************************************************************)
EXTENDS PAACounters, FiniteSetTheorems, TLAPS

\* m is the largest element of S
IsMaxOf(m, S) == m \in S /\ \A y \in S : m >= y

(***************************************************************************)
(* The inductive invariant.  The counts equal the lengths of the intervals *)
(* (MeanCounter::num, MaxCounter::num), and MaxCounter::acc is, once a     *)
(* value has been added, an element of the interval no smaller than any   *)
(* other -- which is what makes Max(Range(max_in)) well defined and equal *)
(* to it.                                                                  *)
(***************************************************************************)
PInv ==
    /\ TypeOK
    /\ mean_num = Len(mean_in) /\ max_num = Len(max_in)
    /\ max_num # 0 => IsMaxOf(max_acc, Range(max_in))

-----------------------------------------------------------------------------
\* The part of PAAAssumption the proofs use: values are integers, and the
\* bound on an interval is a natural number.
LEMMA ValuesInt == Values \subseteq Int /\ MaxAdds \in Nat
BY PAAAssumption

\* Max (FiniteSetsExt) picks the element no smaller than any other.
LEMMA MaxIsMax ==
    ASSUME NEW S \in SUBSET Int, NEW m, IsMaxOf(m, S)
    PROVE  Max(S) = m
<1>1. \A x \in S : (\A y \in S : x >= y) => x = m
    BY DEF IsMaxOf
<1>. QED  BY <1>1 DEF Max, IsMaxOf

\* A sequence's range holds only its element type.
LEMMA RangeSeq ==
    ASSUME NEW V, NEW s \in Seq(V)
    PROVE  Range(s) \subseteq V
BY DEF Range

\* Appending a value adds it to the range.
LEMMA RangeAppend ==
    ASSUME NEW V, NEW s \in Seq(V), NEW v \in V
    PROVE  Range(Append(s, v)) = Range(s) \cup {v}
<1>. DEFINE t == Append(s, v)
<1>1. DOMAIN t = 1 .. Len(s) + 1 /\ DOMAIN s = 1 .. Len(s)
      /\ t[Len(s) + 1] = v /\ \A i \in 1 .. Len(s) : t[i] = s[i]
    OBVIOUS
<1>2. ASSUME NEW x \in Range(t) PROVE x \in Range(s) \cup {v}
    <2>1. PICK i \in DOMAIN t : x = t[i]
        BY DEF Range
    <2>. QED  BY <1>1, <2>1 DEF Range
<1>3. ASSUME NEW x \in Range(s) PROVE x \in Range(t)
    <2>1. PICK i \in DOMAIN s : x = s[i]
        BY DEF Range
    <2>. QED  BY <1>1, <2>1 DEF Range
<1>4. v \in Range(t)
    BY <1>1 DEF Range
<1>5. Range(t) = Range(s) \cup {v}
    BY <1>2, <1>3, <1>4
<1>. QED  BY <1>5

\* An interval 1 .. n has n elements.
LEMMA CardInterval ==
    ASSUME NEW n \in Nat
    PROVE  Cardinality(1 .. n) = n
BY FS_Interval

\* A vector has fewer than two, two, or more than two values.
LEMMA Trichotomy ==
    ASSUME NEW n \in Nat
    PROVE  n < 2 \/ n = 2 \/ n > 2
OBVIOUS

\* The values std::partial_sort may leave in the vector are a permutation
\* of it: a sequence of the same values and the same length.
LEMMA PartialSortsType ==
    ASSUME NEW V, NEW s \in Seq(V), NEW k, NEW t \in PartialSorts(s, k)
    PROVE  t \in Seq(V) /\ Len(t) = Len(s)
<1>. DEFINE n == Len(s)
<1>1. PICK p \in SetToSeqs(1 .. n) : t = [i \in 1 .. n |-> s[p[i]]]
    BY DEF PartialSorts
<1>2. Cardinality(1 .. n) = n
    BY CardInterval
<1>3. p \in [1 .. n -> 1 .. n]
    BY <1>1, <1>2 DEF SetToSeqs
<1>. QED  BY <1>1, <1>3

-----------------------------------------------------------------------------
LEMMA InitPInv == Init => PInv
BY ValuesInt DEF Init, PInv, TypeOK, NoValue

\* MeanCounter::reset and add
LEMMA MeanPInv ==
    ASSUME PInv, MeanReset \/ \E v \in Values : MeanAdd(v)
    PROVE  PInv'
<1>1. CASE MeanReset
    BY <1>1, ValuesInt DEF PInv, TypeOK, MeanReset
<1>2. CASE \E v \in Values : MeanAdd(v)
    <2>1. PICK v \in Values : MeanAdd(v)
        BY <1>2
    <2>. QED  BY <2>1, ValuesInt DEF PInv, TypeOK, MeanAdd
<1>. QED  BY <1>1, <1>2

\* MedianCounter::reset and add
LEMMA MedianPutPInv ==
    ASSUME PInv, MedianReset \/ \E v \in Values : MedianAdd(v)
    PROVE  PInv'
<1>1. CASE MedianReset
    BY <1>1 DEF PInv, TypeOK, MedianReset
<1>2. CASE \E v \in Values : MedianAdd(v)
    <2>1. PICK v \in Values : MedianAdd(v)
        BY <1>2
    <2>. QED  BY <2>1 DEF PInv, TypeOK, MedianAdd
<1>. QED  BY <1>1, <1>2

\* MedianCounter::value: each branch returns an integer computed from the
\* interval, and partial_sort leaves a permutation of the vector.
LEMMA MedianEvalPInv ==
    ASSUME PInv, MedianEval
    PROVE  PInv'
<1>. DEFINE n == Len(med_acc)
<1>0. med_acc \in Seq(Values) /\ med_in \in Seq(Values) /\ MedianReady
    BY DEF PInv, TypeOK, MedianEval
<1>1. med_acc \in Seq(Values) /\ med_in \in Seq(Values) /\ n \in Nat /\ n >= 1
      /\ Values \subseteq Int
    BY <1>0, ValuesInt DEF MedianReady
<1>2. /\ med_acc' \in Seq(Values)
      /\ med_out' \in [val : Int, of : Seq(Values)]
    <2>1. CASE n < 2
        <3>1. med_out' = Returned(med_acc[1]) /\ med_acc' = med_acc
            BY <2>1, Zenon DEF MedianEval
        <3>2. med_acc[1] \in Values
            BY <1>1, <2>1
        <3>3. med_acc[1] \in Int
            BY <1>1, <3>2
        <3>. QED  BY <1>1, <3>1, <3>3 DEF Returned
    <2>2. CASE n = 2
        <3>0. ~(Len(med_acc) < 2)
            BY <2>2
        <3>1. med_out' = Returned((med_acc[1] + med_acc[2]) \div 2)
              /\ med_acc' = med_acc
            BY <2>2, <3>0, Zenon DEF MedianEval
        <3>4. med_acc[1] \in Values /\ med_acc[2] \in Values
            BY <1>1, <2>2
        <3>5. med_acc[1] \in Int /\ med_acc[2] \in Int
            BY <1>1, <3>4
        <3>2. (med_acc[1] + med_acc[2]) \div 2 \in Int
            BY <3>5
        <3>. QED  BY <1>1, <3>1, <3>2 DEF Returned
    <2>3. CASE n > 2
        <3>0. ~(Len(med_acc) < 2) /\ Len(med_acc) # 2
            BY <2>3
        <3>1. PICK t \in PartialSorts(med_acc, n \div 2 + 1) :
                med_acc' = t /\ med_out' = Returned(t[n \div 2 + 1])
            BY <2>3, <3>0, Zenon DEF MedianEval
        <3>2. t \in Seq(Values) /\ Len(t) = n
            BY <1>1, PartialSortsType
        <3>3. n \div 2 + 1 \in 1 .. n
            BY <1>1, <2>3
        <3>5. t[n \div 2 + 1] \in Values
            BY <3>2, <3>3
        <3>4. t[n \div 2 + 1] \in Int
            BY <1>1, <3>5
        <3>. QED  BY <1>1, <3>1, <3>2, <3>4 DEF Returned
    <2>4. n < 2 \/ n = 2 \/ n > 2
        <3>1. n \in Nat
            BY <1>0
        <3>. QED  BY <3>1, Trichotomy, Zenon
    <2>. QED  BY <2>1, <2>2, <2>3, <2>4, Zenon
<1>. QED  BY <1>2 DEF PInv, TypeOK, MedianEval

\* MaxCounter::reset
LEMMA MaxResetPInv ==
    ASSUME PInv, MaxReset
    PROVE  PInv'
BY ValuesInt DEF PInv, TypeOK, MaxReset

\* MaxCounter::add: the first value after a reset is taken as is, a later
\* one replaces acc only when larger.
LEMMA MaxAddPInv ==
    ASSUME PInv, NEW v \in Values, MaxAdd(v)
    PROVE  PInv'
<1>1. max_in \in Seq(Values) /\ Values \subseteq Int /\ v \in Int
      /\ max_acc \in Int /\ max_num = Len(max_in)
    BY ValuesInt DEF PInv, TypeOK
<1>2. Range(max_in') = Range(max_in) \cup {v}
    BY <1>1, RangeAppend DEF MaxAdd
<1>3. IsMaxOf(max_acc', Range(max_in'))
    <2>1. CASE max_num = 0
        <3>0. Len(max_in) = 0
            BY <1>1, <2>1
        <3>1. max_in = <<>>
            BY <1>1, <3>0
        <3>4. max_acc' = v
            BY <2>1 DEF MaxAdd
        <3>2. Range(max_in) = {}
            BY <3>1 DEF Range
        <3>. QED  BY <1>1, <1>2, <3>4, <3>2 DEF IsMaxOf
    <2>2. CASE max_num # 0
        <3>1. IsMaxOf(max_acc, Range(max_in))
            BY <2>2 DEF PInv
        <3>2. Range(max_in) \subseteq Int
            BY <1>1, RangeSeq
        <3>3. max_acc' = IF v > max_acc THEN v ELSE max_acc
            BY <2>2 DEF MaxAdd
        <3>. QED  BY <1>1, <1>2, <3>1, <3>2, <3>3 DEF IsMaxOf
    <2>. QED  BY <2>1, <2>2
<1>4. TypeOK' /\ max_num' = Len(max_in') /\ mean_num' = Len(mean_in')
    <2>1. max_acc' \in Int
        BY <1>1 DEF MaxAdd
    <2>. QED  BY <1>1, <2>1, ValuesInt DEF PInv, TypeOK, MaxAdd
<1>. QED  BY <1>3, <1>4 DEF PInv

LEMMA NextPInv == PInv /\ [Next]_pvars => PInv'
<1>. SUFFICES ASSUME PInv, [Next]_pvars PROVE PInv'
    OBVIOUS
<1>1. CASE \E v \in Values : MaxAdd(v)
    BY <1>1, MaxAddPInv
<1>2. CASE UNCHANGED pvars
    BY <1>2 DEF PInv, TypeOK, IsMaxOf, pvars
<1>. QED  BY <1>1, <1>2, MeanPInv, MedianPutPInv, MedianEvalPInv, MaxResetPInv
         DEF Next

(***************************************************************************)
(* The three PAA counters stay within their types for every set of        *)
(* integer values and every bound on an interval: in particular            *)
(* MedianCounter::value, which reorders its vector in place, returns an    *)
(* integer and leaves a vector of the values added.                        *)
(***************************************************************************)
THEOREM PAATypeCorrect == Spec => []TypeOK
<1>1. Init => PInv
    BY InitPInv
<1>2. PInv /\ [Next]_pvars => PInv'
    BY NextPInv
<1>3. PInv => TypeOK
    BY DEF PInv
<1>. QED  BY <1>1, <1>2, <1>3, PTL DEF Spec

(***************************************************************************)
(* MaxCounter::add/value: for every set of integer values, whenever the    *)
(* counter is ready its value is the maximum of the values added since the *)
(* last reset -- the 0 that reset leaves in acc never leaks into an        *)
(* interval of negative values.                                            *)
(***************************************************************************)
THEOREM MaxValueMatchesHolds == Spec => []MaxValueMatches
<1>1. Init => PInv
    BY InitPInv
<1>2. PInv /\ [Next]_pvars => PInv'
    BY NextPInv
<1>3. PInv => MaxValueMatches
    <2>. SUFFICES ASSUME PInv, MaxReady PROVE MaxValue = Max(Range(max_in))
        BY DEF MaxValueMatches
    <2>1. Range(max_in) \subseteq Int
        BY ValuesInt, RangeSeq DEF PInv, TypeOK
    <2>2. IsMaxOf(max_acc, Range(max_in))
        BY DEF PInv, MaxReady
    <2>. QED  BY <2>1, <2>2, MaxIsMax DEF MaxValue
<1>. QED  BY <1>1, <1>2, <1>3, PTL DEF Spec

=============================================================================
