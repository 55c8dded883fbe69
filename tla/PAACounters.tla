---------------------------- MODULE PAACounters ----------------------------
(***************************************************************************)
(* The counters of the PAA nodes (query_processing/paa.cpp): MeanCounter,  *)
(* MedianCounter and MaxCounter.  A PAA node resets a series' counter at   *)
(* each flush interval, adds every value of the interval, and, when the    *)
(* counter is ready, emits its value.  The three counters are independent; *)
(* each keeps, as history, the values added since its last reset (`*_in`), *)
(* against which its value is checked.  Values are small even integers, so *)
(* that the float sums and the average of two are exact.                   *)
(***************************************************************************)
EXTENDS Integers, Sequences, SequencesExt

CONSTANTS
    Values,   \* the sample values
    MaxAdds   \* bound on the values added per interval (model bound)

ASSUME PAAAssumption ==
    /\ Values \subseteq Int /\ \A v \in Values : v % 2 = 0
    /\ MaxAdds \in Nat

VARIABLES
    mean_acc, mean_num,   \* MeanCounter::acc, num
    med_acc,              \* MedianCounter::acc (a vector)
    med_out,              \* the last MedianCounter::value(), with med_in then
    max_acc, max_num,     \* MaxCounter::acc, num
    mean_in, med_in, max_in

pvars == <<mean_acc, mean_num, med_acc, med_out, max_acc, max_num,
           mean_in, med_in, max_in>>

NoValue == [val |-> 0, of |-> <<"none">>]

Init ==
    /\ mean_acc = 0 /\ mean_num = 0
    /\ med_acc = <<>> /\ med_out = NoValue
    /\ max_acc = 0 /\ max_num = 0
    /\ mean_in = <<>> /\ med_in = <<>> /\ max_in = <<>>

-----------------------------------------------------------------------------
\* mutant: reset clears the sum but not the count
MeanResetKeepsNum ==
    /\ mean_acc' = 0 /\ mean_in' = <<>>
    /\ UNCHANGED <<mean_num, med_acc, med_out, max_acc, max_num, med_in, max_in>>

\* MeanCounter::reset
MeanReset ==
    /\ mean_acc' = 0 /\ mean_num' = 0 /\ mean_in' = <<>>
    /\ UNCHANGED <<med_acc, med_out, max_acc, max_num, med_in, max_in>>

\* MeanCounter::add
MeanAdd(v) ==
    /\ Len(mean_in) < MaxAdds
    /\ mean_acc' = mean_acc + v /\ mean_num' = mean_num + 1
    /\ mean_in' = Append(mean_in, v)
    /\ UNCHANGED <<med_acc, med_out, max_acc, max_num, med_in, max_in>>

\* MeanCounter::ready and value (acc/num, a float; kept as the pair)
MeanReady == mean_num # 0
MeanValue == [sum |-> mean_acc, count |-> mean_num]

\* MedianCounter::reset: swap with an empty vector
MedianReset ==
    /\ med_acc' = <<>> /\ med_in' = <<>>
    /\ UNCHANGED <<mean_acc, mean_num, med_out, max_acc, max_num, mean_in, max_in>>

\* MedianCounter::add: push_back
MedianAdd(v) ==
    /\ Len(med_in) < MaxAdds
    /\ med_acc' = Append(med_acc, v) /\ med_in' = Append(med_in, v)
    /\ UNCHANGED <<mean_acc, mean_num, med_out, max_acc, max_num, mean_in, max_in>>

MedianReady == med_acc # <<>>

\* a value() result, with the interval it was computed over
Returned(v) == [val |-> v, of |-> med_in]

\* std::partial_sort(first, first + k, last): a permutation of s whose first
\* k elements are the k smallest, in order (the rest in any order)
PartialSorts(s, k) ==
    { t \in { [i \in 1 .. Len(s) |-> s[p[i]]] : p \in SetToSeqs(1 .. Len(s)) } :
        \A i, j \in 1 .. Len(t) : i < j /\ i <= k => t[i] <= t[j] }

\* mutant: partial_sort up to the middle, excluding it
MedianEvalShort ==
    /\ MedianReady
    /\ IF Len(med_acc) < 2
       THEN /\ med_out' = Returned(med_acc[1])
            /\ UNCHANGED med_acc
       ELSE IF Len(med_acc) = 2
       THEN /\ med_out' = Returned((med_acc[1] + med_acc[2]) \div 2)
            /\ UNCHANGED med_acc
       ELSE \E t \in PartialSorts(med_acc, Len(med_acc) \div 2) :
                med_acc' = t /\ med_out' = Returned(t[Len(med_acc) \div 2 + 1])
    /\ UNCHANGED <<mean_acc, mean_num, max_acc, max_num, mean_in, med_in, max_in>>

(***************************************************************************)
(* MedianCounter::value (const, but partial_sort reorders the mutable acc  *)
(* in place): one value -> it; two -> their average; more -> the element   *)
(* at index size/2 after partial_sort(begin, middle + 1, end).             *)
(***************************************************************************)
MedianEval ==
    /\ MedianReady
    /\ IF Len(med_acc) < 2
       THEN /\ med_out' = Returned(med_acc[1])
            /\ UNCHANGED med_acc
       ELSE IF Len(med_acc) = 2
       THEN /\ med_out' = Returned((med_acc[1] + med_acc[2]) \div 2)
            /\ UNCHANGED med_acc
       ELSE \E t \in PartialSorts(med_acc, Len(med_acc) \div 2 + 1) :
                med_acc' = t /\ med_out' = Returned(t[Len(med_acc) \div 2 + 1])
    /\ UNCHANGED <<mean_acc, mean_num, max_acc, max_num, mean_in, med_in, max_in>>

\* MaxCounter::reset
MaxReset ==
    /\ max_acc' = 0 /\ max_num' = 0 /\ max_in' = <<>>
    /\ UNCHANGED <<mean_acc, mean_num, med_acc, med_out, mean_in, med_in>>

\* mutant: the first value is compared with the reset value 0
MaxAddNoFirst(v) ==
    /\ Len(max_in) < MaxAdds
    /\ max_acc' = IF v > max_acc THEN v ELSE max_acc
    /\ max_num' = max_num + 1 /\ max_in' = Append(max_in, v)
    /\ UNCHANGED <<mean_acc, mean_num, med_acc, med_out, mean_in, med_in>>

\* MaxCounter::add: the first value since reset is taken as is
MaxAdd(v) ==
    /\ Len(max_in) < MaxAdds
    /\ max_acc' = IF max_num = 0 \/ v > max_acc THEN v ELSE max_acc
    /\ max_num' = max_num + 1 /\ max_in' = Append(max_in, v)
    /\ UNCHANGED <<mean_acc, mean_num, med_acc, med_out, mean_in, med_in>>

\* MaxCounter::ready and value
MaxReady == max_num # 0
MaxValue == max_acc

Next ==
    \/ MeanReset \/ MedianReset \/ MaxReset \/ MedianEval
    \/ \E v \in Values : MeanAdd(v) \/ MedianAdd(v) \/ MaxAdd(v)

Spec == Init /\ [][Next]_pvars

-----------------------------------------------------------------------------
TypeOK ==
    /\ mean_acc \in Int /\ mean_num \in 0 .. MaxAdds
    /\ med_acc \in Seq(Values) /\ (med_out = NoValue \/ med_out \in [val : Int, of : Seq(Values)])
    /\ max_acc \in Int /\ max_num \in 0 .. MaxAdds
    /\ mean_in \in Seq(Values) /\ med_in \in Seq(Values) /\ max_in \in Seq(Values)

\* the k-th smallest element of s (counted with multiplicity)
KthSmallest(s, k) ==
    CHOOSE v \in Range(s) :
        /\ Cardinality({i \in 1 .. Len(s) : s[i] < v}) < k
        /\ k <= Cardinality({i \in 1 .. Len(s) : s[i] <= v})

\* spec 4.E: the median of an interval -- its middle element, the average
\* of the two for two values
SpecMedian(s) ==
    IF Len(s) = 2 THEN (s[1] + s[2]) \div 2
    ELSE KthSmallest(s, Len(s) \div 2 + 1)

(***************************************************************************)
(* MeanCounter::add/value: when ready, the counter's value is the sum and  *)
(* the count of exactly the values added since its last reset -- values    *)
(* added in an earlier interval included would skew it.                    *)
(***************************************************************************)
MeanValueMatches ==
    MeanReady => MeanValue = [sum |-> FoldLeft(+, 0, mean_in), count |-> Len(mean_in)]

(***************************************************************************)
(* MaxCounter::add/value: when ready, the counter's value is the maximum   *)
(* of exactly the values added since its last reset, also when they are   *)
(* all below the value 0 that reset leaves in acc.                         *)
(***************************************************************************)
MaxValueMatches ==
    MaxReady => MaxValue = Max(Range(max_in))

(***************************************************************************)
(* MedianCounter::value: the value it returned is the median of the values *)
(* added since the reset, although each call reorders acc in place and     *)
(* later adds append to the reordered vector.                              *)
(***************************************************************************)
MedianValueIsMedian ==
    med_out # NoValue => med_out.val = SpecMedian(med_out.of)

=============================================================================
