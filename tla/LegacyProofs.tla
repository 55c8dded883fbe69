---------------------------- MODULE LegacyProofs ----------------------------
(***************************************************************************)
(* Proof that RegexFilter answers exactly (module LegacyQuery), for every  *)
(* catalog, query set, budget and apply bound: the ingest thread may       *)
(* intern names at any point between the constructor's size read, its      *)
(* scan, apply's size check and apply's refresh.  The regex is an opaque   *)
(* predicate FilterMatches here: nothing about the names is used.          *)
(***************************************************************************)
EXTENDS LegacyQuery, FiniteSetTheorems, TLAPS

\* the ids of the first k pool entries the filter's regex matches
Matching(k) == {i \in 1 .. k : FilterMatches(filter, Catalog[i])}

(***************************************************************************)
(* FilterAnswersExact is not inductive: an answer from ids_ without a      *)
(* refresh is right only because ids_ holds exactly the matches of the     *)
(* scanned prefix (offset_) and, once the constructor's scan is done, that *)
(* prefix reaches prev_size_; so when the pool size equals prev_size_ the  *)
(* scan is complete.  A pending apply read a size no larger than the pool, *)
(* and before a query is built there is no filter state at all.            *)
(***************************************************************************)
FilterInv ==
    /\ interned \in Nat /\ offset \in Nat /\ prev_size \in Nat
    /\ offset <= interned /\ prev_size <= interned
    /\ ids = Matching(offset)
    /\ phase # "ctor" => prev_size <= offset
    /\ phase = "idle" => /\ offset = 0 /\ prev_size = 0
                         /\ answers = {} /\ probe = NoProbe
    /\ probe # NoProbe => /\ probe.seen \in Nat /\ probe.seen <= interned
                          /\ probe.id \in 1 .. probe.seen
    /\ FilterAnswersExact

-----------------------------------------------------------------------------
\* refresh() over the unscanned suffix completes the matches to the pool end
LEMMA RefreshedExact ==
    ASSUME FilterInv
    PROVE  Refreshed = Matching(interned)
BY DEF FilterInv, Refreshed, Matching

\* the builder never sends the query back to "idle"
LEMMA BuildRestNotIdle ==
    ASSUME NEW q
    PROVE  BuildRest(q) # "idle"
BY DEF BuildRest

LEMMA InitFilterInv ==
    Init => FilterInv
BY DEF Init, FilterInv, Matching, FilterAnswersExact

LEMMA IngestFilterInv ==
    FilterInv /\ Ingest => FilterInv'
BY DEF FilterInv, Ingest, Matching, FilterAnswersExact

LEMMA BuildFilterInv ==
    ASSUME FilterInv, NEW q, Build(q)
    PROVE  FilterInv'
<1>1. offset = 0 /\ prev_size = 0 /\ answers = {} /\ probe = NoProbe
    BY DEF Build, FilterInv
<1>2. UNCHANGED <<interned, offset, ids, probe, answers>>
    BY DEF Build
<1>3. ids = {}
    BY <1>1 DEF FilterInv, Matching
<1>4. CASE BuildFront(q) # "ok"
    <2>1. UNCHANGED <<filter, prev_size>>
        BY <1>4 DEF Build
    <2>. QED  BY <1>1, <1>2, <1>3, <2>1 DEF FilterInv, Matching, FilterAnswersExact
<1>5. CASE BuildFront(q) = "ok" /\ WhereFilter(q) = NullFilter
    <2>1. UNCHANGED prev_size
        BY <1>5 DEF Build
    <2>. QED  BY <1>1, <1>2, <1>3, <2>1 DEF FilterInv, Matching, FilterAnswersExact
<1>6. CASE BuildFront(q) = "ok" /\ WhereFilter(q) # NullFilter
    <2>1. prev_size' = interned /\ phase' = "ctor"
        BY <1>6 DEF Build
    <2>. QED  BY <1>1, <1>2, <1>3, <2>1 DEF FilterInv, Matching, FilterAnswersExact
<1>. QED  BY <1>4, <1>5, <1>6

LEMMA FilterCtorFilterInv ==
    FilterInv /\ FilterCtor => FilterInv'
<1>. SUFFICES ASSUME FilterInv, FilterCtor PROVE FilterInv'
    OBVIOUS
<1>1. ids' = Matching(interned)
    BY RefreshedExact DEF FilterCtor
<1>2. phase' # "idle"
    BY BuildRestNotIdle DEF FilterCtor
<1>. QED  BY <1>1, <1>2 DEF FilterCtor, FilterInv, Matching, FilterAnswersExact

LEMMA ApplyCheckFilterInv ==
    ASSUME FilterInv, NEW id \in 1 .. interned, ApplyCheck(id)
    PROVE  FilterInv'
<1>1. phase = "scan" /\ probe = NoProbe
    BY DEF ApplyCheck
<1>2. UNCHANGED <<interned, phase, filter, prev_size, offset, ids>>
    BY DEF ApplyCheck
<1>3. CASE interned # prev_size
    <2>1. probe' = [id |-> id, seen |-> interned] /\ UNCHANGED answers
        BY <1>3 DEF ApplyCheck
    <2>. QED  BY <1>1, <1>2, <2>1 DEF FilterInv, Matching, FilterAnswersExact
<1>4. CASE interned = prev_size
    <2>1. answers' = answers \cup {[id |-> id, seen |-> interned, ans |-> id \in ids]}
          /\ UNCHANGED probe
        BY <1>4 DEF ApplyCheck
    <2>2. offset = interned
        BY <1>1, <1>4 DEF FilterInv
    <2>3. id \in ids <=> FilterMatches(filter, Catalog[id])
        BY <2>2 DEF FilterInv, Matching
    <2>4. FilterAnswersExact'
        <3>. SUFFICES ASSUME NEW a \in answers'
                      PROVE  /\ a.ans => FilterMatches(filter, Catalog[a.id])
                             /\ FilterMatches(filter, Catalog[a.id]) /\ a.id <= a.seen => a.ans
            BY <1>2 DEF FilterAnswersExact
        <3>1. CASE a \in answers
            BY <3>1 DEF FilterInv, FilterAnswersExact
        <3>2. CASE a = [id |-> id, seen |-> interned, ans |-> id \in ids]
            BY <3>2, <2>3
        <3>. QED  BY <2>1, <3>1, <3>2
    <2>. QED  BY <1>1, <1>2, <2>1, <2>4 DEF FilterInv, Matching
<1>. QED  BY <1>3, <1>4

LEMMA ApplyRefreshFilterInv ==
    FilterInv /\ ApplyRefresh => FilterInv'
<1>. SUFFICES ASSUME FilterInv, ApplyRefresh PROVE FilterInv'
    OBVIOUS
<1>1. probe # NoProbe /\ probe' = NoProbe
    BY DEF ApplyRefresh
<1>2. ids' = Matching(interned) /\ offset' = interned
      /\ UNCHANGED <<interned, phase, filter, prev_size>>
    BY RefreshedExact DEF ApplyRefresh
<1>3. answers' = answers \cup {[id |-> probe.id, seen |-> probe.seen,
                                ans |-> probe.id \in Matching(interned)]}
    BY RefreshedExact DEF ApplyRefresh
<1>4. probe.id \in Matching(interned) <=> FilterMatches(filter, Catalog[probe.id])
    BY <1>1 DEF FilterInv, Matching
<1>5. phase # "idle"
    BY <1>1 DEF FilterInv
<1>6. FilterAnswersExact'
    <2>. SUFFICES ASSUME NEW a \in answers'
                  PROVE  /\ a.ans => FilterMatches(filter, Catalog[a.id])
                         /\ FilterMatches(filter, Catalog[a.id]) /\ a.id <= a.seen => a.ans
        BY <1>2 DEF FilterAnswersExact
    <2>1. CASE a \in answers
        BY <2>1 DEF FilterInv, FilterAnswersExact
    <2>2. CASE a = [id |-> probe.id, seen |-> probe.seen,
                    ans |-> probe.id \in Matching(interned)]
        BY <2>2, <1>4
    <2>. QED  BY <1>3, <2>1, <2>2
<1>. QED  BY <1>1, <1>2, <1>3, <1>5, <1>6 DEF FilterInv, Matching

\* the metadata processor's steps touch only the phase, the calls and the
\* cursor's error flag, and never return to "idle" or "ctor"
LEMMA MetaFilterInv ==
    FilterInv /\ (MetaStart \/ MetaStop \/ MetaSetError) => FilterInv'
<1>. SUFFICES ASSUME FilterInv, MetaStart \/ MetaStop \/ MetaSetError
              PROVE  FilterInv'
    OBVIOUS
<1>1. phase \in {"meta", "started"} /\ phase' \in {"meta", "started", "stopped", "crashed"}
    BY Zenon DEF MetaStart, MetaStop, MetaSetError
<1>2. UNCHANGED <<interned, filter, prev_size, offset, ids, probe, answers>>
    BY Zenon DEF MetaStart, MetaStop, MetaSetError
<1>. QED  BY <1>1, <1>2 DEF FilterInv, Matching, FilterAnswersExact

LEMMA StutterFilterInv ==
    FilterInv /\ UNCHANGED lvars => FilterInv'
BY DEF FilterInv, lvars, Matching, FilterAnswersExact

LEMMA FilterInvariant ==
    Spec => []FilterInv
<1>1. Init => FilterInv
    BY InitFilterInv
<1>2. FilterInv /\ [Next]_lvars => FilterInv'
    BY IngestFilterInv, BuildFilterInv, FilterCtorFilterInv, ApplyCheckFilterInv,
       ApplyRefreshFilterInv, MetaFilterInv, StutterFilterInv DEF Next
<1>. QED  BY <1>1, <1>2, PTL DEF Spec

(***************************************************************************)
(* RegexFilter::apply racing the ingest thread (constructor, refresh,      *)
(* apply): for every catalog and every interleaving, apply processes only  *)
(* series the regex matches, and every matching series that was interned  *)
(* when apply read the pool size.                                          *)
(***************************************************************************)
THEOREM FilterAnswersExactHolds ==
    Spec => []FilterAnswersExact
BY FilterInvariant, PTL DEF FilterInv

-----------------------------------------------------------------------------
(***************************************************************************)
(* MetadataQueryProcessor::start.  get_ids() is an unordered_set: start    *)
(* walks it in some order, an injective enumeration of the set, and stops *)
(* after the put the cursor refused.                                       *)
(***************************************************************************)
\* std::min of two counts
LEMMA MinPair ==
    ASSUME NEW a \in Int, NEW b \in Int
    PROVE  Min({a, b}) = IF a <= b THEN a ELSE b
BY DEF Min

\* An enumeration of a finite set (SetToSeqs) lists every element once.
LEMMA EnumerationOnto ==
    ASSUME NEW S, IsFiniteSet(S), NEW f \in SetToSeqs(S)
    PROVE  /\ f \in Seq(S) /\ Len(f) = Cardinality(S)
           /\ IsInjective(f) /\ Range(f) = S
<1>. DEFINE n == Cardinality(S)
<1>1. n \in Nat
    BY FS_CardinalityType
<1>2. f \in [1 .. n -> S] /\ \A i, j \in 1 .. n : i # j => f[i] # f[j]
    BY DEF SetToSeqs
<1>3. f \in Seq(S) /\ Len(f) = n
    BY <1>1, <1>2
<1>4. IsInjective(f) /\ f \in Injection(1 .. n, S)
    BY <1>2 DEF IsInjective, Injection
<1>5. Cardinality(1 .. n) = n
    BY <1>1, FS_Interval
<1>6. f \in Surjection(1 .. n, S)
    BY <1>4, <1>5, FS_Injection
<1>7. Range(f) = S
    BY <1>2, <1>6 DEF Surjection, Range
<1>. QED  BY <1>3, <1>4, <1>7

\* A prefix of an injective sequence is injective and keeps its elements.
LEMMA PrefixInjective ==
    ASSUME NEW S, NEW f \in Seq(S), IsInjective(f), NEW k \in 0 .. Len(f)
    PROVE  LET c == SubSeq(f, 1, k)
           IN  /\ c \in Seq(S) /\ Len(c) = k /\ IsInjective(c)
               /\ \A i \in 1 .. k : c[i] = f[i]
BY DEF IsInjective

\* The matches of a pool prefix are a finite set.
LEMMA MatchingFinite ==
    ASSUME NEW k \in Nat
    PROVE  IsFiniteSet(Matching(k))
<1>1. IsFiniteSet(1 .. k)
    BY FS_Interval
<1>. QED  BY <1>1, FS_Subset DEF Matching

\* Neither the builder nor the filter constructor starts a processor.
LEMMA BuildNotStarted ==
    ASSUME NEW q
    PROVE  /\ BuildFront(q) \notin {"started", "stopped"}
           /\ BuildRest(q) \notin {"started", "stopped"}
BY DEF BuildFront, BuildRest

\* MetadataQueryProcessor::start on a built filter: ids_ holds exactly the
\* matches of the scanned prefix, which reaches prev_size_, so the ids put
\* are distinct matches, at most one past the budget, and all of them
\* unless the cursor refused one.
LEMMA MetaStartLists ==
    ASSUME FilterInv, budget \in Nat, MetaStart
    PROVE  MetaListsMatches'
<1>1. phase = "meta" /\ UNCHANGED <<filter, prev_size, budget>>
    BY DEF MetaStart
<1>2. CASE filter = NullFilter
    <2>1. phase' = "crashed"
        BY <1>2 DEF MetaStart
    <2>. QED  BY <2>1 DEF MetaListsMatches
<1>3. CASE filter # NullFilter
    <2>1. PICK order \in SetToSeqs(ids) :
                calls' = SubSeq(order, 1, Min({Len(order), budget + 1}))
        BY <1>3 DEF MetaStart
    <2>2. phase' = "started"
        BY <1>3 DEF MetaStart
    <2>3. ids = Matching(offset) /\ offset \in Nat /\ prev_size <= offset
        BY <1>1 DEF FilterInv
    <2>4. /\ order \in Seq(ids) /\ Len(order) = Cardinality(ids)
          /\ IsInjective(order) /\ Range(order) = ids
        BY <2>3, MatchingFinite, EnumerationOnto
    <2>. DEFINE k == Min({Len(order), budget + 1})
    <2>5. k = IF Len(order) <= budget + 1 THEN Len(order) ELSE budget + 1
        BY <2>4, MinPair
    <2>6. k \in 0 .. Len(order) /\ k <= budget + 1
        BY <2>4, <2>5
    <2>7. /\ calls' \in Seq(ids) /\ Len(calls') = k /\ IsInjective(calls')
          /\ \A i \in 1 .. k : calls'[i] = order[i]
        BY <2>1, <2>4, <2>6, PrefixInjective
    <2>8. \A i \in 1 .. Len(calls') : FilterMatches(filter', Catalog[calls'[i]])
        BY <1>1, <2>3, <2>7 DEF Matching
    <2>9. Len(calls') <= budget' =>
              \A i \in 1 .. prev_size' :
                  FilterMatches(filter', Catalog[i]) => i \in Range(calls')
        <3>. SUFFICES ASSUME Len(calls') <= budget,
                             NEW i \in 1 .. prev_size,
                             FilterMatches(filter, Catalog[i])
                      PROVE  i \in Range(calls')
            BY <1>1
        <3>1. k = Len(order)
            BY <2>5, <2>7
        <3>2. i \in Matching(offset)
            BY <2>3 DEF FilterInv, Matching
        <3>3. PICK j \in 1 .. Len(order) : order[j] = i
            BY <2>3, <2>4, <3>2 DEF Range
        <3>4. j \in DOMAIN calls' /\ calls'[j] = i
            <4>. HIDE DEF k
            <4>1. j \in 1 .. k
                BY <2>4, <3>1
            <4>2. DOMAIN calls' = 1 .. k
                BY <2>7
            <4>. QED  BY <2>7, <3>3, <4>1, <4>2
        <3>. QED  BY <3>4 DEF Range
    <2>. QED  BY <1>1, <2>2, <2>6, <2>7, <2>8, <2>9 DEF MetaListsMatches
<1>. QED  BY <1>2, <1>3

\* the strengthening: the filter invariant and a numeric budget
MetaInv ==
    /\ FilterInv
    /\ budget \in Nat
    /\ MetaListsMatches

\* Every other step leaves the phase out of {"started", "stopped"} or
\* leaves the cursor, the filter, the budget and prev_size_ alone.
LEMMA OtherStepsLists ==
    ASSUME MetaInv,
           \/ Ingest
           \/ \E q \in LegacyQueries : Build(q)
           \/ FilterCtor
           \/ \E id \in 1 .. interned : ApplyCheck(id)
           \/ ApplyRefresh
           \/ MetaStop
           \/ MetaSetError
           \/ UNCHANGED lvars
    PROVE  MetaListsMatches'
<1>1. CASE \E q \in LegacyQueries : Build(q)
    BY <1>1, BuildNotStarted DEF Build, MetaListsMatches
<1>2. CASE FilterCtor
    BY <1>2, BuildNotStarted DEF FilterCtor, MetaListsMatches
<1>3. CASE Ingest \/ (\E id \in 1 .. interned : ApplyCheck(id)) \/ ApplyRefresh
           \/ MetaSetError \/ UNCHANGED lvars
    <2>1. UNCHANGED <<phase, calls, filter, budget, prev_size>>
        BY <1>3 DEF Ingest, ApplyCheck, ApplyRefresh, MetaSetError, lvars
    <2>. QED  BY <2>1 DEF MetaInv, MetaListsMatches
<1>4. CASE MetaStop
    BY <1>4 DEF MetaStop, MetaInv, MetaListsMatches
<1>. QED  BY <1>1, <1>2, <1>3, <1>4

(***************************************************************************)
(* MetadataQueryProcessor::start (select: names), for every catalog,       *)
(* query set, budget and interleaving with the ingest thread: the cursor   *)
(* receives distinct ids of matching series, nothing after the put it      *)
(* refused, and, unless it refused one, every matching series interned     *)
(* before the filter was built.                                            *)
(***************************************************************************)
THEOREM MetaListsMatchesHolds ==
    Spec => []MetaListsMatches
<1>1. Init => MetaInv
    BY InitFilterInv, LegacyAssumption DEF Init, MetaInv, MetaListsMatches
<1>2. MetaInv /\ [Next]_lvars => MetaInv'
    <2>. SUFFICES ASSUME MetaInv, [Next]_lvars PROVE MetaInv'
        OBVIOUS
    <2>1. FilterInv'
        BY IngestFilterInv, BuildFilterInv, FilterCtorFilterInv, ApplyCheckFilterInv,
           ApplyRefreshFilterInv, MetaFilterInv, StutterFilterInv DEF Next, MetaInv
    <2>2. budget' \in Nat
        BY DEF MetaInv, Next, lvars, Ingest, Build, FilterCtor, ApplyCheck,
               ApplyRefresh, MetaStart, MetaStop, MetaSetError
    <2>3. MetaListsMatches'
        BY MetaStartLists, OtherStepsLists DEF Next, MetaInv
    <2>. QED  BY <2>1, <2>2, <2>3 DEF MetaInv
<1>3. MetaInv => MetaListsMatches
    BY DEF MetaInv
<1>. QED  BY <1>1, <1>2, <1>3, PTL DEF Spec

=============================================================================
