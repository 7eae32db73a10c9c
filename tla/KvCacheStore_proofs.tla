------------------------- MODULE KvCacheStore_proofs ------------------------
(***************************************************************************)
(* The operations of a store lead from stores to stores, and move only the *)
(* request they are about.                                                 *)
(***************************************************************************)
EXTENDS KvCacheStore, FiniteSums_proofs

\* The partitions and every set of requests or of sessions are finite.
LEMMA FiniteUniverse ==
    /\ IsFiniteSet(Partitions)
    /\ \A S \in SUBSET Requests : IsFiniteSet(S) /\ Cardinality(S) \in Nat
    /\ \A S \in SUBSET Sessions : IsFiniteSet(S)
<1>1. IsFiniteSet(Requests) /\ IsFiniteSet(Sessions)
  BY WorkloadAssumption
<1>2. IsFiniteSet(Partitions)
  BY FS_Interval, StoreAssumption DEF Partitions
<1>. QED  BY <1>1, <1>2, FS_Subset, FS_CardinalityType

\* The facts of a request are natural numbers, and it asks for a token at least.
LEMMA WorkloadType ==
    ASSUME NEW r \in Requests
    PROVE  /\ Fresh[r] \in Nat /\ Declared[r] \in Nat /\ Target[r] \in Nat
           /\ Target[r] > 0
           /\ ContextOf(r) \in Nat
           /\ SessionOf[r] \in Sessions \cup {NoSession}
           /\ HasSession(r) => SessionOf[r] \in Sessions
BY WorkloadAssumption DEF ContextOf, HasSession

\* KvCacheStore::new builds a store.
LEMMA EmptyStoreType == EmptyStore \in Store
BY StoreAssumption DEF EmptyStore, Store, Partitions, Totals

\* The retained part of a declared prefix is no longer than the prefix.
LEMMA PeekType ==
    ASSUME NEW st \in Store, NEW p \in Partitions, NEW r \in Requests, HasSession(r)
    PROVE  Peek(st, p, r) \in Nat /\ Peek(st, p, r) <= Declared[r]
BY WorkloadType DEF Peek, Store, Smaller

\* What a set of decodes is charged after some steps is a natural number.
LEMMA UnitsAfterType ==
    ASSUME NEW st \in Store, NEW ds \in SUBSET Requests, NEW e \in Nat
    PROVE  UnitsAfter(st, ds, e) \in Nat
<1> DEFINE f == [r \in ds |-> st.context[r] + e]
           D == { r \in ds : st.remaining[r] >= e }
<1>1. IsFiniteSet(D)
  BY FiniteUniverse
<1>2. \A r \in D : f[r] \in Nat
  BY DEF Store
<1> HIDE DEF f, D
<1>3. SumOver(f, D) \in Nat
  BY <1>1, <1>2, SumType
<1>. QED  BY <1>3 DEF UnitsAfter, f, D

\* The exits of a set of decodes are finitely many, the sampled ones among them.
LEMMA ExitsType ==
    ASSUME NEW st \in Store, NEW ds \in SUBSET Requests
    PROVE  /\ Exits(st, ds) \in SUBSET Nat
           /\ SampledExits(st, ds) \in SUBSET Exits(st, ds)
           /\ IsFiniteSet({0} \cup Exits(st, ds))
           /\ IsFiniteSet({0} \cup SampledExits(st, ds))
<1>1. Exits(st, ds) \in SUBSET Nat
  BY DEF Exits, Store
<1>2. IsFiniteSet(Exits(st, ds))
  BY FiniteUniverse, FiniteImage DEF Exits
<1>3. SampledExits(st, ds) \in SUBSET Exits(st, ds)
  BY DEF SampledExits
<1>4. IsFiniteSet({0})
  BY FS_Singleton
<1>5. IsFiniteSet(SampledExits(st, ds))
  BY <1>2, <1>3, FS_Subset
<1>. QED  BY <1>1, <1>2, <1>3, <1>4, <1>5, FS_Union

\* The highest charge over finitely many steps, now among them, is the charge
\* after one of them, and none is higher.
LEMMA PeakOver ==
    ASSUME NEW st \in Store, NEW ds \in SUBSET Requests,
           NEW E \in SUBSET Nat, 0 \in E, IsFiniteSet(E)
    PROVE  /\ HighestAfter(st, ds, E) \in Int
           /\ \E e \in E : HighestAfter(st, ds, E) = UnitsAfter(st, ds, e)
           /\ \A e \in E : UnitsAfter(st, ds, e) <= HighestAfter(st, ds, E)
<1> DEFINE m == HighestAfter(st, ds, E)
           h == [e \in E |-> UnitsAfter(st, ds, e)]
           V == { UnitsAfter(st, ds, e) : e \in E }
<1>1. \A e \in E : UnitsAfter(st, ds, e) \in Int
  <2>1. \A e \in E : UnitsAfter(st, ds, e) \in Nat
    BY UnitsAfterType
  <2>. QED  BY <2>1
<1>2. V = { h[e] : e \in E }
  OBVIOUS
<1> HIDE DEF h
<1>3. IsFiniteSet(V)
  BY <1>2, FiniteImage
<1>4. V # {} /\ \A x \in V : x \in Int
  BY <1>1
<1>5. Max(V) \in V /\ \A y \in V : Max(V) >= y
  <2> HIDE DEF V
  <2>. QED  BY <1>3, <1>4, MaxIs
<1>6. m = Max(V)
  BY DEF HighestAfter
<1> HIDE DEF m
<1>7. m \in Int /\ \A e \in E : m >= UnitsAfter(st, ds, e)
  BY <1>4, <1>5, <1>6
<1>8. \E e \in E : m = UnitsAfter(st, ds, e)
  BY <1>5, <1>6
<1> HIDE DEF V
<1>9. \A e \in E : UnitsAfter(st, ds, e) <= m
  BY <1>1, <1>7
<1>. QED  BY <1>7, <1>8, <1>9 DEF m

\* The peak of a set of decodes, projected or reached, is an integer.
LEMMA PeakType ==
    ASSUME NEW st \in Store, NEW ds \in SUBSET Requests
    PROVE  ProjectedPeak(st, ds) \in Int /\ ReachedPeak(st, ds) \in Int
<1> DEFINE S == {0} \cup SampledExits(st, ds)
           E == {0} \cup Exits(st, ds)
<1>1. /\ Exits(st, ds) \in SUBSET Nat
      /\ SampledExits(st, ds) \in SUBSET Exits(st, ds)
      /\ IsFiniteSet(S) /\ IsFiniteSet(E)
  BY ExitsType
<1>2. S \in SUBSET Nat /\ 0 \in S /\ E \in SUBSET Nat /\ 0 \in E
  BY <1>1
<1>3. ProjectedPeak(st, ds) = HighestAfter(st, ds, S)
      /\ ReachedPeak(st, ds) = HighestAfter(st, ds, E)
  BY DEF ProjectedPeak, ReachedPeak
<1> HIDE DEF S, E
<1>. QED  BY <1>1, <1>2, <1>3, PeakOver

\* Evicting entries leaves a retained tier.
LEMMA KeepingType ==
    ASSUME NEW entries \in [Sessions -> Nat], NEW S
    PROVE  Keeping(entries, S) \in [Sessions -> Nat]
BY DEF Keeping

\* shrink_to leaves a retained tier.
LEMMA ShrunkType ==
    ASSUME NEW entries \in [Sessions -> Nat], NEW limit,
           NEW kept \in Shrunk(entries, limit)
    PROVE  kept \in [Sessions -> Nat]
BY KeepingType DEF Shrunk

\* What the hard tier leaves is never negative.
LEMMA SoftSlackType ==
    ASSUME NEW st \in Store, NEW p \in Partitions
    PROVE  SoftSlack(st, p) \in Nat
BY StoreAssumption
   DEF SoftSlack, SaturatingSub, NonCachePeak, Larger, Store, Totals

\* insert changes nothing but the retained tier.
LEMMA RetainedType ==
    ASSUME NEW st \in Store, NEW p \in Partitions, NEW s \in Sessions,
           NEW tokens \in Nat, NEW new \in Retained(st, p, s, tokens)
    PROVE  new \in Store /\ new = [st EXCEPT !.cache = new.cache]
<1> DEFINE cap  == Smaller(MaxRetained, SoftSlack(st, p))
           kept == Smaller(tokens, cap)
           rest == [st.cache[p] EXCEPT ![s] = 0]
<1>1. cap \in Nat /\ kept \in Nat
  BY SoftSlackType, StoreAssumption DEF Smaller
<1>2. rest \in [Sessions -> Nat]
  BY DEF Store
<1>3. PICK entries \in Shrunk(rest, cap - kept) :
         new = [st EXCEPT !.cache[p] = [entries EXCEPT ![s] = kept]]
  BY DEF Retained
<1>4. entries \in [Sessions -> Nat]
  BY <1>2, ShrunkType
<1> HIDE DEF kept, rest
<1>. QED  BY <1>1, <1>3, <1>4 DEF Store

\* retained_prefix_partition answers with a partition or with none: among
\* finitely many partitions one holds the longest part, and a first one does.
LEMMA RetainedPrefixPartitionType ==
    ASSUME NEW st \in Store, NEW r \in Requests
    PROVE  /\ RetainedPrefixPartition(st, r) \in Partitions \cup {NoPartition}
           /\ \A p \in Partitions : HasSession(r) /\ Peek(st, p, r) # 0 =>
                 /\ RetainedPrefixPartition(st, r) \in Partitions
                 /\ \A q \in Partitions :
                       Peek(st, q, r) <= Peek(st, RetainedPrefixPartition(st, r), r)
<1>1. CASE ~HasSession(r) \/ \A p \in Partitions : Peek(st, p, r) = 0
  BY <1>1 DEF RetainedPrefixPartition
<1>2. CASE HasSession(r)
  <2> DEFINE peek == [p \in Partitions |-> Peek(st, p, r)]
             Values == { peek[p] : p \in Partitions }
  <2>1. \A p \in Partitions : peek[p] \in Nat
    BY <1>2, PeekType
  <2>2. 0 \in Partitions
    BY StoreAssumption DEF Partitions
  <2> HIDE DEF peek
  <2>3. PICK top \in Values : \A v \in Values : top >= v
    <3>1. IsFiniteSet(Values) /\ Values # {} /\ \A v \in Values : v \in Int
      BY <2>1, <2>2, FiniteUniverse, FiniteImage
    <3>. QED  BY <3>1, MaxExists
  <2> DEFINE Best == { p \in Partitions : peek[p] = top }
             Negated == { 0 - p : p \in Best }
             minus == [p \in Best |-> 0 - p]
  <2>4. IsFiniteSet(Best) /\ Best # {}
    BY <2>3, FiniteUniverse, FS_Subset
  <2>5. PICK q \in Best : \A p \in Best : q <= p
    <3>1. \A p \in Best : p \in Nat
      BY DEF Partitions
    <3>2. { minus[p] : p \in Best } = Negated
      OBVIOUS
    <3> HIDE DEF Best
    <3>3. IsFiniteSet({ minus[p] : p \in Best })
      BY <2>4, FiniteImage
    <3>4. IsFiniteSet(Negated) /\ Negated # {} /\ \A v \in Negated : v \in Int
      <4>1. IsFiniteSet(Negated)
        BY <3>2, <3>3
      <4>2. Negated # {} /\ \A v \in Negated : v \in Int
        BY <2>4, <3>1
      <4>. QED  BY <4>1, <4>2
    <3>5. PICK v \in Negated : \A w \in Negated : v >= w
      BY <3>4, MaxExists
    <3>6. PICK q \in Best : v = 0 - q
      BY <3>5
    <3>7. ASSUME NEW p \in Best PROVE q <= p
      <4>1. 0 - q >= 0 - p
        BY <3>5, <3>6
      <4>. QED  BY <3>1, <4>1
    <3>. QED  BY <3>7
  <2>6. \A p \in Partitions :
           \/ peek[p] < peek[q]
           \/ peek[p] = peek[q] /\ q <= p
    BY <2>1, <2>3, <2>5
  <2>7. \E b \in Partitions : \A p \in Partitions :
           \/ Peek(st, p, r) < Peek(st, b, r)
           \/ Peek(st, p, r) = Peek(st, b, r) /\ b <= p
    <3>1. \A p \in Partitions : peek[p] = Peek(st, p, r)
      BY DEF peek
    <3>2. q \in Partitions
      BY <2>5
    <3>. QED  BY <2>6, <3>1, <3>2
  <2> DEFINE IsBest(b) == \A p \in Partitions :
                \/ Peek(st, p, r) < Peek(st, b, r)
                \/ Peek(st, p, r) = Peek(st, b, r) /\ b <= p
             best == CHOOSE b \in Partitions : IsBest(b)
  <2>8. best \in Partitions /\ IsBest(best)
    <3>1. \E b \in Partitions : IsBest(b)
      BY <2>7
    <3> HIDE DEF IsBest
    <3>. QED  BY <3>1
  <2>9. RetainedPrefixPartition(st, r) =
           IF \A p \in Partitions : Peek(st, p, r) = 0 THEN NoPartition ELSE best
    BY <1>2 DEF RetainedPrefixPartition
  <2>10. \A p \in Partitions : Peek(st, p, r) \in Nat
    BY <1>2, PeekType
  <2>11. \A p \in Partitions : Peek(st, p, r) <= Peek(st, best, r)
    BY <2>8, <2>10
  <2> HIDE DEF best, IsBest
  <2>. QED  BY <2>8, <2>9, <2>11
<1>. QED  BY <1>1, <1>2

\* A prefill computes a natural number of tokens.
LEMMA PrefillTokensType ==
    ASSUME NEW st \in Store, NEW p \in Partitions, NEW r \in Requests
    PROVE  PrefillTokensToCompute(st, p, r) \in Nat
<1>1. PrefixHit(st, p, r) \in Nat /\ PrefixHit(st, p, r) <= Declared[r]
  BY PeekType, WorkloadType DEF PrefixHit
<1>. QED  BY <1>1, WorkloadType DEF PrefillTokensToCompute

-----------------------------------------------------------------------------
(* What each operation leaves: a store again, and which fields it touches. *)

\* A promise leaves a store.
LEMMA PromiseType ==
    ASSUME NEW st \in Store, NEW r \in Requests, NEW p \in Partitions,
           NEW units \in Nat
    PROVE  Promise(st, r, p, units) \in Store
<1>1. /\ [st.promised EXCEPT ![r] = units] \in [Requests -> Nat]
      /\ [st.placement EXCEPT ![r] = p] \in [Requests -> Partitions \cup {NoPartition}]
      /\ [st.reserved EXCEPT ![p] = @ + units] \in Totals
  BY DEF Store, Totals
<1>. QED  BY <1>1 DEF Promise, Store

\* reserve promises, and otherwise changes nothing but the retained tier.
LEMMA ReservedType ==
    ASSUME NEW st \in Store, NEW r \in Requests, NEW p \in Partitions,
           NEW units \in Nat, NEW new \in Reserved(st, r, p, units)
    PROVE  /\ new \in Store
           /\ new = [Promise(st, r, p, units) EXCEPT !.cache = new.cache]
<1> DEFINE promised == Promise(st, r, p, units)
<1>1. promised \in Store
  BY PromiseType
<1>2. PICK entries \in Shrunk(st.cache[p], SoftSlack(promised, p)) :
         new = [promised EXCEPT !.cache[p] = entries]
  BY DEF Reserved
<1>3. st.cache[p] \in [Sessions -> Nat]
  BY DEF Store
<1>4. entries \in [Sessions -> Nat]
  BY <1>3, ShrunkType
<1> HIDE DEF promised
<1>5. new \in Store /\ new = [promised EXCEPT !.cache = new.cache]
  BY <1>1, <1>2, <1>4 DEF Store
<1>. QED  BY <1>5 DEF promised

\* The same of reserve_prefill_context, which takes its prefix out of that tier.
LEMMA ReservedPrefillType ==
    ASSUME NEW st \in Store, NEW r \in Requests, NEW p \in Partitions,
           NEW units \in Nat, NEW new \in ReservedPrefill(st, r, p, units)
    PROVE  /\ new \in Store
           /\ new = [Promise(st, r, p, units) EXCEPT !.cache = new.cache]
<1>1. CASE HasSession(r)
  <2> DEFINE bare == [st EXCEPT !.cache[p][SessionOf[r]] = 0]
  <2>1. bare \in Store /\ bare = [st EXCEPT !.cache = bare.cache]
    BY <1>1, WorkloadType DEF Store
  <2>2. new \in Reserved(bare, r, p, units)
    BY <1>1 DEF ReservedPrefill
  <2> HIDE DEF bare
  <2>3. new \in Store /\ new = [Promise(bare, r, p, units) EXCEPT !.cache = new.cache]
    BY <2>1, <2>2, ReservedType
  <2>. QED  BY <2>1, <2>3, ZenonT(30) DEF Promise, Store
<1>2. CASE ~HasSession(r)
  BY <1>2, ReservedType DEF ReservedPrefill
<1>. QED  BY <1>1, <1>2

\* The sum of some promises is an integer.
LEMMA PromisesType ==
    ASSUME NEW st \in Store, NEW S \in SUBSET Requests
    PROVE  SumOver(st.promised, S) \in Int
<1>1. \A r \in S : st.promised[r] \in Int
  BY DEF Store
<1>. QED  BY <1>1, FiniteUniverse, SumType

\* forget_promise leaves a store.
LEMMA WithoutPromisesType ==
    ASSUME NEW st \in Store, NEW S \in SUBSET Requests
    PROVE  WithoutPromises(st, S) \in Store
<1>1. ASSUME NEW p \in Partitions
      PROVE  SumOver(st.promised, S \cap PlacedOn(st, p)) \in Int
  BY PromisesType DEF PlacedOn
<1>2. [r \in Requests |-> IF r \in S THEN 0 ELSE st.promised[r]] \in [Requests -> Nat]
  BY DEF Store
<1>3. [p \in Partitions |-> st.reserved[p] - SumOver(st.promised, S \cap PlacedOn(st, p))]
        \in Totals
  <2>1. \A p \in Partitions : st.reserved[p] \in Int
    BY DEF Store, Totals
  <2>. QED  BY <1>1, <2>1 DEF Totals
<1>. QED  BY <1>2, <1>3 DEF WithoutPromises, Store

\* drain_ready leaves a store.
LEMMA DrainReadyType ==
    ASSUME NEW st \in Store
    PROVE  DrainReady(st) \in Store
<1>1. WithoutPromises(st, Requests) \in Store
  BY WithoutPromisesType
<1>2. [p \in Partitions |-> st.admits[p] \cup PromisedOn(st, p)]
        \in [Partitions -> SUBSET Requests]
  BY DEF Store, PromisedOn, PlacedOn
<1>. QED  BY <1>1, <1>2 DEF DrainReady, Store

\* advance leaves a store when every decode it advances has output left.
LEMMA AdvancedType ==
    ASSUME NEW st \in Store, NEW live \in SUBSET Requests,
           \A r \in live : st.remaining[r] > 0
    PROVE  Advanced(st, live) \in Store
<1>1. [r \in Requests |-> IF r \in live THEN st.context[r] + 1 ELSE st.context[r]]
        \in [Requests -> Nat]
  BY DEF Store
<1>2. [r \in Requests |-> IF r \in live THEN st.remaining[r] - 1 ELSE st.remaining[r]]
        \in [Requests -> Nat]
  BY DEF Store
<1>3. [p \in Partitions |-> st.resident[p] + Cardinality(live \cap st.decodes[p])]
        \in Totals
  <2>1. \A p \in Partitions : /\ st.resident[p] \in Int
                              /\ live \cap st.decodes[p] \in SUBSET Requests
    BY DEF Store, Totals
  <2>. QED  BY <2>1, FiniteUniverse DEF Totals
<1>. QED  BY <1>1, <1>2, <1>3 DEF Advanced, Store

\* commit_resident leaves a store.
LEMMA CommittedType ==
    ASSUME NEW st \in Store, NEW S \in SUBSET Requests,
           NEW tokens \in [Requests -> Nat], NEW left, \A r \in S : left[r] \in Nat
    PROVE  Committed(st, S, tokens, left) \in Store
<1> DEFINE on(p) == S \cap PlacedOn(st, p)
           decodes == [p \in Partitions |-> st.decodes[p] \cup on(p)]
           context == [r \in Requests |->
                         IF r \in S THEN tokens[r] ELSE st.context[r]]
           remaining == [r \in Requests |->
                           IF r \in S THEN left[r] ELSE st.remaining[r]]
           resident == [p \in Partitions |-> st.resident[p] + SumOver(tokens, on(p))]
           bare  == WithoutPromises(st, S)
           begun == [bare EXCEPT !.decodes = decodes, !.context = context,
                                 !.remaining = remaining, !.resident = resident]
           peak == [p \in Partitions |-> IF on(p) = {} THEN st.peak[p]
                                         ELSE ProjectedPeak(begun, begun.decodes[p])]
<1>1. bare \in Store
  BY WithoutPromisesType
<1>2. decodes \in [Partitions -> SUBSET Requests]
  BY DEF Store
<1>3. context \in [Requests -> Nat] /\ remaining \in [Requests -> Nat]
  BY DEF Store
<1>4. resident \in Totals
  <2>1. ASSUME NEW p \in Partitions
        PROVE  SumOver(tokens, on(p)) \in Int
    BY FiniteUniverse, SumType
  <2>2. \A p \in Partitions : st.resident[p] \in Int
    BY DEF Store, Totals
  <2>. QED  BY <2>1, <2>2 DEF Totals
<1>5. begun \in Store
  <2> HIDE DEF bare, decodes, context, remaining, resident
  <2>. QED  BY <1>1, <1>2, <1>3, <1>4 DEF Store
<1>6. peak \in Totals
  <2> HIDE DEF begun
  <2>1. ASSUME NEW p \in Partitions
        PROVE  ProjectedPeak(begun, begun.decodes[p]) \in Int /\ st.peak[p] \in Int
    BY <1>5, PeakType DEF Store, Totals
  <2>. QED  BY <2>1 DEF Totals
<1>7. Committed(st, S, tokens, left) = [begun EXCEPT !.peak = peak]
  BY DEF Committed
<1>. QED  BY <1>5, <1>6, <1>7, ZenonT(30) DEF Store

\* release_decode forgets one decode, and places no request elsewhere.
LEMMA ReleaseDecodeType ==
    ASSUME NEW st \in Store, NEW r \in Requests, NEW p \in Partitions
    PROVE  /\ ReleaseDecode(st, r, p) \in Store
           /\ ReleaseDecode(st, r, p).placement = st.placement
           /\ ReleaseDecode(st, r, p).promised = st.promised
           /\ ReleaseDecode(st, r, p).admits = st.admits
           /\ ReleaseDecode(st, r, p).decodes =
                [st.decodes EXCEPT ![p] = st.decodes[p] \ {r}]
           /\ \A q \in Requests \ {r} :
                 /\ ReleaseDecode(st, r, p).context[q] = st.context[q]
                 /\ ReleaseDecode(st, r, p).remaining[q] = st.remaining[q]
<1>1. CASE r \notin st.decodes[p]
  <2>1. st.decodes = [st.decodes EXCEPT ![p] = st.decodes[p] \ {r}]
    BY <1>1 DEF Store
  <2>. QED  BY <1>1, <2>1 DEF ReleaseDecode
<1>2. CASE r \in st.decodes[p]
  <2> DEFINE left == st.decodes[p] \ {r}
             decodes == [st.decodes EXCEPT ![p] = left]
             context == [st.context EXCEPT ![r] = 0]
             remaining == [st.remaining EXCEPT ![r] = 0]
             resident == [st.resident EXCEPT ![p] = @ - st.context[r]]
             peak == [st.peak EXCEPT ![p] = ProjectedPeak(st, left)]
  <2>1. ReleaseDecode(st, r, p) =
          [st EXCEPT !.decodes = decodes, !.context = context,
                     !.remaining = remaining, !.resident = resident, !.peak = peak]
    BY <1>2 DEF ReleaseDecode
  <2>2. /\ decodes \in [Partitions -> SUBSET Requests]
        /\ context \in [Requests -> Nat] /\ remaining \in [Requests -> Nat]
        /\ resident \in Totals
    BY DEF Store, Totals
  <2>3. peak \in Totals
    <3>1. left \in SUBSET Requests
      BY DEF Store
    <3>2. ProjectedPeak(st, left) \in Int
      BY <3>1, PeakType
    <3>. QED  BY <3>2 DEF Store, Totals
  <2>4. \A q \in Requests \ {r} : /\ context[q] = st.context[q]
                                  /\ remaining[q] = st.remaining[q]
    BY DEF Store
  <2>5. decodes = [st.decodes EXCEPT ![p] = st.decodes[p] \ {r}]
    OBVIOUS
  <2> HIDE DEF decodes, context, remaining, resident, peak
  <2>. QED  BY <2>1, <2>2, <2>3, <2>4, <2>5, ZenonT(30) DEF Store
<1>. QED  BY <1>1, <1>2

\* take_held changes nothing but the held KV.
LEMMA TakeHeldType ==
    ASSUME NEW st \in Store, NEW r \in Requests
    PROVE  /\ TakeHeld(st, r) \in Store
           /\ TakeHeld(st, r).placement = st.placement
           /\ TakeHeld(st, r).promised = st.promised
           /\ TakeHeld(st, r).admits = st.admits
           /\ TakeHeld(st, r).decodes = st.decodes
           /\ TakeHeld(st, r).context = st.context
           /\ TakeHeld(st, r).remaining = st.remaining
<1>1. CASE st.held[r] = 0
  BY <1>1 DEF TakeHeld, Store
<1>2. CASE st.held[r] # 0
  <2> DEFINE held == [st.held EXCEPT ![r] = 0]
             heldOn == [st.heldOn EXCEPT ![r] = NoPartition]
             units == [st.heldUnits EXCEPT ![st.heldOn[r]] =
                         SaturatingSub(@, st.held[r])]
  <2>1. TakeHeld(st, r) = [st EXCEPT !.held = held, !.heldOn = heldOn,
                                     !.heldUnits = units]
    BY <1>2 DEF TakeHeld
  <2>2. held \in [Requests -> Nat] /\ heldOn \in [Requests -> Partitions \cup {NoPartition}]
    BY DEF Store
  <2>3. units \in Totals
    <3>1. \A p \in Partitions : st.heldUnits[p] \in Int /\ st.held[r] \in Int
      BY DEF Store, Totals
    <3>2. \A p \in Partitions : SaturatingSub(st.heldUnits[p], st.held[r]) \in Int
      BY <3>1 DEF SaturatingSub
    <3>3. units = [p \in Partitions |-> IF p = st.heldOn[r]
                     THEN SaturatingSub(st.heldUnits[p], st.held[r])
                     ELSE st.heldUnits[p]]
      BY DEF Store, Totals
    <3>. QED  BY <3>1, <3>2, <3>3 DEF Totals
  <2> HIDE DEF held, heldOn, units
  <2>. QED  BY <2>1, <2>2, <2>3 DEF Store
<1>. QED  BY <1>1, <1>2

\* release forgets one request: its promise, its decode and its placement.
LEMMA ReleasedType ==
    ASSUME NEW st \in Store, NEW r \in Requests, NEW p \in Partitions
    PROVE  /\ Released(st, r, p) \in Store
           /\ Released(st, r, p).placement = [st.placement EXCEPT ![r] = NoPartition]
           /\ Released(st, r, p).promised = [st.promised EXCEPT ![r] = 0]
           /\ Released(st, r, p).admits = st.admits
           /\ Released(st, r, p).decodes =
                [st.decodes EXCEPT ![p] = st.decodes[p] \ {r}]
           /\ \A q \in Requests \ {r} :
                 /\ Released(st, r, p).context[q] = st.context[q]
                 /\ Released(st, r, p).remaining[q] = st.remaining[q]
<1> DEFINE pulled == TakeHeld(st, r)
           unpromised == WithoutPromises(pulled, {r})
           bare == ReleaseDecode(unpromised, r, p)
<1>1. /\ pulled \in Store
      /\ pulled.placement = st.placement /\ pulled.promised = st.promised
      /\ pulled.admits = st.admits /\ pulled.decodes = st.decodes
      /\ pulled.context = st.context /\ pulled.remaining = st.remaining
  BY TakeHeldType
<1> HIDE DEF pulled
<1>2. unpromised \in Store
  BY <1>1, WithoutPromisesType
<1>3. /\ unpromised.placement = st.placement
      /\ unpromised.promised = [st.promised EXCEPT ![r] = 0]
      /\ unpromised.admits = st.admits /\ unpromised.decodes = st.decodes
      /\ unpromised.context = st.context /\ unpromised.remaining = st.remaining
  BY <1>1 DEF WithoutPromises, Store
<1> HIDE DEF unpromised
<1>4. /\ bare \in Store
      /\ bare.placement = st.placement
      /\ bare.promised = [st.promised EXCEPT ![r] = 0]
      /\ bare.admits = st.admits
      /\ bare.decodes = [st.decodes EXCEPT ![p] = st.decodes[p] \ {r}]
      /\ \A q \in Requests \ {r} : /\ bare.context[q] = st.context[q]
                                   /\ bare.remaining[q] = st.remaining[q]
  <2>1. /\ bare \in Store
        /\ bare.placement = unpromised.placement
        /\ bare.promised = unpromised.promised
        /\ bare.admits = unpromised.admits
        /\ bare.decodes = [unpromised.decodes EXCEPT ![p] = unpromised.decodes[p] \ {r}]
        /\ \A q \in Requests \ {r} :
              /\ bare.context[q] = unpromised.context[q]
              /\ bare.remaining[q] = unpromised.remaining[q]
    BY <1>2, ReleaseDecodeType
  <2> HIDE DEF bare
  <2>. QED  BY <1>3, <2>1
<1>5. Released(st, r, p) = [bare EXCEPT !.placement = [bare.placement EXCEPT ![r] = NoPartition]]
  BY DEF Released, pulled, unpromised
<1>6. [bare.placement EXCEPT ![r] = NoPartition] \in [Requests -> Partitions \cup {NoPartition}]
  BY <1>4 DEF Store
<1> HIDE DEF bare
<1>. QED  BY <1>4, <1>5, <1>6, ZenonT(30) DEF Store

\* release_retaining_prefix releases, and otherwise changes the retained tier only.
LEMMA ReleasedRetainingPrefixType ==
    ASSUME NEW st \in Store, NEW r \in Requests, NEW p \in Partitions,
           NEW new \in ReleasedRetainingPrefix(st, r, p)
    PROVE  new \in Store /\ new = [Released(st, r, p) EXCEPT !.cache = new.cache]
<1> DEFINE tokens == IF r \in st.decodes[p] THEN st.context[r] ELSE ContextOf(r)
<1>1. tokens \in Nat
  BY WorkloadType DEF Store
<1>2. Released(st, r, p) \in Store
  BY ReleasedType
<1>3. CASE HasSession(r)
  <2>1. new \in Retained(Released(st, r, p), p, SessionOf[r], tokens)
    BY <1>3 DEF ReleasedRetainingPrefix
  <2> HIDE DEF tokens
  <2>. QED  BY <1>1, <1>2, <1>3, <2>1, WorkloadType, RetainedType
<1>4. CASE ~HasSession(r)
  <2>1. new = Released(st, r, p)
    BY <1>4 DEF ReleasedRetainingPrefix
  <2>. QED  BY <1>2, <2>1 DEF Store
<1>. QED  BY <1>3, <1>4

\* Where reserve_prefill_context leaves every request.
LEMMA PromiseFields ==
    ASSUME NEW st \in Store, NEW r \in Requests, NEW p \in Partitions,
           NEW units \in Nat, NEW new \in ReservedPrefill(st, r, p, units)
    PROVE  /\ new.promised = [st.promised EXCEPT ![r] = units]
           /\ new.placement = [st.placement EXCEPT ![r] = p]
           /\ new.admits = st.admits /\ new.decodes = st.decodes
           /\ new.context = st.context /\ new.remaining = st.remaining
<1>1. new = [Promise(st, r, p, units) EXCEPT !.cache = new.cache]
  BY ReservedPrefillType
<1>2. /\ Promise(st, r, p, units).promised = [st.promised EXCEPT ![r] = units]
      /\ Promise(st, r, p, units).placement = [st.placement EXCEPT ![r] = p]
      /\ Promise(st, r, p, units).admits = st.admits
      /\ Promise(st, r, p, units).decodes = st.decodes
      /\ Promise(st, r, p, units).context = st.context
      /\ Promise(st, r, p, units).remaining = st.remaining
  BY DEF Promise, Store
<1>3. Promise(st, r, p, units) \in Store
  BY PromiseType
<1>. QED  BY <1>1, <1>2, <1>3 DEF Store

\* Where drain_ready leaves every request.
LEMMA DrainReadyFields ==
    ASSUME NEW st \in Store
    PROVE  /\ DrainReady(st).promised = [r \in Requests |-> 0]
           /\ DrainReady(st).placement = st.placement
           /\ DrainReady(st).admits =
                [p \in Partitions |-> st.admits[p] \cup PromisedOn(st, p)]
           /\ DrainReady(st).decodes = st.decodes
           /\ DrainReady(st).context = st.context
           /\ DrainReady(st).remaining = st.remaining
BY DEF DrainReady, WithoutPromises, Store

\* Where advance leaves every request.
LEMMA AdvancedFields ==
    ASSUME NEW st \in Store, NEW live \in SUBSET Requests
    PROVE  /\ Advanced(st, live).promised = st.promised
           /\ Advanced(st, live).placement = st.placement
           /\ Advanced(st, live).admits = st.admits
           /\ Advanced(st, live).decodes = st.decodes
           /\ Advanced(st, live).context = [r \in Requests |->
                IF r \in live THEN st.context[r] + 1 ELSE st.context[r]]
           /\ Advanced(st, live).remaining = [r \in Requests |->
                IF r \in live THEN st.remaining[r] - 1 ELSE st.remaining[r]]
BY DEF Advanced, Store

\* Where commit_resident leaves every request.
LEMMA CommittedFields ==
    ASSUME NEW st \in Store, NEW S \in SUBSET Requests, NEW tokens, NEW left
    PROVE  /\ Committed(st, S, tokens, left).promised =
                [r \in Requests |-> IF r \in S THEN 0 ELSE st.promised[r]]
           /\ Committed(st, S, tokens, left).placement = st.placement
           /\ Committed(st, S, tokens, left).admits = st.admits
           /\ Committed(st, S, tokens, left).decodes =
                [p \in Partitions |-> st.decodes[p] \cup (S \cap PlacedOn(st, p))]
           /\ Committed(st, S, tokens, left).context =
                [r \in Requests |-> IF r \in S THEN tokens[r] ELSE st.context[r]]
           /\ Committed(st, S, tokens, left).remaining =
                [r \in Requests |-> IF r \in S THEN left[r] ELSE st.remaining[r]]
<1> DEFINE bare == WithoutPromises(st, S)
           resident == [p \in Partitions |->
                          st.resident[p] + SumOver(tokens, S \cap PlacedOn(st, p))]
           begun == [bare EXCEPT
              !.decodes = [p \in Partitions |-> st.decodes[p] \cup (S \cap PlacedOn(st, p))],
              !.context = [r \in Requests |-> IF r \in S THEN tokens[r] ELSE st.context[r]],
              !.remaining = [r \in Requests |-> IF r \in S THEN left[r] ELSE st.remaining[r]],
              !.resident = resident]
           peak == [p \in Partitions |-> IF S \cap PlacedOn(st, p) = {} THEN st.peak[p]
                                         ELSE ProjectedPeak(begun, begun.decodes[p])]
<1>1. Committed(st, S, tokens, left) = [begun EXCEPT !.peak = peak]
  BY DEF Committed
<1>2. /\ bare.promised = [r \in Requests |-> IF r \in S THEN 0 ELSE st.promised[r]]
      /\ bare.placement = st.placement /\ bare.admits = st.admits
      /\ DOMAIN bare = DOMAIN st
  BY DEF WithoutPromises, Store
<1>3. { "decodes", "context", "remaining", "resident", "peak", "promised",
        "placement", "admits" } \subseteq DOMAIN bare
  BY <1>2 DEF Store
<1> HIDE DEF bare, resident, peak
<1>4. /\ begun.promised = bare.promised /\ begun.placement = bare.placement
      /\ begun.admits = bare.admits
      /\ begun.decodes = [p \in Partitions |-> st.decodes[p] \cup (S \cap PlacedOn(st, p))]
      /\ begun.context = [r \in Requests |-> IF r \in S THEN tokens[r] ELSE st.context[r]]
      /\ begun.remaining = [r \in Requests |-> IF r \in S THEN left[r] ELSE st.remaining[r]]
      /\ DOMAIN begun = DOMAIN bare
  BY <1>3
<1> HIDE DEF begun
<1>. QED  BY <1>1, <1>2, <1>3, <1>4

\* Where clear_prefill_admits leaves every request.
LEMMA ClearPrefillAdmitsFields ==
    ASSUME NEW st \in Store
    PROVE  /\ ClearPrefillAdmits(st) \in Store
           /\ ClearPrefillAdmits(st).promised = st.promised
           /\ ClearPrefillAdmits(st).placement = st.placement
           /\ ClearPrefillAdmits(st).admits = [p \in Partitions |-> {}]
           /\ ClearPrefillAdmits(st).decodes = st.decodes
           /\ ClearPrefillAdmits(st).context = st.context
           /\ ClearPrefillAdmits(st).remaining = st.remaining
BY DEF ClearPrefillAdmits, Store

\* Where release_retaining_prefix leaves every request.
LEMMA ReleasedRetainingPrefixFields ==
    ASSUME NEW st \in Store, NEW r \in Requests, NEW p \in Partitions,
           NEW new \in ReleasedRetainingPrefix(st, r, p)
    PROVE  /\ new.placement = [st.placement EXCEPT ![r] = NoPartition]
           /\ new.promised = [st.promised EXCEPT ![r] = 0]
           /\ new.admits = st.admits
           /\ new.decodes = [st.decodes EXCEPT ![p] = st.decodes[p] \ {r}]
           /\ \A q \in Requests \ {r} : /\ new.context[q] = st.context[q]
                                        /\ new.remaining[q] = st.remaining[q]
<1> DEFINE bare == Released(st, r, p)
<1>1. /\ bare \in Store
      /\ bare.placement = [st.placement EXCEPT ![r] = NoPartition]
      /\ bare.promised = [st.promised EXCEPT ![r] = 0]
      /\ bare.admits = st.admits
      /\ bare.decodes = [st.decodes EXCEPT ![p] = st.decodes[p] \ {r}]
      /\ \A q \in Requests \ {r} : /\ bare.context[q] = st.context[q]
                                   /\ bare.remaining[q] = st.remaining[q]
  BY ReleasedType
<1>2. new = [bare EXCEPT !.cache = new.cache]
  BY ReleasedRetainingPrefixType
<1> HIDE DEF bare
<1>. QED  BY <1>1, <1>2 DEF Store

\* What the operations leave of a request's fields, each in one predicate.
ReservedFor(st, r, p, units, new) ==
    /\ new \in Store
    /\ new.promised = [st.promised EXCEPT ![r] = units]
    /\ new.placement = [st.placement EXCEPT ![r] = p]
    /\ new.decodes = st.decodes
    /\ new.context = st.context /\ new.remaining = st.remaining

ReleasedFrom(st, r, p, new) ==
    /\ new \in Store
    /\ new.placement = [st.placement EXCEPT ![r] = NoPartition]
    /\ new.promised = [st.promised EXCEPT ![r] = 0]
    /\ new.decodes = [st.decodes EXCEPT ![p] = st.decodes[p] \ {r}]
    /\ \A q \in Requests \ {r} : /\ new.context[q] = st.context[q]
                                 /\ new.remaining[q] = st.remaining[q]

\* The end of a layer: some requests become decodes, the others grow.
LayerLeaves(st, S, tokens, left, live, new) ==
    /\ new \in Store
    /\ new.promised = [r \in Requests |-> IF r \in S THEN 0 ELSE st.promised[r]]
    /\ new.placement = st.placement
    /\ new.decodes = [p \in Partitions |-> st.decodes[p] \cup (S \cap PlacedOn(st, p))]
    /\ \A r \in Requests :
          LET context   == IF r \in S THEN tokens[r] ELSE st.context[r]
              remaining == IF r \in S THEN left[r] ELSE st.remaining[r]
          IN  /\ new.context[r] = IF r \in live THEN context + 1 ELSE context
              /\ new.remaining[r] = IF r \in live THEN remaining - 1 ELSE remaining

\* reserve_prefill_context.
LEMMA ReservedForIt ==
    \A st \in Store, r \in Requests, p \in Partitions, units \in Nat :
        \A new \in ReservedPrefill(st, r, p, units) : ReservedFor(st, r, p, units, new)
<1>1. SUFFICES ASSUME NEW st \in Store, NEW r \in Requests, NEW p \in Partitions,
                      NEW units \in Nat, NEW new \in ReservedPrefill(st, r, p, units)
               PROVE  ReservedFor(st, r, p, units, new)
  OBVIOUS
<1>. QED  BY ReservedPrefillType, PromiseFields DEF ReservedFor

\* release_retaining_prefix.
LEMMA ReleasedFromIt ==
    \A st \in Store, r \in Requests, p \in Partitions :
        \A new \in ReleasedRetainingPrefix(st, r, p) : ReleasedFrom(st, r, p, new)
<1>1. SUFFICES ASSUME NEW st \in Store, NEW r \in Requests, NEW p \in Partitions,
                      NEW new \in ReleasedRetainingPrefix(st, r, p)
               PROVE  ReleasedFrom(st, r, p, new)
  OBVIOUS
<1>2. new \in Store
  BY ReleasedRetainingPrefixType
<1>3. /\ new.placement = [st.placement EXCEPT ![r] = NoPartition]
      /\ new.promised = [st.promised EXCEPT ![r] = 0]
      /\ new.decodes = [st.decodes EXCEPT ![p] = st.decodes[p] \ {r}]
      /\ \A q \in Requests \ {r} : /\ new.context[q] = st.context[q]
                                   /\ new.remaining[q] = st.remaining[q]
  BY ReleasedRetainingPrefixFields
<1>. QED  BY <1>2, <1>3 DEF ReleasedFrom

\* complete_layer: commit_resident and advance.
LEMMA LayerLeavesIt ==
    \A st \in Store, S \in SUBSET Requests, live \in SUBSET Requests,
       tokens \in [Requests -> Nat], left \in [Requests -> Int] :
        (/\ \A r \in S : left[r] \in Nat
         /\ live \cap S = {} /\ \A r \in live : st.remaining[r] > 0)
            => LayerLeaves(st, S, tokens, left, live,
                           Advanced(Committed(st, S, tokens, left), live))
<1> TAKE st \in Store, S \in SUBSET Requests, live \in SUBSET Requests,
         tokens \in [Requests -> Nat], left \in [Requests -> Int]
<1>1. HAVE /\ \A r \in S : left[r] \in Nat
           /\ live \cap S = {} /\ \A r \in live : st.remaining[r] > 0
<1> DEFINE mid == Committed(st, S, tokens, left)
           new == Advanced(mid, live)
<1>2. mid \in Store
  BY <1>1, CommittedType
<1>3. /\ mid.promised = [r \in Requests |-> IF r \in S THEN 0 ELSE st.promised[r]]
      /\ mid.placement = st.placement
      /\ mid.decodes = [p \in Partitions |-> st.decodes[p] \cup (S \cap PlacedOn(st, p))]
      /\ mid.context = [r \in Requests |-> IF r \in S THEN tokens[r] ELSE st.context[r]]
      /\ mid.remaining = [r \in Requests |-> IF r \in S THEN left[r] ELSE st.remaining[r]]
  BY CommittedFields
<1> HIDE DEF mid
<1>4. \A r \in live : mid.remaining[r] > 0
  BY <1>1, <1>3
<1>5. new \in Store
  BY <1>2, <1>4, AdvancedType
<1>6. /\ new.promised = mid.promised /\ new.placement = mid.placement
      /\ new.decodes = mid.decodes
      /\ new.context = [r \in Requests |->
                IF r \in live THEN mid.context[r] + 1 ELSE mid.context[r]]
      /\ new.remaining = [r \in Requests |->
                IF r \in live THEN mid.remaining[r] - 1 ELSE mid.remaining[r]]
  BY <1>2, AdvancedFields
<1> HIDE DEF new
<1>7. \A r \in Requests :
         /\ mid.context[r] = IF r \in S THEN tokens[r] ELSE st.context[r]
         /\ mid.remaining[r] = IF r \in S THEN left[r] ELSE st.remaining[r]
  BY <1>3
<1>8. LayerLeaves(st, S, tokens, left, live, new)
  BY <1>3, <1>5, <1>6, <1>7 DEF LayerLeaves
<1>. QED  BY <1>8 DEF new, mid

-----------------------------------------------------------------------------
(* The projected peak. *)

\* A set of naturals with an element has a smallest one.
LEMMA LeastElement ==
    ASSUME NEW S \in SUBSET Nat, S # {}
    PROVE  \E m \in S : \A n \in S : m <= n
<1> DEFINE Less == OpToRel(<, Nat)
<1>1. IsWellFoundedOn(Less, Nat)
  BY NatLessThanWellFounded
<1>2. \A m, n \in Nat : m < n => <<m, n>> \in Less
  BY DEF OpToRel
<1> HIDE DEF Less
<1>3. PICK m \in S : \A n \in S : ~(<<n, m>> \in Less)
  BY <1>1, WFMin
<1>4. \A n \in S : ~(n < m)
  BY <1>2, <1>3
<1>5. m \in Nat /\ \A n \in S : n \in Nat
  OBVIOUS
<1>. QED  BY <1>4, <1>5

\* What a decode set is charged is a natural, no part of it more than the whole.
LEMMA ExitType ==
    ASSUME NEW st \in Store, NEW ds \in SUBSET Requests, NEW e \in Nat
    PROVE  /\ UnitsAfter(st, ds, e) \in Nat
           /\ \A D \in SUBSET { r \in ds : st.remaining[r] >= e } :
                 /\ IsFiniteSet(D)
                 /\ \A r \in D : [x \in ds |-> st.context[x] + e][r] \in Nat
                 /\ SumOver([x \in ds |-> st.context[x] + e], D) <= UnitsAfter(st, ds, e)
<1> DEFINE f == [x \in ds |-> st.context[x] + e]
           D == { r \in ds : st.remaining[r] >= e }
<1>1. IsFiniteSet(D) /\ \A U \in SUBSET D : IsFiniteSet(U)
  BY FiniteUniverse
<1>2. \A r \in D : f[r] \in Nat
  BY DEF Store
<1>3. UnitsAfter(st, ds, e) = SumOver(f, D)
  BY DEF UnitsAfter
<1> HIDE DEF f, D
<1>4. SumOver(f, D) \in Nat
  BY <1>1, <1>2, SumType
<1>5. \A U \in SUBSET D : SumOver(f, U) <= SumOver(f, D)
  BY <1>1, <1>2, SumSubset
<1>6. /\ UnitsAfter(st, ds, e) \in Nat
      /\ \A U \in SUBSET D :
            /\ IsFiniteSet(U)
            /\ \A r \in U : f[r] \in Nat
            /\ SumOver(f, U) <= UnitsAfter(st, ds, e)
  BY <1>1, <1>2, <1>3, <1>4, <1>5
<1>. QED  BY <1>6 DEF f, D

\* The peak that is reached is the charge at one of the exits, and at none of
\* them the charge is higher.
LEMMA PeakIs ==
    ASSUME NEW st \in Store, NEW ds \in SUBSET Requests
    PROVE  LET E == {0} \cup Exits(st, ds)
           IN  /\ \E e \in E : ReachedPeak(st, ds) = UnitsAfter(st, ds, e)
               /\ \A e \in E : UnitsAfter(st, ds, e) <= ReachedPeak(st, ds)
<1> DEFINE E == {0} \cup Exits(st, ds)
<1>1. Exits(st, ds) \in SUBSET Nat /\ IsFiniteSet(E)
  BY ExitsType
<1>2. E \in SUBSET Nat /\ 0 \in E
  BY <1>1
<1>3. ReachedPeak(st, ds) = HighestAfter(st, ds, E)
  BY DEF ReachedPeak
<1> HIDE DEF E
<1>4. /\ \E e \in E : ReachedPeak(st, ds) = UnitsAfter(st, ds, e)
      /\ \A e \in E : UnitsAfter(st, ds, e) <= ReachedPeak(st, ds)
  BY <1>1, <1>2, <1>3, PeakOver
<1>. QED  BY <1>4 DEF E

\* What is projected is reached.
LEMMA ProjectedIsReached ==
    ASSUME NEW st \in Store, NEW ds \in SUBSET Requests
    PROVE  ProjectedPeak(st, ds) <= ReachedPeak(st, ds)
<1> DEFINE S == {0} \cup SampledExits(st, ds)
           E == {0} \cup Exits(st, ds)
<1>1. /\ Exits(st, ds) \in SUBSET Nat
      /\ SampledExits(st, ds) \in SUBSET Exits(st, ds) /\ IsFiniteSet(S)
  BY ExitsType
<1>2. S \in SUBSET Nat /\ 0 \in S /\ S \in SUBSET E
  BY <1>1
<1>3. ProjectedPeak(st, ds) = HighestAfter(st, ds, S)
  BY DEF ProjectedPeak
<1>4. \A e \in E : UnitsAfter(st, ds, e) <= ReachedPeak(st, ds)
  BY PeakIs
<1> HIDE DEF S, E
<1>5. PICK e \in S : ProjectedPeak(st, ds) = UnitsAfter(st, ds, e)
  BY <1>1, <1>2, <1>3, PeakOver
<1>. QED  BY <1>2, <1>4, <1>5

\* Below twelve decodes every index is sampled.
LEMMA EveryIndexSampled ==
    ASSUME NEW n \in Nat, n < ExactBelow
    PROVE  0 .. n - 1 \in SUBSET SampleIndices(n)
<1>1. CASE n < 8
  BY <1>1 DEF SampleIndices
<1>2. CASE ~(n < 8)
  <2>1. n = 8 \/ n = 9 \/ n = 10 \/ n = 11
    BY <1>2 DEF ExactBelow
  <2>2. SampleIndices(n) = 0 .. 7 \cup { (k * n) \div 8 : k \in 1..7 } \cup { n - 1 }
    BY <1>2 DEF SampleIndices
  <2>3. CASE n = 8 \/ n = 9
    BY <2>2, <2>3
  <2>4. CASE n = 10
    <3>1. (7 * n) \div 8 = 8
      BY <2>4
    <3>2. 8 \in { (k * n) \div 8 : k \in 1..7 }
      BY <3>1
    <3>. QED  BY <2>2, <2>4, <3>2
  <2>5. CASE n = 11
    <3>1. (6 * n) \div 8 = 8 /\ (7 * n) \div 8 = 9
      BY <2>5
    <3>2. 8 \in { (k * n) \div 8 : k \in 1..7 } /\ 9 \in { (k * n) \div 8 : k \in 1..7 }
      BY <3>1
    <3>. QED  BY <2>2, <2>5, <3>2
  <2>. QED  BY <2>1, <2>3, <2>4, <2>5
<1>. QED  BY <1>1, <1>2

\* Below twelve decodes the projected peak is the one that is reached.
LEMMA FewAreExact ==
    ASSUME NEW st \in Store, NEW ds \in SUBSET Requests, Cardinality(ds) < ExactBelow
    PROVE  ProjectedPeak(st, ds) = ReachedPeak(st, ds)
<1>1. \A e \in Exits(st, ds) : e \in SampledExits(st, ds)
  <2> TAKE e \in Exits(st, ds)
  <2> DEFINE L == { r \in ds : st.remaining[r] < e }
             M == { r \in ds : st.remaining[r] <= e }
  <2>1. PICK x \in ds : st.remaining[x] = e
    BY DEF Exits
  <2>2. \A r \in ds : st.remaining[r] \in Nat
    BY DEF Store
  <2>3. /\ L \in SUBSET M /\ L \in SUBSET Requests /\ x \in M /\ x \notin L
        /\ M \in SUBSET ds
    BY <2>1, <2>2
  <2> HIDE DEF L, M
  <2>4. IsFiniteSet(M) /\ IsFiniteSet(ds) /\ Cardinality(ds) \in Nat
    BY <2>3, FiniteUniverse
  <2>5. Cardinality(L) \in Nat /\ Cardinality(M) \in Nat /\ Cardinality(L) < Cardinality(M)
    BY <2>3, <2>4, FS_Subset, FS_CardinalityType
  <2>6. Cardinality(M) <= Cardinality(ds)
    BY <2>3, <2>4, FS_Subset
  <2>7. Cardinality(L) \in SampleIndices(Cardinality(ds))
    BY <2>4, <2>5, <2>6, EveryIndexSampled
  <2>8. Cardinality(L) <= Cardinality(L)
    BY <2>5
  <2>. QED  BY <2>5, <2>7, <2>8 DEF SampledExits, L, M
<1>2. SampledExits(st, ds) = Exits(st, ds)
  BY <1>1, ExitsType
<1>. QED  BY <1>2 DEF ProjectedPeak, ReachedPeak

\* Between two exits the charge only grows: at no step is it above the peak.
LEMMA PeakBounds ==
    ASSUME NEW st \in Store, NEW ds \in SUBSET Requests, NEW e \in Nat
    PROVE  UnitsAfter(st, ds, e) <= ReachedPeak(st, ds)
<1> DEFINE D == { r \in ds : st.remaining[r] >= e }
<1>1. ReachedPeak(st, ds) \in Int /\ UnitsAfter(st, ds, e) \in Nat
  BY PeakType, ExitType
<1>2. CASE D = {}
  <2> DEFINE f == [r \in ds |-> st.context[r] + e]
  <2>1. UnitsAfter(st, ds, e) = SumOver(f, D)
    BY DEF UnitsAfter
  <2> HIDE DEF f, D
  <2>2. UnitsAfter(st, ds, e) = 0
    BY <1>2, <2>1, FS_EmptySet, SumZero
  <2>3. UnitsAfter(st, ds, 0) \in Nat /\ UnitsAfter(st, ds, 0) <= ReachedPeak(st, ds)
    BY ExitType, PeakIs
  <2>. QED  BY <1>1, <2>2, <2>3
<1>3. CASE D # {}
  <2> DEFINE R == { st.remaining[r] : r \in D }
  <2>1. R \in SUBSET Nat /\ R # {}
    <3>1. \A r \in D : st.remaining[r] \in Nat
      BY DEF Store
    <3> HIDE DEF D
    <3>. QED  BY <1>3, <3>1
  <2>2. PICK m \in R : \A n \in R : m <= n
    <3> HIDE DEF R
    <3>. QED  BY <2>1, LeastElement
  <2>3. m \in Nat /\ m >= e /\ m \in Exits(st, ds)
    BY <2>1, <2>2 DEF Exits
  <2>4. \A r \in ds : st.remaining[r] \in Nat /\ st.context[r] \in Nat
    BY DEF Store
  <2>5. { r \in ds : st.remaining[r] >= m } = D
    <3>1. \A r \in D : st.remaining[r] >= m
      BY <2>2, <2>3, <2>4
    <3>2. \A r \in ds : st.remaining[r] >= m => st.remaining[r] >= e
      BY <2>3, <2>4
    <3>. QED  BY <3>1, <3>2
  <2> DEFINE f == [r \in ds |-> st.context[r] + e]
             g == [r \in ds |-> st.context[r] + m]
  <2>6. IsFiniteSet(D) /\ \A r \in D : f[r] \in Int /\ g[r] \in Int /\ f[r] <= g[r]
    <3>1. IsFiniteSet(D)
      BY FiniteUniverse
    <3>. QED  BY <2>3, <2>4, <3>1
  <2>7. UnitsAfter(st, ds, e) = SumOver(f, D) /\ UnitsAfter(st, ds, m) = SumOver(g, D)
    BY <2>5 DEF UnitsAfter
  <2> HIDE DEF f, g, D, R
  <2>8. SumOver(f, D) <= SumOver(g, D)
    BY <2>6, SumMono
  <2>9. UnitsAfter(st, ds, m) <= ReachedPeak(st, ds) /\ UnitsAfter(st, ds, m) \in Nat
    BY <2>3, PeakIs, ExitType
  <2>. QED  BY <1>1, <2>7, <2>8, <2>9
<1>. QED  BY <1>2, <1>3

\* What bounds the charge at every step bounds the peak.
LEMMA PeakLeast ==
    ASSUME NEW st \in Store, NEW ds \in SUBSET Requests, NEW bound,
           \A e \in Nat : UnitsAfter(st, ds, e) <= bound
    PROVE  ReachedPeak(st, ds) <= bound
<1>1. Exits(st, ds) \in SUBSET Nat
  BY ExitsType
<1>2. PICK e \in {0} \cup Exits(st, ds) :
         ReachedPeak(st, ds) = UnitsAfter(st, ds, e)
  BY PeakIs
<1>. QED  BY <1>1, <1>2

\* What is resident is the charge at no step from now.
LEMMA ResidentBounded ==
    ASSUME NEW st \in Store, NEW ds \in SUBSET Requests
    PROVE  SumOver(st.context, ds) \in Nat /\ SumOver(st.context, ds) <= ReachedPeak(st, ds)
<1> DEFINE f == [r \in ds |-> st.context[r] + 0]
           D == { r \in ds : st.remaining[r] >= 0 }
<1>1. \A r \in ds : st.remaining[r] \in Nat /\ st.context[r] \in Nat
  BY DEF Store
<1>2. D = ds /\ IsFiniteSet(ds) /\ \A r \in ds : f[r] = st.context[r]
  BY <1>1, FiniteUniverse
<1>3. UnitsAfter(st, ds, 0) = SumOver(f, D)
  BY DEF UnitsAfter
<1> HIDE DEF f, D
<1>4. SumOver(f, ds) = SumOver(st.context, ds)
  BY <1>2, SumAgree
<1>5. UnitsAfter(st, ds, 0) \in Nat
  BY ExitType
<1>6. UnitsAfter(st, ds, 0) <= ReachedPeak(st, ds)
  BY PeakBounds
<1>. QED  BY <1>2, <1>3, <1>4, <1>5, <1>6

\* Some of the decodes, or the same ones of another store, peak no higher.
LEMMA PeakOfPart ==
    ASSUME NEW st \in Store, NEW new \in Store, NEW ds \in SUBSET Requests,
           NEW part \in SUBSET ds,
           \A r \in part : new.context[r] = st.context[r] /\ new.remaining[r] = st.remaining[r]
    PROVE  ReachedPeak(new, part) <= ReachedPeak(st, ds)
<1>. SUFFICES ASSUME NEW e \in Nat
     PROVE  UnitsAfter(new, part, e) <= ReachedPeak(st, ds)
  BY PeakLeast
<1> DEFINE f == [r \in part |-> new.context[r] + e]
           g == [r \in ds |-> st.context[r] + e]
           D == { r \in part : new.remaining[r] >= e }
<1>1. D \in SUBSET { r \in ds : st.remaining[r] >= e }
  OBVIOUS
<1>2. IsFiniteSet(D) /\ SumOver(g, D) <= UnitsAfter(st, ds, e)
  BY <1>1, ExitType
<1>3. \A r \in D : f[r] = g[r] /\ g[r] \in Int
  BY DEF Store
<1>4. UnitsAfter(new, part, e) = SumOver(f, D)
  BY DEF UnitsAfter
<1> HIDE DEF f, g, D
<1>5. SumOver(f, D) = SumOver(g, D) /\ SumOver(g, D) \in Int
  BY <1>2, <1>3, SumAgree, SumType
<1>6. UnitsAfter(st, ds, e) \in Nat
  BY ExitType
<1>7. UnitsAfter(st, ds, e) <= ReachedPeak(st, ds) /\ ReachedPeak(st, ds) \in Int
  BY PeakBounds, PeakType
<1>. QED  BY <1>2, <1>4, <1>5, <1>6, <1>7

\* One step later the decodes peak no higher: the charge after e steps is what
\* it was after e + 1.
LEMMA PeakAfterStep ==
    ASSUME NEW st \in Store, NEW new \in Store, NEW ds \in SUBSET Requests,
           \A r \in ds : /\ st.remaining[r] > 0
                         /\ new.context[r] = st.context[r] + 1
                         /\ new.remaining[r] = st.remaining[r] - 1
    PROVE  ReachedPeak(new, ds) <= ReachedPeak(st, ds)
<1>. SUFFICES ASSUME NEW e \in Nat
     PROVE  UnitsAfter(new, ds, e) <= ReachedPeak(st, ds)
  BY PeakLeast
<1> DEFINE f == [r \in ds |-> new.context[r] + e]
           g == [r \in ds |-> st.context[r] + (e + 1)]
           D == { r \in ds : new.remaining[r] >= e }
<1>1. \A r \in ds : st.remaining[r] \in Nat /\ st.context[r] \in Nat
  BY DEF Store
<1>2. D = { r \in ds : st.remaining[r] >= e + 1 }
  BY <1>1
<1>3. IsFiniteSet(D)
  BY FiniteUniverse
<1>4. \A r \in D : f[r] = g[r]
  BY <1>1
<1>5. UnitsAfter(new, ds, e) = SumOver(f, D)
  BY DEF UnitsAfter
<1>6. UnitsAfter(st, ds, e + 1) = SumOver(g, D)
  BY <1>2 DEF UnitsAfter
<1> HIDE DEF f, g, D
<1>7. SumOver(f, D) = SumOver(g, D)
  BY <1>3, <1>4, SumAgree
<1>8. e + 1 \in Nat
  OBVIOUS
<1>9. UnitsAfter(st, ds, e + 1) <= ReachedPeak(st, ds)
  BY <1>8, PeakBounds
<1>. QED  BY <1>5, <1>6, <1>7, <1>9

\* Decodes that join raise the peak by no more than what was promised for them.
LEMMA PeakOfJoined ==
    ASSUME NEW st \in Store, NEW ds \in SUBSET Requests, NEW on \in SUBSET Requests,
           ds \cap on = {}, NEW units,
           \A r \in on : units[r] \in Nat /\ st.context[r] + st.remaining[r] <= units[r]
    PROVE  /\ SumOver(units, on) \in Nat
           /\ ReachedPeak(st, ds \cup on) <= ReachedPeak(st, ds) + SumOver(units, on)
<1>1. IsFiniteSet(ds) /\ IsFiniteSet(on)
  BY FiniteUniverse
<1>2. SumOver(units, on) \in Nat
  BY <1>1, SumType
<1>3. ASSUME NEW e \in Nat
      PROVE  UnitsAfter(st, ds \cup on, e) <= ReachedPeak(st, ds) + SumOver(units, on)
  <2> DEFINE f == [r \in ds \cup on |-> st.context[r] + e]
             g == [r \in ds |-> st.context[r] + e]
             D == { r \in ds : st.remaining[r] >= e }
             O == { r \in on : st.remaining[r] >= e }
  <2>1. \A r \in ds \cup on : st.remaining[r] \in Nat /\ st.context[r] \in Nat
    BY DEF Store
  <2>2. /\ IsFiniteSet(D) /\ IsFiniteSet(O) /\ D \cap O = {} /\ O \in SUBSET on
        /\ { r \in ds \cup on : st.remaining[r] >= e } = D \cup O
    BY FiniteUniverse
  <2>3. /\ \A r \in D \cup O : f[r] \in Int
        /\ \A r \in D : f[r] = g[r]
        /\ \A r \in O : f[r] \in Int /\ units[r] \in Int /\ f[r] <= units[r]
    BY <2>1
  <2>4. UnitsAfter(st, ds, e) = SumOver(g, D)
    BY DEF UnitsAfter
  <2>5. UnitsAfter(st, ds \cup on, e) = SumOver(f, D \cup O)
    BY <2>2 DEF UnitsAfter
  <2> HIDE DEF f, g, D, O
  <2>6. SumOver(f, D \cup O) = SumOver(f, D) + SumOver(f, O)
    BY <2>2, <2>3, SumUnion
  <2>7. SumOver(f, D) = SumOver(g, D)
    BY <2>2, <2>3, SumAgree
  <2>8. SumOver(f, O) <= SumOver(units, O)
    BY <2>2, <2>3, SumMono
  <2>9. SumOver(units, O) <= SumOver(units, on)
    BY <1>1, <2>2, SumSubset
  <2>10. UnitsAfter(st, ds, e) \in Nat
    BY ExitType
  <2>11. UnitsAfter(st, ds, e) <= ReachedPeak(st, ds) /\ ReachedPeak(st, ds) \in Int
    BY PeakBounds, PeakType
  <2>12. SumOver(f, O) \in Int /\ SumOver(units, O) \in Int
    BY <2>2, <2>3, SumType
  <2>. QED  BY <1>2, <2>4, <2>5, <2>6, <2>7, <2>8, <2>9, <2>10, <2>11, <2>12
<1>4. ds \cup on \in SUBSET Requests
  OBVIOUS
<1>5. ReachedPeak(st, ds \cup on) <= ReachedPeak(st, ds) + SumOver(units, on)
  BY <1>3, <1>4, PeakLeast
<1>. QED  BY <1>2, <1>5

-----------------------------------------------------------------------------
(* The retained tier stays within what the hard tier leaves. *)

\* shrink_to leaves no more than its limit.
LEMMA ShrunkBounded ==
    ASSUME NEW entries \in [Sessions -> Nat], NEW limit \in Nat,
           NEW kept \in Shrunk(entries, limit)
    PROVE  SumOver(kept, Sessions) \in Nat /\ SumOver(kept, Sessions) <= limit
<1>1. kept \in [Sessions -> Nat]
  BY ShrunkType
<1>2. SumOver(kept, Sessions) \in Nat
  BY <1>1, FiniteUniverse, SumType
<1>3. PICK T \in SUBSET Sessions :
         /\ kept = Keeping(entries, T)
         /\ ~(SumOver(Keeping(entries, T), Sessions) > Smaller(MaxRetained, limit))
  BY DEF Shrunk
<1>4. Smaller(MaxRetained, limit) \in Nat /\ Smaller(MaxRetained, limit) <= limit
  BY StoreAssumption DEF Smaller
<1>. QED  BY <1>2, <1>3, <1>4

\* The totals after a promise: the request's partition has reserved it, and has
\* room for the prefixes it still retains.
LEMMA ReservedTotals ==
    ASSUME NEW st \in Store, NEW r \in Requests, NEW p \in Partitions,
           NEW units \in Nat, NEW new \in Reserved(st, r, p, units)
    PROVE  /\ \A q \in Partitions : new.reserved[q] =
                 IF q = p THEN st.reserved[q] + units ELSE st.reserved[q]
           /\ new.held = st.held /\ new.heldOn = st.heldOn
           /\ new.heldUnits = st.heldUnits
           /\ new.resident = st.resident /\ new.peak = st.peak
           /\ \A q \in Partitions : q # p => new.cache[q] = st.cache[q]
           /\ CacheUnits(new, p) \in Nat
           /\ CacheUnits(new, p) <= SoftSlack(new, p)
<1> DEFINE promised == Promise(st, r, p, units)
<1>1. promised \in Store
  BY PromiseType
<1>2. /\ promised.reserved = [st.reserved EXCEPT ![p] = st.reserved[p] + units]
      /\ promised.held = st.held /\ promised.heldOn = st.heldOn
      /\ promised.heldUnits = st.heldUnits
      /\ promised.resident = st.resident /\ promised.peak = st.peak
      /\ promised.cache = st.cache
  BY DEF Promise, Store
<1>3. PICK entries \in Shrunk(st.cache[p], SoftSlack(promised, p)) :
         new = [promised EXCEPT !.cache[p] = entries]
  BY DEF Reserved
<1> HIDE DEF promised
<1>4. SoftSlack(promised, p) \in Nat /\ st.cache[p] \in [Sessions -> Nat]
  BY <1>1, SoftSlackType DEF Store
<1>5. SumOver(entries, Sessions) \in Nat /\ SumOver(entries, Sessions) <= SoftSlack(promised, p)
  BY <1>4, ShrunkBounded
<1>6. /\ new.reserved = promised.reserved /\ new.held = promised.held
      /\ new.heldOn = promised.heldOn /\ new.heldUnits = promised.heldUnits
      /\ new.resident = promised.resident /\ new.peak = promised.peak
      /\ new.cache[p] = entries
      /\ \A q \in Partitions : q # p => new.cache[q] = promised.cache[q]
  BY <1>1, <1>3 DEF Store
<1>7. SoftSlack(new, p) = SoftSlack(promised, p)
  BY <1>6 DEF SoftSlack, NonCachePeak
<1>8. \A q \in Partitions : new.reserved[q] =
         IF q = p THEN st.reserved[q] + units ELSE st.reserved[q]
  BY <1>2, <1>6 DEF Store, Totals
<1>. QED  BY <1>2, <1>5, <1>6, <1>7, <1>8 DEF CacheUnits

\* The same of reserve_prefill_context, whose hit only makes room.
LEMMA ReservedPrefillTotals ==
    ASSUME NEW st \in Store, NEW r \in Requests, NEW p \in Partitions,
           NEW units \in Nat, NEW new \in ReservedPrefill(st, r, p, units)
    PROVE  /\ \A q \in Partitions : new.reserved[q] =
                 IF q = p THEN st.reserved[q] + units ELSE st.reserved[q]
           /\ new.held = st.held /\ new.heldOn = st.heldOn
           /\ new.heldUnits = st.heldUnits
           /\ new.resident = st.resident /\ new.peak = st.peak
           /\ \A q \in Partitions : q # p => new.cache[q] = st.cache[q]
           /\ CacheUnits(new, p) \in Nat
           /\ CacheUnits(new, p) <= SoftSlack(new, p)
<1>1. CASE HasSession(r)
  <2> DEFINE bare == [st EXCEPT !.cache[p][SessionOf[r]] = 0]
  <2>1. SessionOf[r] \in Sessions
    BY <1>1, WorkloadType DEF HasSession
  <2>2. bare \in Store
    BY <2>1 DEF Store
  <2>3. /\ bare.reserved = st.reserved /\ bare.held = st.held
        /\ bare.heldOn = st.heldOn /\ bare.heldUnits = st.heldUnits
        /\ bare.resident = st.resident /\ bare.peak = st.peak
        /\ \A q \in Partitions : q # p => bare.cache[q] = st.cache[q]
    BY <2>1 DEF Store
  <2>4. new \in Reserved(bare, r, p, units)
    BY <1>1 DEF ReservedPrefill
  <2> HIDE DEF bare
  <2>5. /\ \A q \in Partitions : new.reserved[q] =
              IF q = p THEN bare.reserved[q] + units ELSE bare.reserved[q]
        /\ new.held = bare.held /\ new.heldOn = bare.heldOn
        /\ new.heldUnits = bare.heldUnits
        /\ new.resident = bare.resident /\ new.peak = bare.peak
        /\ \A q \in Partitions : q # p => new.cache[q] = bare.cache[q]
        /\ CacheUnits(new, p) \in Nat
        /\ CacheUnits(new, p) <= SoftSlack(new, p)
    BY <2>2, <2>4, ReservedTotals
  <2>. QED  BY <2>3, <2>5
<1>2. CASE ~HasSession(r)
  BY <1>2, ReservedTotals DEF ReservedPrefill
<1>. QED  BY <1>1, <1>2

\* insert: the kept prefix and what survives next to it fit the limit together.
LEMMA RetainedTotals ==
    ASSUME NEW st \in Store, NEW p \in Partitions, NEW s \in Sessions,
           NEW tokens \in Nat, NEW new \in Retained(st, p, s, tokens)
    PROVE  /\ \A q \in Partitions : q # p => new.cache[q] = st.cache[q]
           /\ CacheUnits(new, p) \in Nat
           /\ CacheUnits(new, p) <= SoftSlack(st, p)
<1> DEFINE cap  == Smaller(MaxRetained, SoftSlack(st, p))
           kept == Smaller(tokens, cap)
           rest == [st.cache[p] EXCEPT ![s] = 0]
<1>1. cap \in Nat /\ kept \in Nat /\ kept <= cap /\ cap - kept \in Nat
      /\ cap <= SoftSlack(st, p) /\ SoftSlack(st, p) \in Nat
  BY SoftSlackType, StoreAssumption DEF Smaller
<1>2. rest \in [Sessions -> Nat] /\ rest[s] = 0
  BY DEF Store
<1>3. PICK entries \in Shrunk(rest, cap - kept) :
         new = [st EXCEPT !.cache[p] = [entries EXCEPT ![s] = kept]]
  BY DEF Retained
<1> HIDE DEF cap, kept, rest
<1>4. entries \in [Sessions -> Nat]
  BY <1>2, ShrunkType
<1>5. entries[s] = 0
  BY <1>2, <1>3 DEF Shrunk, Keeping
<1>6. SumOver(entries, Sessions) \in Nat /\ SumOver(entries, Sessions) <= cap - kept
  BY <1>1, <1>2, ShrunkBounded
<1> DEFINE after == [entries EXCEPT ![s] = kept]
<1>7. after \in [Sessions -> Nat] /\ after[s] = kept
      /\ \A t \in Sessions \ {s} : after[t] = entries[t]
  BY <1>1, <1>4
<1>8. /\ new.cache[p] = after
      /\ \A q \in Partitions : q # p => new.cache[q] = st.cache[q]
  BY <1>3 DEF Store
<1> HIDE DEF after
<1>9. IsFiniteSet(Sessions) /\ IsFiniteSet(Sessions \ {s})
  BY FiniteUniverse
<1>10. SumOver(after, Sessions) = kept + SumOver(after, Sessions \ {s})
  BY <1>7, <1>9, SumRemove
<1>11. SumOver(entries, Sessions) = 0 + SumOver(entries, Sessions \ {s})
  BY <1>4, <1>5, <1>9, SumRemove
<1>12. SumOver(after, Sessions \ {s}) = SumOver(entries, Sessions \ {s})
  BY <1>7, <1>9, SumAgree
<1>13. SumOver(entries, Sessions \ {s}) \in Nat
  BY <1>4, <1>9, SumType
<1>14. SumOver(after, Sessions) = kept + SumOver(entries, Sessions)
  BY <1>10, <1>11, <1>12, <1>13
<1>15. SumOver(after, Sessions) \in Nat /\ SumOver(after, Sessions) <= SoftSlack(st, p)
  BY <1>1, <1>6, <1>14
<1>. QED  BY <1>8, <1>15 DEF CacheUnits

\* What the soft tier is left with and the hard tier fit the partition.
LEMMA SoftSlackBound ==
    ASSUME NEW st \in Store, NEW p \in Partitions, st.resident[p] <= st.peak[p],
           st.peak[p] + st.reserved[p] + st.heldUnits[p] <= Capacity
    PROVE  st.peak[p] + st.reserved[p] + st.heldUnits[p] + SoftSlack(st, p) = Capacity
<1>1. /\ st.resident[p] \in Int /\ st.peak[p] \in Int /\ st.reserved[p] \in Int
      /\ st.heldUnits[p] \in Int /\ Capacity \in Int
  BY StoreAssumption DEF Store, Totals
<1>2. Larger(st.resident[p], st.peak[p]) = st.peak[p]
  BY <1>1 DEF Larger
<1>3. NonCachePeak(st, p) = st.peak[p] + st.reserved[p] + st.heldUnits[p]
  BY <1>2 DEF NonCachePeak
<1> DEFINE n == st.peak[p] + st.reserved[p] + st.heldUnits[p]
<1>4. n \in Int /\ n <= Capacity
  BY <1>1
<1> HIDE DEF n
<1>5. n + SaturatingSub(Capacity, n) = Capacity
  BY <1>1, <1>4 DEF SaturatingSub
<1>. QED  BY <1>3, <1>5 DEF n, SoftSlack

-----------------------------------------------------------------------------
(* The running totals under the other operations of the store. *)

\* Two stores whose decodes agree have the same peak, projected or reached.
LEMMA PeakCongruence ==
    ASSUME NEW a, NEW b, NEW ds, a.context = b.context, a.remaining = b.remaining
    PROVE  /\ ProjectedPeak(a, ds) = ProjectedPeak(b, ds)
           /\ ReachedPeak(a, ds) = ReachedPeak(b, ds)
<1>1. /\ Exits(a, ds) = Exits(b, ds)
      /\ \A e : UnitsAfter(a, ds, e) = UnitsAfter(b, ds, e)
  BY DEF Exits, UnitsAfter
<1>2. SampledExits(a, ds) = SampledExits(b, ds)
  BY <1>1 DEF SampledExits
<1>3. \A steps : HighestAfter(a, ds, steps) = HighestAfter(b, ds, steps)
  BY <1>1 DEF HighestAfter
<1>. QED  BY <1>1, <1>2, <1>3 DEF ProjectedPeak, ReachedPeak

\* drain_ready takes every promise out of the reserved total.
LEMMA DrainReadyTotals ==
    ASSUME NEW st \in Store
    PROVE  LET new == DrainReady(st)
           IN  /\ \A q \in Partitions :
                     new.reserved[q] = st.reserved[q] - SumOver(st.promised, PlacedOn(st, q))
               /\ new.held = st.held /\ new.heldOn = st.heldOn
               /\ new.heldUnits = st.heldUnits
               /\ new.resident = st.resident /\ new.peak = st.peak
               /\ new.cache = st.cache
<1>1. \A q \in Partitions : Requests \cap PlacedOn(st, q) = PlacedOn(st, q)
  BY DEF PlacedOn
<1>. QED  BY <1>1 DEF DrainReady, WithoutPromises, Store

\* advance adds a token for every live decode of a partition.
LEMMA AdvancedTotals ==
    ASSUME NEW st \in Store, NEW live
    PROVE  LET new == Advanced(st, live)
           IN  /\ \A q \in Partitions : new.resident[q] =
                     st.resident[q] + Cardinality(live \cap st.decodes[q])
               /\ new.held = st.held /\ new.heldOn = st.heldOn
               /\ new.heldUnits = st.heldUnits
               /\ new.reserved = st.reserved /\ new.peak = st.peak
               /\ new.cache = st.cache
BY DEF Advanced, Store

\* commit_resident moves promises to the resident total and projects the peak
\* anew where a decode has begun.
LEMMA CommittedTotals ==
    ASSUME NEW st \in Store, NEW S, NEW tokens, NEW left
    PROVE  LET new == Committed(st, S, tokens, left)
               on(q) == S \cap PlacedOn(st, q)
           IN  /\ \A q \in Partitions :
                     /\ new.reserved[q] = st.reserved[q] - SumOver(st.promised, on(q))
                     /\ new.resident[q] = st.resident[q] + SumOver(tokens, on(q))
                     /\ on(q) = {} => new.peak[q] = st.peak[q]
                     /\ on(q) # {} => new.peak[q] = ProjectedPeak(new, new.decodes[q])
               /\ new.held = st.held /\ new.heldOn = st.heldOn
               /\ new.heldUnits = st.heldUnits
               /\ new.cache = st.cache
<1> DEFINE on(q) == S \cap PlacedOn(st, q)
           bare == WithoutPromises(st, S)
           begun == [bare EXCEPT
              !.decodes = [p \in Partitions |-> st.decodes[p] \cup on(p)],
              !.context = [r \in Requests |-> IF r \in S THEN tokens[r] ELSE st.context[r]],
              !.remaining = [r \in Requests |-> IF r \in S THEN left[r] ELSE st.remaining[r]],
              !.resident = [p \in Partitions |-> st.resident[p] + SumOver(tokens, on(p))]]
           peak == [p \in Partitions |-> IF on(p) = {} THEN st.peak[p]
                                         ELSE ProjectedPeak(begun, begun.decodes[p])]
           new == [begun EXCEPT !.peak = peak]
<1>1. Committed(st, S, tokens, left) = new
  BY DEF Committed
<1>2. /\ bare.reserved = [p \in Partitions |-> st.reserved[p] - SumOver(st.promised, on(p))]
      /\ bare.held = st.held /\ bare.heldOn = st.heldOn
      /\ bare.heldUnits = st.heldUnits /\ bare.cache = st.cache
      /\ DOMAIN bare = DOMAIN st
  BY DEF WithoutPromises, Store
<1>3. { "decodes", "context", "remaining", "resident", "peak", "reserved", "held",
        "heldOn", "heldUnits", "cache" } \subseteq DOMAIN bare
  BY <1>2 DEF Store
<1> HIDE DEF bare, on
<1>4. /\ begun.reserved = bare.reserved /\ begun.held = bare.held
      /\ begun.heldOn = bare.heldOn /\ begun.heldUnits = bare.heldUnits
      /\ begun.cache = bare.cache
      /\ begun.resident = [p \in Partitions |-> st.resident[p] + SumOver(tokens, on(p))]
      /\ DOMAIN begun = DOMAIN bare
  BY <1>3
<1> HIDE DEF begun
<1>5. /\ new.reserved = begun.reserved /\ new.held = begun.held
      /\ new.heldOn = begun.heldOn /\ new.heldUnits = begun.heldUnits
      /\ new.cache = begun.cache /\ new.resident = begun.resident
      /\ new.decodes = begun.decodes /\ new.context = begun.context
      /\ new.remaining = begun.remaining
      /\ new.peak = peak
  BY <1>3, <1>4
<1> HIDE DEF new
<1>6. \A ds : ProjectedPeak(new, ds) = ProjectedPeak(begun, ds)
  BY <1>5, PeakCongruence
<1>7. \A q \in Partitions :
         /\ new.reserved[q] = st.reserved[q] - SumOver(st.promised, on(q))
         /\ new.resident[q] = st.resident[q] + SumOver(tokens, on(q))
         /\ on(q) = {} => new.peak[q] = st.peak[q]
         /\ on(q) # {} => new.peak[q] = ProjectedPeak(new, new.decodes[q])
  BY <1>2, <1>4, <1>5, <1>6
<1>. QED  BY <1>1, <1>2, <1>4, <1>5, <1>7 DEF on

\* release takes a decode out of the resident total and projects the peak of
\* those that stay.
LEMMA ReleasedTotals ==
    ASSUME NEW st \in Store, NEW r \in Requests, NEW p \in Partitions,
           st.held[r] = 0, st.promised[r] = 0
    PROVE  LET new == Released(st, r, p)
           IN  /\ new.reserved = st.reserved /\ new.held = st.held
               /\ new.heldOn = st.heldOn /\ new.heldUnits = st.heldUnits
               /\ r \in st.decodes[p] =>
                     /\ new.resident[p] = st.resident[p] - st.context[r]
                     /\ new.peak[p] = ProjectedPeak(st, st.decodes[p] \ {r})
               /\ r \notin st.decodes[p] =>
                     new.resident[p] = st.resident[p] /\ new.peak[p] = st.peak[p]
               /\ \A q \in Partitions : q # p =>
                     new.resident[q] = st.resident[q] /\ new.peak[q] = st.peak[q]
<1> DEFINE unpromised == WithoutPromises(st, {r})
           bare == ReleaseDecode(unpromised, r, p)
           new == Released(st, r, p)
<1>1. new = [bare EXCEPT !.placement[r] = NoPartition]
  BY DEF Released, TakeHeld
<1>2. /\ unpromised \in Store /\ unpromised.held = st.held
      /\ unpromised.heldOn = st.heldOn /\ unpromised.heldUnits = st.heldUnits
      /\ unpromised.decodes = st.decodes /\ unpromised.context = st.context
      /\ unpromised.remaining = st.remaining
      /\ unpromised.resident = st.resident /\ unpromised.peak = st.peak
  <2>1. unpromised \in Store
    BY WithoutPromisesType
  <2>. QED  BY <2>1 DEF WithoutPromises, Store
<1>3. unpromised.reserved = st.reserved
  <2>1. \A q \in Partitions : SumOver(st.promised, {r} \cap PlacedOn(st, q)) = 0
    <3>1. IsFiniteSet({r})
      BY FS_Singleton
    <3>2. \A q \in Partitions : IsFiniteSet({r} \cap PlacedOn(st, q))
      BY <3>1, FS_Subset
    <3>. QED  BY <3>2, SumZero
  <2>2. unpromised.reserved = [q \in Partitions |->
           st.reserved[q] - SumOver(st.promised, {r} \cap PlacedOn(st, q))]
    BY DEF WithoutPromises, Store
  <2>3. st.reserved \in [Partitions -> Int] /\ unpromised.reserved \in [Partitions -> Int]
    BY <1>2 DEF Store, Totals
  <2> HIDE DEF unpromised
  <2>4. \A q \in Partitions : unpromised.reserved[q] = st.reserved[q]
    <3>1. \A q \in Partitions : unpromised.reserved[q] =
             st.reserved[q] - SumOver(st.promised, {r} \cap PlacedOn(st, q))
      BY <2>2
    <3>2. \A n \in Int : n - 0 = n
      OBVIOUS
    <3>. QED  BY <2>1, <2>3, <3>1, <3>2
  <2>. QED  BY <2>3, <2>4
<1> HIDE DEF unpromised
<1>4. \A ds : ProjectedPeak(unpromised, ds) = ProjectedPeak(st, ds)
  BY <1>2, PeakCongruence
<1>5. /\ bare \in Store /\ bare.held = st.held /\ bare.heldOn = st.heldOn
      /\ bare.heldUnits = st.heldUnits /\ bare.reserved = st.reserved
  <2>1. bare \in Store
    BY <1>2, ReleaseDecodeType
  <2>. QED  BY <1>2, <1>3, <2>1 DEF ReleaseDecode, Store
<1>6. CASE r \in st.decodes[p]
  <2> DEFINE stay == st.decodes[p] \ {r}
  <2>1. bare = [unpromised EXCEPT !.decodes[p]   = stay,
                                  !.context[r]   = 0,
                                  !.remaining[r] = 0,
                                  !.resident[p]  = @ - unpromised.context[r],
                                  !.peak[p]      = ProjectedPeak(unpromised, stay)]
    BY <1>2, <1>6 DEF ReleaseDecode
  <2> HIDE DEF stay
  <2>2. /\ bare.resident = [st.resident EXCEPT ![p] = st.resident[p] - st.context[r]]
        /\ bare.peak = [st.peak EXCEPT ![p] = ProjectedPeak(st, stay)]
    <3>1. /\ unpromised.resident = st.resident /\ unpromised.context = st.context
          /\ unpromised.peak = st.peak /\ ProjectedPeak(unpromised, stay) = ProjectedPeak(st, stay)
      BY <1>2, <1>4
    <3>2. bare.resident = [unpromised.resident EXCEPT ![p] =
                              unpromised.resident[p] - unpromised.context[r]]
      BY <1>2, <2>1, SMTT(30) DEF Store
    <3>3. bare.peak = [unpromised.peak EXCEPT ![p] = ProjectedPeak(unpromised, stay)]
      BY <1>2, <2>1, SMTT(30) DEF Store
    <3> HIDE DEF unpromised, bare
    <3>. QED  BY ONLY <3>1, <3>2, <3>3
  <2> HIDE DEF bare
  <2>3. new.resident = bare.resident /\ new.peak = bare.peak
    BY <1>1, <1>5 DEF Store
  <2>4. st.resident \in [Partitions -> Int] /\ st.peak \in [Partitions -> Int]
    BY DEF Store, Totals
  <2>5. /\ new.resident[p] = st.resident[p] - st.context[r]
        /\ new.peak[p] = ProjectedPeak(st, stay)
        /\ \A q \in Partitions : q # p =>
              new.resident[q] = st.resident[q] /\ new.peak[q] = st.peak[q]
    BY <2>2, <2>3, <2>4
  <2>6. /\ new.reserved = st.reserved /\ new.held = st.held
        /\ new.heldOn = st.heldOn /\ new.heldUnits = st.heldUnits
    BY <1>1, <1>5 DEF Store
  <2> HIDE DEF new
  <2>. QED  BY <1>6, <2>5, <2>6 DEF new, stay
<1>7. CASE r \notin st.decodes[p]
  <2>1. bare = unpromised
    BY <1>2, <1>7 DEF ReleaseDecode
  <2> HIDE DEF bare
  <2>2. /\ new.reserved = st.reserved /\ new.held = st.held
        /\ new.heldOn = st.heldOn /\ new.heldUnits = st.heldUnits
        /\ new.resident = st.resident /\ new.peak = st.peak
    BY <1>1, <1>2, <1>5, <2>1 DEF Store
  <2> HIDE DEF new
  <2>. QED  BY <1>7, <2>2 DEF new
<1>. QED  BY <1>6, <1>7

-----------------------------------------------------------------------------
(* A store whose prefills are handed over (PrefillHandoffAdmission).  At the *)
(* end of a tick nothing is promised, what is placed is being prefilled, and *)
(* what is held is the context of a request.                                 *)

Contexts == [r \in Requests |-> ContextOf(r)]

HeldOn(st, p) == { r \in Requests : st.heldOn[r] = p }

\* One prefill runs, on p.
OnlyAdmits(st, r, p) ==
    \A q \in Partitions : st.admits[q] = IF q = p THEN {r} ELSE {}

HandsOver(st) ==
    /\ st \in Store
    /\ \A r \in Requests :
          /\ st.promised[r] = 0
          /\ st.held[r] \in {0, ContextOf(r)}
          /\ st.heldOn[r] \in Partitions <=> st.held[r] > 0
    /\ \A p \in Partitions :
          /\ PlacedOn(st, p) = st.admits[p]
          /\ st.decodes[p] = {}
          /\ st.reserved[p] = 0 /\ st.resident[p] = 0 /\ st.peak[p] = 0
          /\ st.heldUnits[p] = SumOver(st.held, HeldOn(st, p))
          /\ st.heldUnits[p] + CacheUnits(st, p) + SumOver(Contexts, st.admits[p])
                <= Capacity

\* The sums of such a store are numbers.
LEMMA HandsOverType ==
    ASSUME NEW st \in Store, NEW p \in Partitions
    PROVE  /\ CacheUnits(st, p) \in Nat
           /\ \A S \in SUBSET Requests :
                 /\ SumOver(Contexts, S) \in Nat
                 /\ SumOver(st.held, S) \in Nat
           /\ HeldOn(st, p) \in SUBSET Requests /\ PlacedOn(st, p) \in SUBSET Requests
           /\ st.heldUnits[p] \in Int /\ Capacity \in Nat
<1>1. /\ \A r \in Requests : Contexts[r] \in Nat /\ st.held[r] \in Nat
      /\ \A s \in Sessions : st.cache[p][s] \in Nat
      /\ st.heldUnits[p] \in Int
  BY WorkloadType DEF Contexts, Store, Totals
<1>2. CacheUnits(st, p) \in Nat
  BY <1>1, FiniteUniverse, SumType DEF CacheUnits
<1>3. ASSUME NEW S \in SUBSET Requests
      PROVE  SumOver(Contexts, S) \in Nat /\ SumOver(st.held, S) \in Nat
  BY <1>1, FiniteUniverse, SumType
<1>. QED  BY <1>1, <1>2, <1>3, StoreAssumption DEF HeldOn, PlacedOn

\* A new store hands over.
LEMMA EmptyHandsOver == HandsOver(EmptyStore)
<1> DEFINE st == EmptyStore
<1>1. st \in Store
  BY EmptyStoreType
<1>2. \A r \in Requests : st.promised[r] = 0 /\ st.held[r] = 0 /\ st.heldOn[r] = NoPartition
                          /\ st.placement[r] = NoPartition
  BY DEF EmptyStore
<1>3. ASSUME NEW p \in Partitions
      PROVE  /\ PlacedOn(st, p) = {} /\ HeldOn(st, p) = {} /\ st.admits[p] = {}
             /\ st.decodes[p] = {}
             /\ st.reserved[p] = 0 /\ st.resident[p] = 0 /\ st.peak[p] = 0
             /\ st.heldUnits[p] = 0 /\ \A s \in Sessions : st.cache[p][s] = 0
  <2>1. p # NoPartition
    BY StoreAssumption DEF Partitions
  <2>2. PlacedOn(st, p) = {} /\ HeldOn(st, p) = {}
    BY <1>2, <2>1 DEF PlacedOn, HeldOn
  <2>. QED  BY <2>2 DEF EmptyStore
<1> HIDE DEF st
<1>4. ASSUME NEW p \in Partitions
      PROVE  /\ CacheUnits(st, p) = 0 /\ SumOver(st.held, {}) = 0 /\ SumOver(Contexts, {}) = 0
  BY <1>3, FiniteUniverse, FS_EmptySet, SumZero DEF CacheUnits
<1>5. \A r \in Requests : st.heldOn[r] \notin Partitions
  BY <1>2, StoreAssumption DEF Partitions
<1>6. \A r \in Requests : /\ st.promised[r] = 0 /\ st.held[r] \in {0, ContextOf(r)}
                          /\ st.heldOn[r] \in Partitions <=> st.held[r] > 0
  BY <1>2, <1>5
<1>7. ASSUME NEW p \in Partitions
      PROVE  /\ st.heldUnits[p] = SumOver(st.held, HeldOn(st, p))
             /\ st.heldUnits[p] + CacheUnits(st, p) + SumOver(Contexts, st.admits[p]) <= Capacity
  <2>1. SumOver(st.held, HeldOn(st, p)) = 0
    BY <1>3, <1>4
  <2>2. SumOver(Contexts, st.admits[p]) = 0
    BY <1>3, <1>4
  <2>. QED  BY <1>3, <1>4, <2>1, <2>2, StoreAssumption
<1>8. HandsOver(st)
  BY <1>1, <1>3, <1>6, <1>7 DEF HandsOver
<1>. QED  BY <1>8 DEF st

\* insert takes no more than it was given.
LEMMA RetainedGrowth ==
    ASSUME NEW st \in Store, NEW p \in Partitions, NEW s \in Sessions,
           NEW tokens \in Nat, NEW new \in Retained(st, p, s, tokens)
    PROVE  CacheUnits(new, p) <= CacheUnits(st, p) + tokens
<1> DEFINE cap  == Smaller(MaxRetained, SoftSlack(st, p))
           kept == Smaller(tokens, cap)
           rest == [st.cache[p] EXCEPT ![s] = 0]
<1>1. kept \in Nat /\ kept <= tokens
  BY SoftSlackType, StoreAssumption DEF Smaller
<1>2. /\ rest \in [Sessions -> Nat] /\ rest[s] = 0 /\ st.cache[p] \in [Sessions -> Nat]
      /\ \A t \in Sessions : rest[t] <= st.cache[p][t]
  BY DEF Store
<1>3. PICK entries \in Shrunk(rest, cap - kept) :
         new = [st EXCEPT !.cache[p] = [entries EXCEPT ![s] = kept]]
  BY DEF Retained
<1> HIDE DEF cap, kept, rest
<1>4. entries \in [Sessions -> Nat] /\ \A t \in Sessions : entries[t] <= rest[t]
  <2>1. PICK S : entries = Keeping(rest, S)
    BY <1>3 DEF Shrunk
  <2>. QED  BY <1>2, <2>1 DEF Keeping
<1> DEFINE after == [entries EXCEPT ![s] = kept]
<1>5. after \in [Sessions -> Nat] /\ after[s] = kept
      /\ \A t \in Sessions \ {s} : after[t] = entries[t]
  BY <1>1, <1>4
<1>6. new.cache[p] = after
  BY <1>3 DEF Store
<1> HIDE DEF after
<1>7. IsFiniteSet(Sessions) /\ IsFiniteSet(Sessions \ {s})
  BY FiniteUniverse
<1>8. SumOver(after, Sessions) = kept + SumOver(after, Sessions \ {s})
  BY <1>5, <1>7, SumRemove
<1>9. SumOver(after, Sessions \ {s}) <= SumOver(st.cache[p], Sessions \ {s})
  <2>1. \A t \in Sessions \ {s} : /\ after[t] \in Int /\ st.cache[p][t] \in Int
                                  /\ after[t] <= st.cache[p][t]
    BY <1>2, <1>4, <1>5
  <2>. QED  BY <1>7, <2>1, SumMono
<1>10. SumOver(st.cache[p], Sessions) = st.cache[p][s] + SumOver(st.cache[p], Sessions \ {s})
  BY <1>2, <1>7, SumRemove
<1>11. /\ SumOver(st.cache[p], Sessions \ {s}) \in Nat /\ st.cache[p][s] \in Nat
       /\ SumOver(after, Sessions \ {s}) \in Nat
  BY <1>2, <1>5, <1>7, SumType
<1>. QED  BY <1>1, <1>6, <1>8, <1>9, <1>10, <1>11 DEF CacheUnits

\* The KV of a prefill is held for its pull.
LEMMA HoldHandsOver ==
    ASSUME NEW st, HandsOver(st), NEW r \in Requests, NEW p \in Partitions,
           ContextOf(r) > 0, st.held[r] = 0,
           OnlyAdmits(st, r, p)
    PROVE  LET new == ClearPrefillAdmits(Hold(st, r, p, ContextOf(r)))
           IN  /\ HandsOver(new)
               /\ new.admits = [q \in Partitions |-> {}]
               /\ new.held = [st.held EXCEPT ![r] = ContextOf(r)]
<1> DEFINE units == ContextOf(r)
           new == ClearPrefillAdmits(Hold(st, r, p, units))
<1> USE DEF OnlyAdmits
<1>1. st \in Store /\ units \in Nat /\ units > 0 /\ p # NoPartition
  BY WorkloadType, StoreAssumption DEF HandsOver, Partitions
<1>2. /\ new.admits = [q \in Partitions |-> {}] /\ new.decodes = st.decodes
      /\ new.promised = st.promised /\ new.reserved = st.reserved
      /\ new.resident = st.resident /\ new.peak = st.peak /\ new.cache = st.cache
      /\ new.placement = [st.placement EXCEPT ![r] = NoPartition]
      /\ new.held = [st.held EXCEPT ![r] = units]
      /\ new.heldOn = [st.heldOn EXCEPT ![r] = p]
      /\ new.heldUnits = [st.heldUnits EXCEPT ![p] = @ + units]
  BY <1>1 DEF ClearPrefillAdmits, Hold, Store
<1>3. new \in Store
  <2>1. /\ [st.heldUnits EXCEPT ![p] = @ + units] \in Totals
        /\ [st.held EXCEPT ![r] = units] \in [Requests -> Nat]
        /\ [st.heldOn EXCEPT ![r] = p] \in [Requests -> Partitions \cup {NoPartition}]
        /\ [st.placement EXCEPT ![r] = NoPartition] \in [Requests -> Partitions \cup {NoPartition}]
    BY <1>1 DEF Store, Totals
  <2>2. Hold(st, r, p, units) \in Store
    BY <1>1, <2>1 DEF Hold, Store
  <2>. QED  BY <2>2, ClearPrefillAdmitsFields
<1> HIDE DEF new
<1>4. \A q \in Requests : /\ new.promised[q] = 0 /\ new.held[q] \in {0, ContextOf(q)}
                          /\ new.heldOn[q] \in Partitions <=> new.held[q] > 0
  BY <1>1, <1>2 DEF HandsOver, Store
<1>5. ASSUME NEW q \in Partitions
      PROVE  /\ PlacedOn(new, q) = {}
             /\ HeldOn(new, q) = IF q = p THEN HeldOn(st, q) \cup {r} ELSE HeldOn(st, q)
             /\ r \notin HeldOn(st, q)
  <2>1. PlacedOn(st, q) = IF q = p THEN {r} ELSE {}
    BY DEF HandsOver
  <2>2. PlacedOn(new, q) = PlacedOn(st, q) \ {r}
    BY <1>1, <1>2, StoreAssumption DEF PlacedOn, Store, Partitions
  <2>3. st.heldOn[r] \notin Partitions
    BY DEF HandsOver
  <2>4. r \notin HeldOn(st, q)
    BY <2>3 DEF HeldOn
  <2>5. HeldOn(new, q) = IF q = p THEN HeldOn(st, q) \cup {r} ELSE HeldOn(st, q)
    BY <1>1, <1>2, <2>4 DEF HeldOn, Store
  <2>. QED  BY <2>1, <2>2, <2>4, <2>5
<1>6. ASSUME NEW q \in Partitions
      PROVE  SumOver(new.held, HeldOn(new, q)) =
               SumOver(st.held, HeldOn(st, q)) + (IF q = p THEN units ELSE 0)
  <2>1. IsFiniteSet(HeldOn(st, q)) /\ IsFiniteSet(HeldOn(st, q) \cup {r})
    BY FiniteUniverse DEF HeldOn
  <2>2. \A x \in HeldOn(st, q) : new.held[x] = st.held[x]
    BY <1>1, <1>2, <1>5 DEF HeldOn, Store
  <2>3. SumOver(new.held, HeldOn(st, q)) = SumOver(st.held, HeldOn(st, q))
    BY <2>1, <2>2, SumAgree
  <2>4. SumOver(st.held, HeldOn(st, q)) \in Nat
    BY <1>1, HandsOverType
  <2>5. CASE q # p
    BY <1>5, <2>3, <2>4, <2>5
  <2>6. CASE q = p
    <3>1. \A x \in HeldOn(st, q) \cup {r} : new.held[x] \in Int
      BY <1>3 DEF HeldOn, Store
    <3>2. (HeldOn(st, q) \cup {r}) \ {r} = HeldOn(st, q)
      BY <1>5
    <3>3. new.held[r] = units
      BY <1>1, <1>2 DEF Store
    <3>4. SumOver(new.held, HeldOn(st, q) \cup {r})
            = new.held[r] + SumOver(new.held, (HeldOn(st, q) \cup {r}) \ {r})
      BY <2>1, <3>1, SumRemove
    <3>5. SumOver(new.held, HeldOn(st, q) \cup {r}) = units + SumOver(st.held, HeldOn(st, q))
      BY <2>3, <3>2, <3>3, <3>4
    <3>6. HeldOn(new, q) = HeldOn(st, q) \cup {r}
      BY <1>5, <2>6
    <3>. QED  BY <1>1, <2>4, <2>6, <3>5, <3>6
  <2>. QED  BY <2>5, <2>6
<1>7. ASSUME NEW q \in Partitions
      PROVE  /\ new.heldUnits[q] = SumOver(new.held, HeldOn(new, q))
             /\ new.heldUnits[q] + CacheUnits(new, q) + SumOver(Contexts, {}) <= Capacity
  <2>1. /\ st.heldUnits[q] = SumOver(st.held, HeldOn(st, q))
        /\ st.heldUnits[q] + CacheUnits(st, q) + SumOver(Contexts, st.admits[q]) <= Capacity
    BY DEF HandsOver
  <2>2. /\ CacheUnits(st, q) \in Nat /\ st.heldUnits[q] \in Int /\ Capacity \in Nat
        /\ SumOver(Contexts, {r}) \in Nat
    BY <1>1, HandsOverType
  <2>3. new.heldUnits[q] = st.heldUnits[q] + (IF q = p THEN units ELSE 0)
    <3>1. st.heldUnits \in [Partitions -> Int]
      BY <1>1 DEF Store, Totals
    <3>. QED  BY <1>1, <1>2, <2>2, <3>1
  <2>4. CacheUnits(new, q) = CacheUnits(st, q)
    BY <1>2 DEF CacheUnits
  <2>5. SumOver(Contexts, {}) = 0 /\ SumOver(Contexts, {r}) = units
    <3>1. SumOver(Contexts, {}) = 0
      BY FS_EmptySet, SumZero
    <3>2. IsFiniteSet({r}) /\ {r} \ {r} = {} /\ Contexts[r] = units /\ r \in {r}
      BY FiniteUniverse DEF Contexts
    <3>3. \A y \in {r} : Contexts[y] \in Int
      BY <1>1, <3>2
    <3>4. SumOver(Contexts, {r}) = Contexts[r] + SumOver(Contexts, {r} \ {r})
      BY ONLY <3>2, <3>3, SumRemove
    <3>. QED  BY <1>1, <3>1, <3>2, <3>4
  <2>6. q = p => st.admits[q] = {r}
    OBVIOUS
  <2>7. q # p => st.admits[q] = {}
    OBVIOUS
  <2>. QED  BY <1>1, <1>6, <2>1, <2>2, <2>3, <2>4, <2>5, <2>6, <2>7
<1>8. HandsOver(new)
  BY <1>2, <1>3, <1>4, <1>5, <1>7 DEF HandsOver
<1>. QED  BY <1>2, <1>8 DEF new

\* A prefill whose first token is its last leaves its prefix behind.
LEMMA ReleaseHandsOver ==
    ASSUME NEW st, HandsOver(st), NEW r \in Requests, NEW p \in Partitions,
           st.held[r] = 0,
           OnlyAdmits(st, r, p),
           NEW after \in ReleasedRetainingPrefix(st, r, p)
    PROVE  LET new == ClearPrefillAdmits(after)
           IN  /\ HandsOver(new)
               /\ \A q \in Partitions : new.admits[q] = {}
               /\ new.held = st.held
<1> DEFINE bare == Released(st, r, p)
           new == ClearPrefillAdmits(after)
<1> USE DEF OnlyAdmits
<1>1. st \in Store /\ p # NoPartition /\ r \notin st.decodes[p] /\ st.promised[r] = 0
      /\ ContextOf(r) \in Nat
  BY WorkloadType, StoreAssumption DEF HandsOver, Partitions
<1>2. /\ after \in Store /\ after = [bare EXCEPT !.cache = after.cache]
      /\ bare \in Store
  <2>1. after \in Store /\ after = [Released(st, r, p) EXCEPT !.cache = after.cache]
    BY <1>1, ReleasedRetainingPrefixType
  <2>2. Released(st, r, p) \in Store
    BY <1>1, ReleasedType
  <2>. QED  BY <2>1, <2>2
<1>3. /\ bare.placement = [st.placement EXCEPT ![r] = NoPartition]
      /\ bare.promised = [st.promised EXCEPT ![r] = 0]
      /\ bare.admits = st.admits /\ bare.decodes = [st.decodes EXCEPT ![p] = st.decodes[p] \ {r}]
      /\ bare.reserved = st.reserved /\ bare.held = st.held /\ bare.heldOn = st.heldOn
      /\ bare.heldUnits = st.heldUnits
      /\ \A q \in Partitions : bare.resident[q] = st.resident[q] /\ bare.peak[q] = st.peak[q]
  <2>1. /\ Released(st, r, p).placement = [st.placement EXCEPT ![r] = NoPartition]
        /\ Released(st, r, p).promised = [st.promised EXCEPT ![r] = 0]
        /\ Released(st, r, p).admits = st.admits
        /\ Released(st, r, p).decodes = [st.decodes EXCEPT ![p] = st.decodes[p] \ {r}]
    BY <1>1, ReleasedType, SMTT(30)
  <2>2. /\ Released(st, r, p).reserved = st.reserved /\ Released(st, r, p).held = st.held
        /\ Released(st, r, p).heldOn = st.heldOn /\ Released(st, r, p).heldUnits = st.heldUnits
    BY <1>1, ReleasedTotals
  <2>3. ASSUME NEW q \in Partitions
        PROVE  /\ Released(st, r, p).resident[q] = st.resident[q]
               /\ Released(st, r, p).peak[q] = st.peak[q]
    <3>1. CASE q = p
      BY <1>1, <3>1, ReleasedTotals
    <3>2. CASE q # p
      BY <1>1, <3>2, ReleasedTotals
    <3>. QED  BY <3>1, <3>2
  <2>. QED  BY <2>1, <2>2, <2>3
<1>4. bare.cache = st.cache
  BY <1>1, ZenonT(30) DEF Released, ReleaseDecode, WithoutPromises, TakeHeld, Store
<1> HIDE DEF bare
<1>5. ASSUME NEW q \in Partitions
      PROVE  /\ CacheUnits(after, q) \in Nat
             /\ st.heldUnits[q] + CacheUnits(after, q) <= Capacity
  <2>1. /\ st.heldUnits[q] + CacheUnits(st, q) + SumOver(Contexts, st.admits[q]) <= Capacity
        /\ st.heldUnits[q] = SumOver(st.held, HeldOn(st, q))
        /\ st.peak[q] = 0 /\ st.reserved[q] = 0 /\ st.resident[q] = 0
    BY DEF HandsOver
  <2>2. /\ CacheUnits(st, q) \in Nat /\ st.heldUnits[q] \in Nat /\ Capacity \in Nat
        /\ SumOver(Contexts, st.admits[q]) \in Nat
    BY <1>1, <2>1, HandsOverType
  <2>3. CASE after.cache[q] = st.cache[q]
    BY <2>1, <2>2, <2>3 DEF CacheUnits
  <2>4. CASE after.cache[q] # st.cache[q]
    <3>1. PICK tokens \in Nat : HasSession(r) /\ after \in Retained(bare, p, SessionOf[r], tokens)
      <4>1. HasSession(r)
        BY <1>4, <2>4 DEF ReleasedRetainingPrefix, bare
      <4>. QED  BY <1>1, <4>1 DEF ReleasedRetainingPrefix, bare
    <3>2. SessionOf[r] \in Sessions
      BY <3>1, WorkloadType
    <3>3. q = p
      BY <1>2, <1>4, <2>4, <3>1, <3>2, RetainedTotals
    <3>4. CacheUnits(after, q) \in Nat /\ CacheUnits(after, q) <= SoftSlack(bare, q)
      BY <1>2, <3>1, <3>2, <3>3, RetainedTotals
    <3>5. bare.peak[q] + bare.reserved[q] + bare.heldUnits[q] + SoftSlack(bare, q) = Capacity
      <4>1. bare.resident[q] = 0 /\ bare.peak[q] = 0 /\ bare.reserved[q] = 0
            /\ bare.heldUnits[q] = st.heldUnits[q]
        BY <1>3, <2>1
      <4>2. bare.peak[q] + bare.reserved[q] + bare.heldUnits[q] <= Capacity
        BY <2>1, <2>2, <4>1
      <4>. QED  BY <1>2, <4>1, <4>2, SoftSlackBound
    <3>6. SoftSlack(bare, q) \in Nat
      BY <1>2, SoftSlackType
    <3>. QED  BY <1>3, <2>1, <2>2, <3>4, <3>5, <3>6
  <2>. QED  BY <2>3, <2>4
<1>6. /\ new \in Store
      /\ new.promised = after.promised /\ new.placement = after.placement
      /\ new.admits = [q \in Partitions |-> {}] /\ new.decodes = after.decodes
      /\ new.held = after.held /\ new.heldOn = after.heldOn /\ new.heldUnits = after.heldUnits
      /\ new.reserved = after.reserved /\ new.resident = after.resident /\ new.peak = after.peak
      /\ new.cache = after.cache
  BY <1>2 DEF ClearPrefillAdmits, Store
<1> HIDE DEF new
<1>7. /\ after.promised = bare.promised /\ after.placement = bare.placement
      /\ after.decodes = bare.decodes
      /\ after.held = bare.held /\ after.heldOn = bare.heldOn /\ after.heldUnits = bare.heldUnits
      /\ after.reserved = bare.reserved /\ after.resident = bare.resident
      /\ after.peak = bare.peak
  BY <1>2 DEF Store
<1>8. \A q \in Requests : /\ new.promised[q] = 0 /\ new.held[q] \in {0, ContextOf(q)}
                          /\ new.heldOn[q] \in Partitions <=> new.held[q] > 0
  BY <1>1, <1>3, <1>6, <1>7 DEF HandsOver, Store
<1>9. ASSUME NEW q \in Partitions
      PROVE  PlacedOn(new, q) = {} /\ HeldOn(new, q) = HeldOn(st, q) /\ new.decodes[q] = {}
  <2>1. PlacedOn(st, q) = (IF q = p THEN {r} ELSE {}) /\ st.decodes[q] = {}
    BY DEF HandsOver
  <2>2. PlacedOn(new, q) = PlacedOn(st, q) \ {r}
    BY <1>1, <1>3, <1>6, <1>7, StoreAssumption DEF PlacedOn, Store, Partitions
  <2>3. HeldOn(new, q) = HeldOn(st, q)
    BY <1>3, <1>6, <1>7 DEF HeldOn
  <2>4. new.decodes[q] = {}
    BY <1>1, <1>3, <1>6, <1>7, <2>1 DEF Store
  <2>. QED  BY <2>1, <2>2, <2>3, <2>4
<1>10. ASSUME NEW q \in Partitions
       PROVE  /\ new.reserved[q] = 0 /\ new.resident[q] = 0 /\ new.peak[q] = 0
              /\ new.heldUnits[q] = SumOver(new.held, HeldOn(new, q))
              /\ new.heldUnits[q] + CacheUnits(new, q) + SumOver(Contexts, {}) <= Capacity
  <2>1. /\ st.heldUnits[q] = SumOver(st.held, HeldOn(st, q))
        /\ st.reserved[q] = 0 /\ st.resident[q] = 0 /\ st.peak[q] = 0
    BY DEF HandsOver
  <2>2. SumOver(Contexts, {}) = 0
    BY FS_EmptySet, SumZero
  <2>3. CacheUnits(new, q) = CacheUnits(after, q)
    BY <1>6 DEF CacheUnits
  <2>4. st.heldUnits[q] \in Int /\ Capacity \in Nat
    BY <1>1, HandsOverType
  <2>. QED  BY <1>3, <1>5, <1>6, <1>7, <1>9, <2>1, <2>2, <2>3, <2>4
<1>11. HandsOver(new)
  BY <1>6, <1>8, <1>9, <1>10 DEF HandsOver
<1>. QED  BY <1>3, <1>6, <1>7, <1>11 DEF new

\* A prefill that fits is promised its context and joins the next iteration.
LEMMA AdmitHandsOver ==
    ASSUME NEW st, HandsOver(st), NEW r \in Requests, NEW p \in Partitions,
           ContextOf(r) > 0, Fits(st, p, ContextOf(r)),
           \A q \in Partitions : st.admits[q] = {},
           NEW promised \in ReservedPrefill(st, r, p, ContextOf(r))
    PROVE  LET new == DrainReady(promised)
           IN  /\ HandsOver(new)
               /\ new.admits = [q \in Partitions |-> IF q = p THEN {r} ELSE {}]
               /\ new.held = st.held
<1> DEFINE units == ContextOf(r)
           new == DrainReady(promised)
<1>1. st \in Store /\ units \in Nat /\ units > 0 /\ p # NoPartition
  BY WorkloadType, StoreAssumption DEF HandsOver, Partitions
<1>2. /\ promised \in Store
      /\ promised.promised = [st.promised EXCEPT ![r] = units]
      /\ promised.placement = [st.placement EXCEPT ![r] = p]
      /\ promised.admits = st.admits /\ promised.decodes = st.decodes
  BY <1>1, ReservedPrefillType, PromiseFields
<1>3. /\ \A q \in Partitions : promised.reserved[q] =
            IF q = p THEN st.reserved[q] + units ELSE st.reserved[q]
      /\ promised.held = st.held /\ promised.heldOn = st.heldOn
      /\ promised.heldUnits = st.heldUnits
      /\ promised.resident = st.resident /\ promised.peak = st.peak
      /\ \A q \in Partitions : q # p => promised.cache[q] = st.cache[q]
      /\ CacheUnits(promised, p) \in Nat
      /\ CacheUnits(promised, p) <= SoftSlack(promised, p)
  BY <1>1, ReservedPrefillTotals
<1>4. /\ new \in Store
      /\ new.promised = [q \in Requests |-> 0] /\ new.placement = promised.placement
      /\ new.admits = [q \in Partitions |-> promised.admits[q] \cup PromisedOn(promised, q)]
      /\ new.decodes = promised.decodes
  BY <1>2, DrainReadyType, DrainReadyFields
<1>5. /\ \A q \in Partitions : new.reserved[q] =
            promised.reserved[q] - SumOver(promised.promised, PlacedOn(promised, q))
      /\ new.held = promised.held /\ new.heldOn = promised.heldOn
      /\ new.heldUnits = promised.heldUnits
      /\ new.resident = promised.resident /\ new.peak = promised.peak
      /\ new.cache = promised.cache
  BY <1>2, DrainReadyTotals
<1> HIDE DEF new
<1>6. ASSUME NEW q \in Partitions
      PROVE  /\ PlacedOn(promised, q) = IF q = p THEN {r} ELSE {}
             /\ PromisedOn(promised, q) = IF q = p THEN {r} ELSE {}
             /\ PlacedOn(new, q) = PlacedOn(promised, q)
             /\ HeldOn(new, q) = HeldOn(st, q)
  <2>1. PlacedOn(st, q) = {}
    BY DEF HandsOver
  <2>2. \A x \in Requests : st.placement[x] # q
    BY <2>1 DEF PlacedOn
  <2>3. PlacedOn(promised, q) = IF q = p THEN {r} ELSE {}
    BY <1>1, <1>2, <2>2 DEF PlacedOn, Store
  <2>4. promised.promised[r] > 0
    BY <1>1, <1>2 DEF Store
  <2>5. PromisedOn(promised, q) = PlacedOn(promised, q)
    BY <2>3, <2>4 DEF PromisedOn
  <2>6. PlacedOn(new, q) = PlacedOn(promised, q) /\ HeldOn(new, q) = HeldOn(st, q)
    BY <1>3, <1>4, <1>5 DEF PlacedOn, HeldOn
  <2>. QED  BY <2>3, <2>5, <2>6
<1>7. new.admits = [q \in Partitions |-> IF q = p THEN {r} ELSE {}]
  BY <1>2, <1>4, <1>6
<1>8. \A q \in Requests : /\ new.promised[q] = 0 /\ new.held[q] \in {0, ContextOf(q)}
                          /\ new.heldOn[q] \in Partitions <=> new.held[q] > 0
  BY <1>3, <1>4, <1>5 DEF HandsOver
<1>9. SumOver(promised.promised, {r}) = units /\ SumOver(Contexts, {r}) = units
      /\ SumOver(promised.promised, {}) = 0 /\ SumOver(Contexts, {}) = 0
  <2>1. IsFiniteSet({r}) /\ {r} \ {r} = {} /\ Contexts[r] = units /\ r \in {r}
        /\ promised.promised[r] = units
    BY <1>1, <1>2, FiniteUniverse DEF Contexts, Store
  <2>2. \A y \in {r} : Contexts[y] \in Int /\ promised.promised[y] \in Int
    BY <1>1, <2>1
  <2>3. SumOver(Contexts, {r}) = Contexts[r] + SumOver(Contexts, {r} \ {r})
    BY ONLY <2>1, <2>2, SumRemove
  <2>4. SumOver(promised.promised, {r})
          = promised.promised[r] + SumOver(promised.promised, {r} \ {r})
    BY ONLY <2>1, <2>2, SumRemove
  <2>5. SumOver(promised.promised, {}) = 0 /\ SumOver(Contexts, {}) = 0
    BY FS_EmptySet, SumZero
  <2>6. SumOver(Contexts, {r}) = units + 0
    BY <2>1, <2>3, <2>5
  <2>7. SumOver(promised.promised, {r}) = units + 0
    BY <2>1, <2>4, <2>5
  <2>. QED  BY <1>1, <2>5, <2>6, <2>7
<1>10. ASSUME NEW q \in Partitions
       PROVE  /\ new.decodes[q] = {} /\ PlacedOn(new, q) = new.admits[q]
              /\ new.reserved[q] = 0 /\ new.resident[q] = 0 /\ new.peak[q] = 0
              /\ new.heldUnits[q] = SumOver(new.held, HeldOn(new, q))
              /\ new.heldUnits[q] + CacheUnits(new, q) + SumOver(Contexts, new.admits[q])
                    <= Capacity
  <2>1. /\ st.heldUnits[q] = SumOver(st.held, HeldOn(st, q)) /\ st.decodes[q] = {}
        /\ st.reserved[q] = 0 /\ st.resident[q] = 0 /\ st.peak[q] = 0
        /\ st.heldUnits[q] + CacheUnits(st, q) + SumOver(Contexts, {}) <= Capacity
    BY DEF HandsOver
  <2>2. /\ st.heldUnits[q] \in Int /\ Capacity \in Nat /\ CacheUnits(st, q) \in Nat
    BY <1>1, HandsOverType
  <2>3. PlacedOn(new, q) = new.admits[q] /\ new.admits[q] = IF q = p THEN {r} ELSE {}
    BY <1>6, <1>7
  <2>4. new.decodes[q] = {} /\ new.resident[q] = 0 /\ new.peak[q] = 0
        /\ new.heldUnits[q] = SumOver(new.held, HeldOn(new, q))
    BY <1>2, <1>3, <1>4, <1>5, <1>6, <2>1
  <2>5. new.heldUnits[q] = st.heldUnits[q] /\ CacheUnits(new, q) = CacheUnits(promised, q)
    BY <1>3, <1>5 DEF CacheUnits
  <2>6. CASE q = p
    <3>1. new.reserved[q] = 0
      <4>1. promised.reserved[q] = units
        BY <1>1, <1>3, <2>1, <2>6
      <4>2. SumOver(promised.promised, PlacedOn(promised, q)) = units
        BY <1>6, <1>9, <2>6
      <4>. QED  BY <1>1, <1>5, <4>1, <4>2
    <3>2. st.heldUnits[q] + units <= Capacity
      BY <1>1, <2>1, <2>2, <2>6 DEF Fits
    <3>3. promised.resident[q] <= promised.peak[q]
          /\ promised.peak[q] + promised.reserved[q] + promised.heldUnits[q]
               = st.heldUnits[q] + units
      BY <1>1, <1>3, <2>1, <2>2, <2>6
    <3>4. promised.peak[q] + promised.reserved[q] + promised.heldUnits[q]
            + SoftSlack(promised, q) = Capacity
      BY <1>2, <3>2, <3>3, SoftSlackBound
    <3>5. SoftSlack(promised, q) \in Nat
      BY <1>2, SoftSlackType
    <3>6. SumOver(Contexts, new.admits[q]) = units
      BY <1>9, <2>3, <2>6
    <3>7. CacheUnits(promised, q) \in Nat /\ CacheUnits(promised, q) <= SoftSlack(promised, q)
      BY <1>3, <2>6
    <3>. QED  BY <1>1, <2>2, <2>3, <2>4, <2>5, <3>1, <3>3, <3>4, <3>5, <3>6, <3>7
  <2>7. CASE q # p
    <3>1. new.reserved[q] = 0
      <4>1. promised.reserved[q] = 0
        BY <1>3, <2>1, <2>7
      <4>2. SumOver(promised.promised, PlacedOn(promised, q)) = 0
        BY <1>6, <1>9, <2>7
      <4>. QED  BY <1>5, <4>1, <4>2
    <3>2. CacheUnits(promised, q) = CacheUnits(st, q)
      BY <1>3, <2>7 DEF CacheUnits
    <3>3. SumOver(Contexts, new.admits[q]) = SumOver(Contexts, {})
      BY <2>3, <2>7
    <3>. QED  BY <2>1, <2>2, <2>3, <2>4, <2>5, <3>1, <3>2, <3>3
  <2>. QED  BY <2>6, <2>7
<1>11. HandsOver(new)
  BY <1>4, <1>8, <1>10 DEF HandsOver
<1>. QED  BY <1>3, <1>5, <1>7, <1>11 DEF new

\* With nothing promised there is nothing to drain.
LEMMA NothingToDrain ==
    ASSUME NEW st, HandsOver(st)
    PROVE  LET new == DrainReady(st)
           IN  HandsOver(new) /\ new.admits = st.admits /\ new.held = st.held
<1> DEFINE new == DrainReady(st)
<1>1. st \in Store /\ \A r \in Requests : st.promised[r] = 0
  BY DEF HandsOver
<1>2. \A p \in Partitions : PromisedOn(st, p) = {}
  BY <1>1 DEF PromisedOn, PlacedOn
<1>3. /\ new \in Store
      /\ new.promised = [q \in Requests |-> 0] /\ new.placement = st.placement
      /\ new.admits = [q \in Partitions |-> st.admits[q] \cup PromisedOn(st, q)]
      /\ new.decodes = st.decodes
  BY <1>1, DrainReadyType, DrainReadyFields
<1>4. /\ \A q \in Partitions : new.reserved[q] =
            st.reserved[q] - SumOver(st.promised, PlacedOn(st, q))
      /\ new.held = st.held /\ new.heldOn = st.heldOn /\ new.heldUnits = st.heldUnits
      /\ new.resident = st.resident /\ new.peak = st.peak /\ new.cache = st.cache
  BY <1>1, DrainReadyTotals
<1> HIDE DEF new
<1>5. new.admits = st.admits
  BY <1>1, <1>2, <1>3 DEF Store
<1>6. ASSUME NEW q \in Partitions
      PROVE  /\ new.reserved[q] = 0 /\ PlacedOn(new, q) = PlacedOn(st, q)
             /\ HeldOn(new, q) = HeldOn(st, q) /\ CacheUnits(new, q) = CacheUnits(st, q)
  <2>1. SumOver(st.promised, PlacedOn(st, q)) = 0
    BY <1>1, FiniteUniverse, SumZero DEF PlacedOn
  <2>2. st.reserved[q] = 0
    BY DEF HandsOver
  <2>. QED  BY <1>3, <1>4, <2>1, <2>2 DEF PlacedOn, HeldOn, CacheUnits
<1>7. \A q \in Requests : /\ new.promised[q] = 0 /\ new.held[q] \in {0, ContextOf(q)}
                          /\ new.heldOn[q] \in Partitions <=> new.held[q] > 0
  BY <1>3, <1>4 DEF HandsOver
<1>8. \A p \in Partitions :
          /\ PlacedOn(new, p) = new.admits[p]
          /\ new.decodes[p] = {}
          /\ new.reserved[p] = 0 /\ new.resident[p] = 0 /\ new.peak[p] = 0
          /\ new.heldUnits[p] = SumOver(new.held, HeldOn(new, p))
          /\ new.heldUnits[p] + CacheUnits(new, p) + SumOver(Contexts, new.admits[p])
                <= Capacity
  <2>1. ASSUME NEW p \in Partitions
        PROVE  /\ PlacedOn(st, p) = st.admits[p] /\ st.decodes[p] = {}
               /\ st.resident[p] = 0 /\ st.peak[p] = 0
               /\ st.heldUnits[p] = SumOver(st.held, HeldOn(st, p))
               /\ st.heldUnits[p] + CacheUnits(st, p) + SumOver(Contexts, st.admits[p])
                     <= Capacity
    BY DEF HandsOver
  <2>. QED  BY <1>3, <1>4, <1>5, <1>6, <2>1, ZenonT(30)
<1>9. HandsOver(new)
  BY <1>3, <1>7, <1>8 DEF HandsOver
<1>. QED  BY <1>4, <1>5, <1>9 DEF new

\* The acknowledgement of a pull gives the held KV up, and may keep its prefix.
LEMMA AcknowledgedHandsOver ==
    ASSUME NEW st, HandsOver(st), NEW r \in Requests,
           NEW new \in HandoffCompleted(st, r)
    PROVE  /\ HandsOver(new)
           /\ new.admits = st.admits
           /\ new.held = [st.held EXCEPT ![r] = 0]
<1> DEFINE p == st.heldOn[r]
           taken == TakeHeld(st, r)
<1>1. st \in Store /\ st.held[r] \in Nat
  BY DEF HandsOver, Store
<1>2. CASE st.held[r] = 0
  <2>1. new = st
    BY <1>2 DEF HandoffCompleted
  <2>2. st.held = [st.held EXCEPT ![r] = 0]
    BY <1>1, <1>2 DEF Store
  <2>. QED  BY <2>1, <2>2
<1>3. CASE st.held[r] # 0
  <2>1. p \in Partitions
    BY <1>1, <1>3 DEF HandsOver
  <2>2. /\ st.heldUnits[p] = SumOver(st.held, HeldOn(st, p))
        /\ r \in HeldOn(st, p)
    BY <2>1 DEF HandsOver, HeldOn
  <2>3. /\ SumOver(st.held, HeldOn(st, p)) = st.held[r] + SumOver(st.held, HeldOn(st, p) \ {r})
        /\ SumOver(st.held, HeldOn(st, p) \ {r}) \in Nat
    <3>1. IsFiniteSet(HeldOn(st, p)) /\ \A y \in HeldOn(st, p) : st.held[y] \in Int
      BY <1>1, FiniteUniverse DEF HeldOn, Store
    <3>2. HeldOn(st, p) \ {r} \in SUBSET Requests
      BY DEF HeldOn
    <3>. QED  BY <1>1, <2>1, <2>2, <3>1, <3>2, SumRemove, HandsOverType
  <2>4. st.heldUnits \in [Partitions -> Int]
    BY <1>1 DEF Store, Totals
  <2>5. /\ taken \in Store
        /\ taken.promised = st.promised /\ taken.placement = st.placement
        /\ taken.admits = st.admits /\ taken.decodes = st.decodes
        /\ taken.context = st.context /\ taken.remaining = st.remaining
    BY <1>1, TakeHeldType
  <2>6. /\ taken.reserved = st.reserved /\ taken.resident = st.resident
        /\ taken.peak = st.peak /\ taken.cache = st.cache
        /\ taken.held = [st.held EXCEPT ![r] = 0]
        /\ taken.heldOn = [st.heldOn EXCEPT ![r] = NoPartition]
        /\ taken.heldUnits = [st.heldUnits EXCEPT ![p] = SaturatingSub(@, st.held[r])]
    BY <1>1, <1>3 DEF TakeHeld, Store
  <2> HIDE DEF taken
  <2>7. \A q \in Partitions : taken.heldUnits[q] =
          IF q = p THEN SumOver(st.held, HeldOn(st, p) \ {r}) ELSE st.heldUnits[q]
    BY <1>1, <2>1, <2>2, <2>3, <2>4, <2>6 DEF SaturatingSub
  <2>8. ASSUME NEW q \in Partitions
        PROVE  taken.heldUnits[q] = SumOver(taken.held, HeldOn(taken, q))
    <3>1. HeldOn(taken, q) = HeldOn(st, q) \ {r} /\ (q # p => r \notin HeldOn(st, q))
      BY <1>1, <2>6, StoreAssumption DEF HeldOn, Store, Partitions
    <3>2. \A x \in HeldOn(st, q) \ {r} : taken.held[x] = st.held[x]
      BY <1>1, <2>6 DEF HeldOn, Store
    <3>3. IsFiniteSet(HeldOn(st, q) \ {r})
      BY FiniteUniverse DEF HeldOn
    <3>4. SumOver(taken.held, HeldOn(st, q) \ {r}) = SumOver(st.held, HeldOn(st, q) \ {r})
      BY <3>2, <3>3, SumAgree
    <3>5. CASE q = p
      BY <2>7, <3>1, <3>4, <3>5
    <3>6. CASE q # p
      <4>1. HeldOn(st, q) \ {r} = HeldOn(st, q)
        BY <3>1, <3>6
      <4>2. st.heldUnits[q] = SumOver(st.held, HeldOn(st, q))
        BY DEF HandsOver
      <4>. QED  BY <2>7, <3>1, <3>4, <3>6, <4>1, <4>2
    <3>. QED  BY <3>5, <3>6
  <2>9. /\ new \in Store /\ new = [taken EXCEPT !.cache = new.cache]
        /\ \A q \in Partitions : q # p => new.cache[q] = taken.cache[q]
        /\ CacheUnits(new, p) \in Nat
        /\ CacheUnits(new, p) <= CacheUnits(taken, p) + st.held[r]
    <3>1. CASE HasSession(r)
      <4>1. new \in Retained(taken, p, SessionOf[r], st.held[r]) /\ SessionOf[r] \in Sessions
        BY <1>3, <3>1, WorkloadType DEF HandoffCompleted, taken
      <4>. QED  BY <1>1, <2>1, <2>5, <4>1, RetainedType, RetainedTotals, RetainedGrowth
    <3>2. CASE ~HasSession(r)
      <4>1. new = taken
        BY <1>3, <3>2 DEF HandoffCompleted, taken
      <4>2. CacheUnits(taken, p) \in Nat
        BY <2>1, <2>5, HandsOverType
      <4>3. taken = [taken EXCEPT !.cache = taken.cache]
        BY <2>5 DEF Store
      <4>. QED  BY <1>1, <2>5, <4>1, <4>2, <4>3
    <3>. QED  BY <3>1, <3>2
  <2>10. /\ new.promised = taken.promised /\ new.placement = taken.placement
         /\ new.admits = taken.admits /\ new.decodes = taken.decodes
         /\ new.reserved = taken.reserved /\ new.resident = taken.resident
         /\ new.peak = taken.peak
         /\ new.held = taken.held /\ new.heldOn = taken.heldOn
         /\ new.heldUnits = taken.heldUnits
    BY <2>5, <2>9 DEF Store
  <2>11. \A x \in Requests :
            /\ new.promised[x] = 0 /\ new.held[x] \in {0, ContextOf(x)}
            /\ new.heldOn[x] \in Partitions <=> new.held[x] > 0
    BY <1>1, <2>5, <2>6, <2>10, StoreAssumption DEF HandsOver, Store, Partitions
  <2>12. ASSUME NEW q \in Partitions
         PROVE  /\ PlacedOn(new, q) = new.admits[q] /\ new.decodes[q] = {}
                /\ new.reserved[q] = 0 /\ new.resident[q] = 0 /\ new.peak[q] = 0
                /\ new.heldUnits[q] = SumOver(new.held, HeldOn(new, q))
    <3>1. PlacedOn(new, q) = PlacedOn(st, q) /\ HeldOn(new, q) = HeldOn(taken, q)
      BY <2>5, <2>10 DEF PlacedOn, HeldOn
    <3>. QED  BY <2>5, <2>6, <2>8, <2>10, <3>1 DEF HandsOver
  <2>13. ASSUME NEW q \in Partitions
         PROVE  new.heldUnits[q] + CacheUnits(new, q) + SumOver(Contexts, new.admits[q])
                    <= Capacity
    <3>1. st.heldUnits[q] + CacheUnits(st, q) + SumOver(Contexts, st.admits[q]) <= Capacity
      BY DEF HandsOver
    <3>2. /\ CacheUnits(st, q) \in Nat /\ st.heldUnits[q] \in Int /\ Capacity \in Nat
          /\ SumOver(Contexts, st.admits[q]) \in Nat
      <4>1. st.admits[q] \in SUBSET Requests
        BY <1>1 DEF Store
      <4>. QED  BY <1>1, <4>1, HandsOverType
    <3>3. new.admits[q] = st.admits[q] /\ CacheUnits(taken, q) = CacheUnits(st, q)
      BY <2>5, <2>6, <2>10 DEF CacheUnits
    <3>4. CASE q = p
      <4>1. /\ new.heldUnits[q] = SumOver(st.held, HeldOn(st, p) \ {r})
            /\ st.heldUnits[q] = st.held[r] + SumOver(st.held, HeldOn(st, p) \ {r})
        BY <2>2, <2>3, <2>7, <2>10, <3>4
      <4>2. CacheUnits(new, q) \in Nat /\ CacheUnits(new, q) <= CacheUnits(st, q) + st.held[r]
        BY <2>9, <3>3, <3>4
      <4>. QED  BY <1>1, <2>3, <3>1, <3>2, <3>3, <4>1, <4>2
    <3>5. CASE q # p
      <4>1. CacheUnits(new, q) = CacheUnits(st, q)
        BY <2>6, <2>9, <3>5 DEF CacheUnits
      <4>. QED  BY <2>7, <2>10, <3>1, <3>3, <3>5, <4>1
    <3>. QED  BY <3>4, <3>5
  <2>14. HandsOver(new)
    BY <2>9, <2>11, <2>12, <2>13 DEF HandsOver
  <2>. QED  BY <2>5, <2>6, <2>10, <2>14
<1>. QED  BY <1>2, <1>3

-----------------------------------------------------------------------------
(* A store whose decodes are pulled from elsewhere (build_pd_decode_worker). *)
(* At the end of a tick nothing is promised or held, what is placed decodes, *)
(* and every partition has room for all that its decodes will still grow:    *)
(* few says that no partition has had decodes enough for the projected peak  *)
(* to be a sample.                                                           *)

PullSound(st, few) ==
    /\ st \in Store
    /\ \A r \in Requests : st.promised[r] = 0 /\ st.held[r] = 0
    /\ \A p \in Partitions :
          /\ PlacedOn(st, p) = st.decodes[p]
          /\ st.reserved[p] = 0 /\ st.heldUnits[p] = 0
          /\ st.resident[p] = SumOver(st.context, st.decodes[p])
          /\ Cardinality(st.decodes[p]) < ExactBelow =>
                ReachedPeak(st, st.decodes[p]) <= st.peak[p]
          /\ few => st.peak[p] <= Capacity

\* The numbers of such a store.
LEMMA PullsType ==
    ASSUME NEW st \in Store, NEW p \in Partitions
    PROVE  /\ st.decodes[p] \in SUBSET Requests /\ IsFiniteSet(st.decodes[p])
           /\ st.reserved[p] \in Int /\ st.resident[p] \in Int /\ st.peak[p] \in Int
           /\ st.heldUnits[p] \in Int /\ Capacity \in Nat
           /\ \A S \in SUBSET Requests : /\ ReachedPeak(st, S) \in Int
                                         /\ ProjectedPeak(st, S) \in Int
                                         /\ ProjectedPeak(st, S) <= ReachedPeak(st, S)
                                         /\ Cardinality(S) < ExactBelow =>
                                               ProjectedPeak(st, S) = ReachedPeak(st, S)
<1>1. st.decodes[p] \in SUBSET Requests
  BY DEF Store
<1>2. IsFiniteSet(st.decodes[p])
  BY <1>1, FiniteUniverse
<1>. QED  BY <1>1, <1>2, PeakType, ProjectedIsReached, FewAreExact, StoreAssumption
          DEF Store, Totals

\* Such a partition always has room for what is resident.
LEMMA PullsFit ==
    ASSUME NEW st, PullSound(st, TRUE), FewDecodes(st), NEW p \in Partitions
    PROVE  st.reserved[p] = 0 /\ st.resident[p] <= st.peak[p] /\ st.peak[p] <= Capacity
<1>1. st \in Store /\ st.resident[p] = SumOver(st.context, st.decodes[p])
      /\ ReachedPeak(st, st.decodes[p]) <= st.peak[p]
      /\ st.peak[p] <= Capacity /\ st.reserved[p] = 0
  BY DEF PullSound, FewDecodes
<1>2. st.decodes[p] \in SUBSET Requests /\ st.peak[p] \in Int
      /\ ReachedPeak(st, st.decodes[p]) \in Int
  BY <1>1, PullsType
<1>3. SumOver(st.context, st.decodes[p]) \in Nat
      /\ SumOver(st.context, st.decodes[p]) <= ReachedPeak(st, st.decodes[p])
  BY <1>1, <1>2, ResidentBounded
<1>. QED  BY <1>1, <1>2, <1>3

\* What is few stays few when decodes leave.
LEMMA FewerDecodes ==
    ASSUME NEW st \in Store, FewDecodes(st), NEW new,
           \A p \in Partitions : new.decodes[p] \in SUBSET st.decodes[p]
    PROVE  FewDecodes(new)
<1>. SUFFICES ASSUME NEW p \in Partitions
     PROVE  Cardinality(new.decodes[p]) < ExactBelow
  BY DEF FewDecodes
<1>1. IsFiniteSet(st.decodes[p]) /\ Cardinality(st.decodes[p]) < ExactBelow
  BY PullsType DEF FewDecodes
<1>2. /\ Cardinality(new.decodes[p]) <= Cardinality(st.decodes[p])
      /\ Cardinality(new.decodes[p]) \in Nat /\ Cardinality(st.decodes[p]) \in Nat
  BY <1>1, FS_Subset, FS_CardinalityType
<1>. QED  BY <1>1, <1>2 DEF ExactBelow

\* The peak of no decode is nothing.
LEMMA EmptyPeak ==
    ASSUME NEW st \in Store
    PROVE  ReachedPeak(st, {}) <= 0
<1>1. ASSUME NEW e \in Nat PROVE UnitsAfter(st, {}, e) <= 0
  BY FS_EmptySet, SumZero DEF UnitsAfter
<1>. QED  BY <1>1, PeakLeast

\* A new store is of this kind.
LEMMA EmptyPulls ==
    ASSUME NEW few \in BOOLEAN
    PROVE  PullSound(EmptyStore, few)
<1> DEFINE st == EmptyStore
<1>1. st \in Store
  BY EmptyStoreType
<1>2. \A r \in Requests : st.promised[r] = 0 /\ st.held[r] = 0 /\ st.placement[r] = NoPartition
  BY DEF EmptyStore
<1>3. ASSUME NEW p \in Partitions
      PROVE  /\ PlacedOn(st, p) = {} /\ st.decodes[p] = {}
             /\ st.reserved[p] = 0 /\ st.resident[p] = 0 /\ st.peak[p] = 0
             /\ st.heldUnits[p] = 0
  <2>1. p # NoPartition
    BY StoreAssumption DEF Partitions
  <2>2. PlacedOn(st, p) = {}
    BY <1>2, <2>1 DEF PlacedOn
  <2>. QED  BY <2>2 DEF EmptyStore
<1> HIDE DEF st
<1>4. SumOver(st.context, {}) = 0 /\ ReachedPeak(st, {}) <= 0
  BY <1>1, FS_EmptySet, SumZero, EmptyPeak
<1>5. ASSUME NEW p \in Partitions
      PROVE  /\ st.resident[p] = SumOver(st.context, st.decodes[p])
             /\ ReachedPeak(st, st.decodes[p]) <= st.peak[p]
             /\ st.peak[p] <= Capacity
  <2>1. SumOver(st.context, st.decodes[p]) = 0 /\ ReachedPeak(st, st.decodes[p]) <= 0
    BY <1>3, <1>4
  <2>. QED  BY <1>3, <2>1, StoreAssumption
<1>6. PullSound(st, few)
  BY <1>1, <1>2, <1>3, <1>5 DEF PullSound
<1>. QED  BY <1>6 DEF st

\* The decode of a request has joined a partition, with left tokens to come.
Joins(st, r, p, left, new, few) ==
    /\ PullSound(new, few)
    /\ \A q \in Partitions :
          new.decodes[q] = IF q = p THEN st.decodes[q] \cup {r} ELSE st.decodes[q]
    /\ \A x \in Requests : new.remaining[x] = IF x = r THEN left ELSE st.remaining[x]

\* A pulled request that fits, with all it will still grow, joins its partition.
LEMMA JoinPulls ==
    ASSUME NEW few \in BOOLEAN, NEW st, PullSound(st, few),
           few => FewDecodes(st), NEW r \in Requests, NEW p \in Partitions,
           NEW left \in Nat, \A q \in Partitions : r \notin st.decodes[q],
           NEW units, units = Footprint(ContextOf(r), left), Fits(st, p, units),
           NEW promised \in Reserved(st, r, p, units),
           NEW lefts \in [Requests -> Nat], lefts[r] = left
    PROVE  Joins(st, r, p, left, Committed(promised, {r}, Contexts, lefts), few)
<1> DEFINE new == Committed(promised, {r}, Contexts, lefts)
           on(q) == {r} \cap PlacedOn(promised, q)
<1>1. /\ st \in Store /\ units \in Nat /\ ContextOf(r) \in Nat /\ p # NoPartition
      /\ units = ContextOf(r) + left
  BY WorkloadType, StoreAssumption DEF PullSound, Partitions, Footprint
<1>2. /\ promised \in Store
      /\ promised.promised = [st.promised EXCEPT ![r] = units]
      /\ promised.placement = [st.placement EXCEPT ![r] = p]
      /\ promised.decodes = st.decodes
      /\ promised.context = st.context /\ promised.remaining = st.remaining
  <2>1. /\ promised \in Store
        /\ promised = [Promise(st, r, p, units) EXCEPT !.cache = promised.cache]
    BY <1>1, ReservedType
  <2>2. Promise(st, r, p, units) \in Store
    BY <1>1, PromiseType
  <2>. QED  BY <1>1, <2>1, <2>2 DEF Promise, Store
<1>3. /\ \A q \in Partitions : promised.reserved[q] =
            IF q = p THEN st.reserved[q] + units ELSE st.reserved[q]
      /\ promised.held = st.held
      /\ promised.heldUnits = st.heldUnits
      /\ promised.resident = st.resident /\ promised.peak = st.peak
  BY <1>1, ReservedTotals
<1>4. /\ Contexts \in [Requests -> Nat]
      /\ \A x \in {r} : lefts[x] \in Nat
  BY WorkloadType DEF Contexts
<1>5. new \in Store
  BY <1>2, <1>4, CommittedType
<1>6. /\ new.promised = [x \in Requests |-> IF x \in {r} THEN 0 ELSE promised.promised[x]]
      /\ new.placement = promised.placement
      /\ new.decodes = [q \in Partitions |-> promised.decodes[q] \cup on(q)]
      /\ new.context = [x \in Requests |-> IF x \in {r} THEN Contexts[x] ELSE promised.context[x]]
      /\ new.remaining = [x \in Requests |-> IF x \in {r} THEN lefts[x] ELSE promised.remaining[x]]
  <2>1. ASSUME NEW S \in SUBSET Requests, NEW tokens, NEW some
        PROVE  LET joined == Committed(promised, S, tokens, some)
               IN  /\ joined.promised = [x \in Requests |-> IF x \in S THEN 0 ELSE promised.promised[x]]
                   /\ joined.placement = promised.placement
                   /\ joined.decodes = [q \in Partitions |-> promised.decodes[q] \cup (S \cap PlacedOn(promised, q))]
                   /\ joined.context = [x \in Requests |-> IF x \in S THEN tokens[x] ELSE promised.context[x]]
                   /\ joined.remaining = [x \in Requests |-> IF x \in S THEN some[x] ELSE promised.remaining[x]]
    <3>1. promised \in Store
      BY <1>2
    <3>. QED  BY ONLY <3>1, S \in SUBSET Requests, CommittedFields
  <2>. QED  BY <2>1
<1>7. /\ \A q \in Partitions :
            /\ new.reserved[q] = promised.reserved[q] - SumOver(promised.promised, on(q))
            /\ new.resident[q] = promised.resident[q] + SumOver(Contexts, on(q))
            /\ on(q) = {} => new.peak[q] = promised.peak[q]
            /\ on(q) # {} => new.peak[q] = ProjectedPeak(new, new.decodes[q])
      /\ new.held = promised.held /\ new.heldUnits = promised.heldUnits
  <2>1. ASSUME NEW S, NEW tokens, NEW some
        PROVE  LET joined == Committed(promised, S, tokens, some)
                   over(q) == S \cap PlacedOn(promised, q)
               IN  /\ \A q \in Partitions :
                         /\ joined.reserved[q] = promised.reserved[q] - SumOver(promised.promised, over(q))
                         /\ joined.resident[q] = promised.resident[q] + SumOver(tokens, over(q))
                         /\ over(q) = {} => joined.peak[q] = promised.peak[q]
                         /\ over(q) # {} => joined.peak[q] = ProjectedPeak(joined, joined.decodes[q])
                   /\ joined.held = promised.held /\ joined.heldOn = promised.heldOn
                   /\ joined.heldUnits = promised.heldUnits
                   /\ joined.cache = promised.cache
    <3>1. promised \in Store
      BY <1>2
    <3>. QED  BY ONLY <3>1, CommittedTotals
  <2>2. /\ \A q \in Partitions :
              /\ new.reserved[q] = promised.reserved[q] - SumOver(promised.promised, on(q))
              /\ new.resident[q] = promised.resident[q] + SumOver(Contexts, on(q))
              /\ on(q) = {} => new.peak[q] = promised.peak[q]
              /\ on(q) # {} => new.peak[q] = ProjectedPeak(new, new.decodes[q])
        /\ new.held = promised.held /\ new.heldOn = promised.heldOn
        /\ new.heldUnits = promised.heldUnits
        /\ new.cache = promised.cache
    BY ONLY <2>1, SMTT(30)
  <2>. QED  BY <2>2
<1> HIDE DEF new
<1>8. \A q \in Partitions : /\ on(q) = IF q = p THEN {r} ELSE {}
                            /\ r \notin PlacedOn(st, q)
                            /\ PlacedOn(promised, q) =
                                  IF q = p THEN PlacedOn(st, q) \cup {r} ELSE PlacedOn(st, q)
  <2>1. ASSUME NEW q \in Partitions
        PROVE  /\ r \notin PlacedOn(st, q)
               /\ PlacedOn(promised, q) =
                     IF q = p THEN PlacedOn(st, q) \cup {r} ELSE PlacedOn(st, q)
    <3>1. r \notin PlacedOn(st, q)
      BY DEF PullSound
    <3>. QED  BY <1>1, <1>2, <3>1 DEF PlacedOn, Store
  <2>. QED  BY <2>1
<1> HIDE DEF on
<1>9. \A q \in Partitions : new.decodes[q] = IF q = p THEN st.decodes[q] \cup {r} ELSE st.decodes[q]
  BY <1>2, <1>6, <1>8
<1>10. new.decodes = [st.decodes EXCEPT ![p] = st.decodes[p] \cup {r}]
  <2>1. new.decodes \in [Partitions -> SUBSET Requests]
        /\ st.decodes \in [Partitions -> SUBSET Requests]
    BY <1>1, <1>5 DEF Store
  <2>. QED  BY <1>9, <2>1
<1>11. new.context = [st.context EXCEPT ![r] = ContextOf(r)]
  BY <1>1, <1>2, <1>6 DEF Contexts, Store
<1>12. new.remaining = [st.remaining EXCEPT ![r] = left]
  BY <1>1, <1>2, <1>6 DEF Store
<1>13. \A x \in Requests : new.promised[x] = 0 /\ new.held[x] = 0
  BY <1>1, <1>2, <1>3, <1>6, <1>7 DEF PullSound, Store
<1>14. SumOver(promised.promised, {r}) = units /\ SumOver(Contexts, {r}) = ContextOf(r)
       /\ SumOver(promised.promised, {}) = 0 /\ SumOver(Contexts, {}) = 0
       /\ SumOver([x \in Requests |-> units], {r}) = units
  <2> DEFINE all == [x \in Requests |-> units]
  <2>1. IsFiniteSet({r}) /\ {r} \ {r} = {} /\ Contexts[r] = ContextOf(r) /\ r \in {r}
        /\ promised.promised[r] = units /\ all[r] = units
    BY <1>1, <1>2, FiniteUniverse DEF Contexts, Store
  <2> HIDE DEF all
  <2>2. \A y \in {r} : Contexts[y] \in Int /\ promised.promised[y] \in Int /\ all[y] \in Int
    BY <1>1, <2>1
  <2>3. SumOver(Contexts, {r}) = Contexts[r] + SumOver(Contexts, {r} \ {r})
    BY ONLY <2>1, <2>2, SumRemove
  <2>4. SumOver(promised.promised, {r})
          = promised.promised[r] + SumOver(promised.promised, {r} \ {r})
    BY ONLY <2>1, <2>2, SumRemove
  <2>5. SumOver(all, {r}) = all[r] + SumOver(all, {r} \ {r})
    BY ONLY <2>1, <2>2, SumRemove
  <2>6. SumOver(promised.promised, {}) = 0 /\ SumOver(Contexts, {}) = 0 /\ SumOver(all, {}) = 0
    BY FS_EmptySet, SumZero
  <2>7. SumOver(Contexts, {r}) = ContextOf(r) + 0
    BY <2>1, <2>3, <2>6
  <2>8. SumOver(promised.promised, {r}) = units + 0
    BY <2>1, <2>4, <2>6
  <2>9. SumOver(all, {r}) = units + 0
    BY <2>1, <2>5, <2>6
  <2>10. SumOver(all, {r}) = units /\ SumOver(Contexts, {r}) = ContextOf(r)
         /\ SumOver(promised.promised, {r}) = units
    BY <1>1, <2>7, <2>8, <2>9
  <2>. QED  BY <2>6, <2>10 DEF all
<1>15. ASSUME NEW q \in Partitions
       PROVE  /\ PlacedOn(new, q) = new.decodes[q]
              /\ new.reserved[q] = 0 /\ new.heldUnits[q] = 0
  <2>1. PlacedOn(st, q) = st.decodes[q] /\ st.reserved[q] = 0 /\ st.heldUnits[q] = 0
    BY DEF PullSound
  <2>2. PlacedOn(new, q) = PlacedOn(promised, q)
    BY <1>6 DEF PlacedOn
  <2>3. PlacedOn(new, q) = new.decodes[q]
    BY <1>8, <1>9, <2>1, <2>2
  <2>4. new.reserved[q] = 0
    <3>1. promised.reserved[q] = IF q = p THEN units ELSE 0
      BY <1>1, <1>3, <2>1
    <3>2. SumOver(promised.promised, on(q)) = IF q = p THEN units ELSE 0
      BY <1>8, <1>14
    <3>3. promised.reserved[q] - SumOver(promised.promised, on(q)) = 0
      BY <1>1, <3>1, <3>2
    <3>. QED  BY <1>7, <3>3
  <2>. QED  BY <1>3, <1>7, <2>1, <2>3, <2>4
<1>16. ASSUME NEW q \in Partitions
       PROVE  new.resident[q] = SumOver(new.context, new.decodes[q])
  <2>1. st.resident[q] = SumOver(st.context, st.decodes[q])
    BY DEF PullSound
  <2>2. \A x \in st.decodes[q] : new.context[x] = st.context[x] /\ new.context[x] \in Int
    BY <1>1, <1>5, <1>11 DEF Store
  <2>3. SumOver(new.context, st.decodes[q]) = SumOver(st.context, st.decodes[q])
    BY <1>1, <2>2, PullsType, SumAgree
  <2>4. st.resident[q] \in Int
    BY <1>1, PullsType
  <2>5. new.resident[q] = st.resident[q] + SumOver(Contexts, on(q))
    BY <1>3, <1>7
  <2>6. CASE q # p
    <3>1. SumOver(Contexts, on(q)) = 0 /\ new.decodes[q] = st.decodes[q]
      BY <1>8, <1>9, <1>14, <2>6
    <3>. QED  BY <2>1, <2>3, <2>4, <2>5, <3>1
  <2>7. CASE q = p
    <3>1. SumOver(Contexts, on(q)) = ContextOf(r) /\ new.decodes[q] = st.decodes[q] \cup {r}
      BY <1>8, <1>9, <1>14, <2>7
    <3>2. new.context[r] = ContextOf(r)
      BY <1>1, <1>11 DEF Store
    <3>3. (st.decodes[q] \cup {r}) \ {r} = st.decodes[q] /\ r \in st.decodes[q] \cup {r}
      OBVIOUS
    <3>4. IsFiniteSet(st.decodes[q] \cup {r})
          /\ \A x \in st.decodes[q] \cup {r} : new.context[x] \in Int
      <4>1. st.decodes[q] \cup {r} \in SUBSET Requests
        BY <1>1, PullsType
      <4>. QED  BY <1>1, <2>2, <3>2, <4>1, FiniteUniverse
    <3>5. SumOver(new.context, st.decodes[q] \cup {r})
            = new.context[r] + SumOver(new.context, (st.decodes[q] \cup {r}) \ {r})
      BY <3>3, <3>4, SumRemove
    <3>6. SumOver(new.context, st.decodes[q] \cup {r}) = ContextOf(r) + st.resident[q]
      BY <2>1, <2>3, <3>2, <3>3, <3>5
    <3>. QED  BY <1>1, <2>4, <2>5, <3>1, <3>6
  <2>. QED  BY <2>6, <2>7
<1>17. ASSUME NEW q \in Partitions
       PROVE  /\ Cardinality(new.decodes[q]) < ExactBelow =>
                    ReachedPeak(new, new.decodes[q]) <= new.peak[q]
              /\ few => new.peak[q] <= Capacity
  <2>1. /\ Cardinality(st.decodes[q]) < ExactBelow =>
              ReachedPeak(st, st.decodes[q]) <= st.peak[q]
        /\ few => st.peak[q] <= Capacity /\ Cardinality(st.decodes[q]) < ExactBelow
        /\ st.reserved[q] = 0 /\ st.heldUnits[q] = 0
    BY DEF PullSound, FewDecodes
  <2>2. /\ st.decodes[q] \in SUBSET Requests /\ st.peak[q] \in Int /\ Capacity \in Nat
        /\ ReachedPeak(st, st.decodes[q]) \in Int /\ ReachedPeak(new, st.decodes[q]) \in Int
        /\ ReachedPeak(new, new.decodes[q]) \in Int
        /\ ProjectedPeak(new, new.decodes[q]) \in Int
        /\ ProjectedPeak(new, new.decodes[q]) <= ReachedPeak(new, new.decodes[q])
        /\ Cardinality(new.decodes[q]) < ExactBelow =>
              ProjectedPeak(new, new.decodes[q]) = ReachedPeak(new, new.decodes[q])
        /\ st.decodes[q] \in SUBSET st.decodes[q]
    <3>1. st.decodes[q] \in SUBSET Requests /\ st.peak[q] \in Int /\ Capacity \in Nat
          /\ ReachedPeak(st, st.decodes[q]) \in Int
      BY <1>1, PullsType
    <3>2. new.decodes[q] \in SUBSET Requests
      BY <1>5, PullsType
    <3>. QED  BY <1>5, <3>1, <3>2, PeakType, PullsType
  <2>3. \A x \in st.decodes[q] : /\ new.context[x] = st.context[x]
                                 /\ new.remaining[x] = st.remaining[x]
    BY <1>1, <1>11, <1>12 DEF Store
  <2>4. ReachedPeak(new, st.decodes[q]) <= ReachedPeak(st, st.decodes[q])
    BY <1>1, <1>5, <2>2, <2>3, PeakOfPart
  <2>5. CASE q # p
    <3>1. new.peak[q] = st.peak[q] /\ new.decodes[q] = st.decodes[q]
      BY <1>3, <1>7, <1>8, <1>9, <2>5
    <3>. QED  BY <2>1, <2>2, <2>4, <3>1
  <2>6. CASE q = p
    <3> DEFINE all == [x \in Requests |-> units]
    <3>1. new.peak[q] = ProjectedPeak(new, new.decodes[q])
          /\ new.decodes[q] = st.decodes[q] \cup {r}
      BY <1>7, <1>8, <1>9, <2>6
    <3>2. all[r] = units /\ new.context[r] = ContextOf(r) /\ new.remaining[r] = left
      BY <1>1, <1>11, <1>12 DEF Store
    <3>3. SumOver(all, {r}) = units
      BY <1>14
    <3> HIDE DEF all
    <3>4. /\ {r} \in SUBSET Requests /\ st.decodes[q] \cap {r} = {}
          /\ \A x \in {r} : all[x] \in Nat /\ new.context[x] + new.remaining[x] <= all[x]
      BY <1>1, <3>2
    <3>5. ReachedPeak(new, st.decodes[q] \cup {r})
            <= ReachedPeak(new, st.decodes[q]) + SumOver(all, {r})
      BY <1>5, <2>2, <3>4, PeakOfJoined
    <3>6. st.peak[q] + units <= Capacity
      BY <1>1, <2>1, <2>2, <2>6 DEF Fits
    <3>7. Cardinality(new.decodes[q]) < ExactBelow => ReachedPeak(new, new.decodes[q]) <= new.peak[q]
      BY <2>2, <3>1
    <3>8. ASSUME few PROVE new.peak[q] <= Capacity
      <4>1. new.peak[q] <= ReachedPeak(new, st.decodes[q] \cup {r})
        BY <2>2, <3>1
      <4>2. ReachedPeak(st, st.decodes[q]) <= st.peak[q]
        BY <2>1, <3>8
      <4>. QED  BY <1>1, <2>2, <2>4, <3>1, <3>3, <3>5, <3>6, <4>1, <4>2
    <3>. QED  BY <3>7, <3>8
  <2>. QED  BY <2>5, <2>6
<1>18. PullSound(new, few)
  BY <1>5, <1>13, <1>15, <1>16, <1>17 DEF PullSound
<1>19. \A x \in Requests : new.remaining[x] = IF x = r THEN left ELSE st.remaining[x]
  BY <1>1, <1>2, <1>6
<1>. QED  BY <1>9, <1>18, <1>19 DEF new, Joins

\* A decode step: every resident decode grows by a token.
LEMMA AdvancePullsStore ==
    ASSUME NEW few \in BOOLEAN, NEW st, PullSound(st, few),
           few => FewDecodes(st), \A r \in ResidentOf(st) : st.remaining[r] > 0
    PROVE  LET new == Advanced(st, ResidentOf(st))
           IN  /\ PullSound(new, few)
               /\ new.decodes = st.decodes
               /\ new.placement = st.placement
               /\ \A r \in ResidentOf(st) : new.remaining[r] = st.remaining[r] - 1
<1> DEFINE live == ResidentOf(st)
           new == Advanced(st, live)
<1>1. st \in Store /\ live \in SUBSET Requests
      /\ \A q \in Partitions : st.decodes[q] \in SUBSET live
  BY DEF PullSound, ResidentOf, Store
<1>2. /\ new \in Store
      /\ new.promised = st.promised /\ new.placement = st.placement
      /\ new.decodes = st.decodes
      /\ new.context = [r \in Requests |->
           IF r \in live THEN st.context[r] + 1 ELSE st.context[r]]
      /\ new.remaining = [r \in Requests |->
           IF r \in live THEN st.remaining[r] - 1 ELSE st.remaining[r]]
  BY <1>1, AdvancedType, AdvancedFields
<1>3. /\ \A q \in Partitions : new.resident[q] =
           st.resident[q] + Cardinality(live \cap st.decodes[q])
      /\ new.held = st.held /\ new.heldUnits = st.heldUnits
      /\ new.reserved = st.reserved /\ new.peak = st.peak
  BY <1>1, AdvancedTotals
<1>4. \A r \in live : st.remaining[r] > 0 /\ new.context[r] = st.context[r] + 1
                      /\ new.remaining[r] = st.remaining[r] - 1
  BY <1>1, <1>2
<1> HIDE DEF new, live
<1>5. ASSUME NEW q \in Partitions
      PROVE  /\ PlacedOn(new, q) = new.decodes[q] /\ new.reserved[q] = 0
             /\ new.heldUnits[q] = 0 /\ (few => new.peak[q] <= Capacity)
  <2>1. PlacedOn(new, q) = PlacedOn(st, q)
    BY <1>2 DEF PlacedOn
  <2>. QED  BY <1>2, <1>3, <2>1 DEF PullSound
<1>6. ASSUME NEW q \in Partitions
      PROVE  new.resident[q] = SumOver(new.context, new.decodes[q])
  <2> DEFINE ones == [r \in Requests |-> 1]
  <2>1. \A r \in st.decodes[q] : /\ st.context[r] \in Int /\ ones[r] = 1
                                 /\ new.context[r] = st.context[r] + ones[r]
    <3>1. st.decodes[q] \in SUBSET Requests
      BY <1>1, PullsType
    <3>. QED  BY <1>1, <1>4, <3>1 DEF Store
  <2> HIDE DEF ones
  <2>2. SumOver(ones, st.decodes[q]) = Cardinality(st.decodes[q])
    BY <1>1, <2>1, PullsType, SumOnes
  <2>3. SumOver(new.context, st.decodes[q]) =
           SumOver(st.context, st.decodes[q]) + SumOver(ones, st.decodes[q])
    BY <1>1, <2>1, PullsType, SumAdd
  <2>4. live \cap st.decodes[q] = st.decodes[q]
    BY <1>1
  <2>5. st.resident[q] = SumOver(st.context, st.decodes[q])
    BY DEF PullSound
  <2>. QED  BY <1>2, <1>3, <2>2, <2>3, <2>4, <2>5
<1>7. ASSUME NEW q \in Partitions
      PROVE  Cardinality(new.decodes[q]) < ExactBelow =>
                ReachedPeak(new, new.decodes[q]) <= new.peak[q]
  <2>1. st.decodes[q] \in SUBSET Requests /\ st.peak[q] \in Int
        /\ ReachedPeak(st, st.decodes[q]) \in Int /\ ReachedPeak(new, st.decodes[q]) \in Int
    BY <1>1, <1>2, PullsType
  <2>2. \A r \in st.decodes[q] : /\ st.remaining[r] > 0 /\ new.context[r] = st.context[r] + 1
                                 /\ new.remaining[r] = st.remaining[r] - 1
    BY <1>1, <1>4
  <2>3. ReachedPeak(new, st.decodes[q]) <= ReachedPeak(st, st.decodes[q])
    BY <1>1, <1>2, <2>1, <2>2, PeakAfterStep
  <2>4. Cardinality(st.decodes[q]) < ExactBelow => ReachedPeak(st, st.decodes[q]) <= st.peak[q]
    BY DEF PullSound
  <2>. QED  BY <1>2, <1>3, <2>1, <2>3, <2>4
<1>8. \A r \in Requests : new.promised[r] = 0 /\ new.held[r] = 0
  BY <1>2, <1>3 DEF PullSound
<1>9. PullSound(new, few)
  BY <1>2, <1>5, <1>6, <1>7, <1>8 DEF PullSound
<1>. QED  BY <1>2, <1>4, <1>9 DEF new, live

\* What is left of the partitions when a decode is released.
LEMMA ReleasePulls ==
    ASSUME NEW few \in BOOLEAN, NEW st, PullSound(st, few),
           few => FewDecodes(st), NEW p \in Partitions, NEW r \in st.decodes[p]
    PROVE  LET new == Released(st, r, p)
           IN  /\ PullSound(new, few)
               /\ \A q \in Partitions : new.decodes[q] = st.decodes[q] \ {r}
               /\ \A x \in Requests \ {r} : /\ new.remaining[x] = st.remaining[x]
                                            /\ new.placement[x] = st.placement[x]
<1> DEFINE new == Released(st, r, p)
<1>1. st \in Store /\ r \in Requests /\ st.held[r] = 0 /\ st.promised[r] = 0
      /\ p # NoPartition
  <2>1. st \in Store
    BY DEF PullSound
  <2>2. r \in Requests
    BY <2>1, PullsType
  <2>. QED  BY <2>1, <2>2, StoreAssumption DEF PullSound, Partitions
<1>2. /\ new \in Store
      /\ new.placement = [st.placement EXCEPT ![r] = NoPartition]
      /\ new.promised = [st.promised EXCEPT ![r] = 0]
      /\ new.decodes = [st.decodes EXCEPT ![p] = st.decodes[p] \ {r}]
      /\ \A q \in Requests \ {r} :
            /\ new.context[q] = st.context[q]
            /\ new.remaining[q] = st.remaining[q]
  BY <1>1, ReleasedType
<1>3. /\ new.reserved = st.reserved /\ new.held = st.held
      /\ new.heldUnits = st.heldUnits
      /\ new.resident[p] = st.resident[p] - st.context[r]
      /\ new.peak[p] = ProjectedPeak(st, st.decodes[p] \ {r})
      /\ \A q \in Partitions : q # p =>
            new.resident[q] = st.resident[q] /\ new.peak[q] = st.peak[q]
  BY <1>1, ReleasedTotals
<1> HIDE DEF new
<1>4. \A q \in Partitions : /\ new.decodes[q] = st.decodes[q] \ {r}
                            /\ q # p => r \notin st.decodes[q]
                            /\ PlacedOn(st, q) = st.decodes[q]
                            /\ PlacedOn(new, q) = new.decodes[q]
  <2>1. ASSUME NEW q \in Partitions PROVE PlacedOn(st, q) = st.decodes[q]
    BY DEF PullSound
  <2>2. st.placement[r] = p
    BY <2>1 DEF PlacedOn
  <2>3. ASSUME NEW q \in Partitions, q # p PROVE r \notin st.decodes[q]
    BY <2>1, <2>2, <2>3 DEF PlacedOn
  <2>4. ASSUME NEW q \in Partitions PROVE new.decodes[q] = st.decodes[q] \ {r}
    BY <1>1, <1>2, <2>3 DEF Store
  <2>5. ASSUME NEW q \in Partitions PROVE PlacedOn(new, q) = PlacedOn(st, q) \ {r}
    BY <1>1, <1>2, StoreAssumption DEF PlacedOn, Store, Partitions
  <2>. QED  BY <2>1, <2>3, <2>4, <2>5
<1>5. ASSUME NEW q \in Partitions
      PROVE  /\ new.reserved[q] = 0 /\ new.heldUnits[q] = 0
             /\ new.resident[q] = SumOver(new.context, new.decodes[q])
             /\ Cardinality(new.decodes[q]) < ExactBelow =>
                   ReachedPeak(new, new.decodes[q]) <= new.peak[q]
             /\ few => new.peak[q] <= Capacity
  <2>1. /\ st.reserved[q] = 0 /\ st.heldUnits[q] = 0
        /\ st.resident[q] = SumOver(st.context, st.decodes[q])
        /\ Cardinality(st.decodes[q]) < ExactBelow =>
              ReachedPeak(st, st.decodes[q]) <= st.peak[q]
        /\ few => st.peak[q] <= Capacity /\ Cardinality(st.decodes[q]) < ExactBelow
    BY DEF PullSound, FewDecodes
  <2>2. /\ st.decodes[q] \in SUBSET Requests /\ IsFiniteSet(st.decodes[q])
        /\ st.decodes[q] \ {r} \in SUBSET st.decodes[q]
        /\ st.decodes[q] \ {r} \in SUBSET Requests
        /\ st.decodes[q] \ {r} \in SUBSET (st.decodes[q] \ {r})
        /\ IsFiniteSet(st.decodes[q] \ {r})
    <3>1. st.decodes[q] \in SUBSET Requests /\ IsFiniteSet(st.decodes[q])
      BY <1>1, PullsType
    <3>2. st.decodes[q] \ {r} \in SUBSET Requests
      BY <3>1
    <3>. QED  BY <3>1, <3>2, FiniteUniverse
  <2>3. \A x \in st.decodes[q] \ {r} : /\ new.context[x] = st.context[x]
                                       /\ new.remaining[x] = st.remaining[x]
    BY <1>2, <2>2
  <2>4. \A x \in st.decodes[q] : st.context[x] \in Int
    BY <1>1, <2>2 DEF Store
  <2>5. SumOver(new.context, st.decodes[q] \ {r}) = SumOver(st.context, st.decodes[q] \ {r})
    BY <2>2, <2>3, SumAgree
  <2>6. SumOver(st.context, st.decodes[q] \ {r}) \in Int
    BY <2>2, <2>4, SumType
  <2>7. /\ ReachedPeak(new, st.decodes[q] \ {r}) <= ReachedPeak(st, st.decodes[q] \ {r})
        /\ ReachedPeak(st, st.decodes[q] \ {r}) <= ReachedPeak(st, st.decodes[q])
    BY <1>1, <1>2, <2>2, <2>3, PeakOfPart
  <2>8. /\ ReachedPeak(new, st.decodes[q] \ {r}) \in Int /\ Capacity \in Nat
        /\ ReachedPeak(st, st.decodes[q] \ {r}) \in Int
        /\ ReachedPeak(st, st.decodes[q]) \in Int
        /\ ProjectedPeak(st, st.decodes[q] \ {r}) \in Int
        /\ ProjectedPeak(st, st.decodes[q] \ {r}) <= ReachedPeak(st, st.decodes[q] \ {r})
        /\ Cardinality(st.decodes[q] \ {r}) < ExactBelow =>
              ProjectedPeak(st, st.decodes[q] \ {r}) = ReachedPeak(st, st.decodes[q] \ {r})
        /\ st.peak[q] \in Int /\ st.resident[q] \in Int
    BY <1>1, <1>2, <2>2, PullsType
  <2>9. CASE q = p
    <3>1. SumOver(st.context, st.decodes[q]) = st.context[r] + SumOver(st.context, st.decodes[q] \ {r})
      BY <2>2, <2>4, <2>9, SumRemove
    <3>2. new.resident[q] = SumOver(st.context, st.decodes[q] \ {r})
      BY <1>3, <2>1, <2>4, <2>6, <2>9, <3>1
    <3>3. new.peak[q] = ProjectedPeak(st, st.decodes[q] \ {r})
          /\ new.decodes[q] = st.decodes[q] \ {r}
      BY <1>3, <1>4, <2>9
    <3>4. /\ Cardinality(new.decodes[q]) < ExactBelow =>
                ReachedPeak(new, new.decodes[q]) <= new.peak[q]
          /\ few => new.peak[q] <= Capacity
      BY <2>1, <2>7, <2>8, <3>3
    <3>. QED  BY <1>3, <2>1, <2>5, <3>2, <3>3, <3>4
  <2>10. CASE q # p
    <3>1. st.decodes[q] \ {r} = st.decodes[q]
      BY <1>4, <2>10
    <3>2. /\ new.decodes[q] = st.decodes[q] /\ new.peak[q] = st.peak[q]
          /\ new.resident[q] = st.resident[q]
      BY <1>3, <1>4, <2>10, <3>1
    <3>3. ReachedPeak(new, st.decodes[q]) <= ReachedPeak(st, st.decodes[q])
      BY <2>7, <3>1
    <3>4. /\ ReachedPeak(new, st.decodes[q]) \in Int /\ ReachedPeak(st, st.decodes[q]) \in Int
          /\ SumOver(new.context, st.decodes[q]) = SumOver(st.context, st.decodes[q])
      BY <2>5, <2>8, <3>1
    <3>. QED  BY <1>3, <2>1, <2>8, <3>2, <3>3, <3>4
  <2>. QED  BY <2>9, <2>10
<1>6. \A x \in Requests : new.promised[x] = 0 /\ new.held[x] = 0
  BY <1>1, <1>2, <1>3 DEF PullSound, Store
<1>7. PullSound(new, few)
  BY <1>2, <1>4, <1>5, <1>6 DEF PullSound
<1>. QED  BY <1>1, <1>2, <1>4, <1>7 DEF new, Store

-----------------------------------------------------------------------------
(* The releases of an iteration, one after another: the recursion behind     *)
(* ReleasedEach has a solution, as that of SumOver.                          *)

ReleaseDef(st, S, g) ==
    g = [s \in SUBSET S |->
           IF s = {} THEN st
           ELSE Released(g[s \ {PickSome(s)}], PickSome(s), st.placement[PickSome(s)])]

ReleaseSolution(st, S) == CHOOSE g : ReleaseDef(st, S, g)

\* The store they leave is the solution, taken at the whole set.
LEMMA ReleasedEachIter == \A st, S : ReleasedEach(st, S) = ReleaseSolution(st, S)[S]
BY DEF ReleasedEach, ReleaseSolution, ReleaseDef, FoldSet, MapThenFoldSet, PickSome

\* Extend a solution for the sets of at most n requests to those of n + 1.
LEMMA ReleaseExists ==
    ASSUME NEW S, IsFiniteSet(S), NEW st
    PROVE  \E g : ReleaseDef(st, S, g)
<1> DEFINE Upto(n) == { s \in SUBSET S : Cardinality(s) <= n }
           Step(g, s) == Released(g[s \ {PickSome(s)}], PickSome(s), st.placement[PickSome(s)])
           Body(g, s) == IF s = {} THEN st ELSE Step(g, s)
           Good(n, g) == \A s \in Upto(n) : g[s] = Body(g, s)
           G == { n \in Nat : \E g : Good(n, g) }
<1>1. \A s \in SUBSET S : Cardinality(s) \in Nat /\ IsFiniteSet(s)
  BY FS_Subset, FS_CardinalityType
<1>0. ASSUME NEW g, NEW h, NEW s, g[s \ {PickSome(s)}] = h[s \ {PickSome(s)}]
      PROVE  Body(g, s) = Body(h, s)
  BY <1>0
<1> HIDE DEF Step
<1>2. 0 \in G
  <2>1. \A s \in Upto(0) : s = {}
    BY <1>1, FS_EmptySet
  <2> DEFINE g0 == [s \in SUBSET S |-> st]
  <2>2. Good(0, g0)
    BY <2>1
  <2>. QED  BY <2>2
<1>3. ASSUME NEW n \in G PROVE n + 1 \in G
  <2>1. PICK g : Good(n, g)
    BY <1>3
  <2> DEFINE h == [s \in SUBSET S |-> Body(g, s)]
  <2>2. ASSUME NEW s \in Upto(n+1), s # {}
        PROVE  s \ {PickSome(s)} \in Upto(n)
    <3>1. PickSome(s) \in s
      BY <2>2 DEF PickSome
    <3>2. Cardinality(s \ {PickSome(s)}) = Cardinality(s) - 1
      BY <3>1, <1>1, FS_RemoveElement
    <3>. QED  BY <3>2, <1>1
  <2>3. ASSUME NEW s \in Upto(n) PROVE h[s] = g[s]
    BY <2>1
  <2>4. ASSUME NEW s \in Upto(n+1) PROVE h[s] = Body(h, s)
    <3>1. h[s] = Body(g, s)
      OBVIOUS
    <3> HIDE DEF h
    <3>2. CASE s = {}
      BY <3>1, <3>2
    <3>3. CASE s # {}
      <4>1. h[s \ {PickSome(s)}] = g[s \ {PickSome(s)}]
        BY <2>2, <2>3, <3>3
      <4> HIDE DEF Body
      <4>2. Body(g, s) = Body(h, s)
        BY <1>0, <4>1
      <4>. QED  BY <3>1, <4>2
    <3>. QED  BY <3>2, <3>3
  <2>5. Good(n + 1, h)
    <3> HIDE DEF h, Body
    <3>. QED  BY <2>4
  <2>6. \E k : Good(n + 1, k)
    <3> HIDE DEF h, Good
    <3>. QED  BY <2>5
  <2>7. n \in Nat
    BY <1>3
  <2> HIDE DEF h, Good
  <2>. QED  BY <2>6, <2>7
<1>4. Cardinality(S) \in G
  <2>1. \A n \in Nat : n \in G
    <3> HIDE DEF G
    <3>1. 0 \in G /\ \A n \in Nat : n \in G => n + 1 \in G
      BY <1>2, <1>3
    <3>. QED  BY <3>1, NatSetInduction
  <2>. QED  BY <2>1, <1>1
<1>5. PICK g : Good(Cardinality(S), g)
  BY <1>4
<1>6. \A s \in SUBSET S : s \in Upto(Cardinality(S))
  BY <1>1, FS_Subset
<1> DEFINE h == [s \in SUBSET S |-> g[s]]
<1>7. ReleaseDef(st, S, h)
  <2>1. ASSUME NEW s \in SUBSET S PROVE h[s] = Body(h, s)
    <3>1. g[s] = Body(g, s)
      BY <1>5, <1>6
    <3>2. s \ {PickSome(s)} \in SUBSET S
      OBVIOUS
    <3>3. h[s] = g[s] /\ h[s \ {PickSome(s)}] = g[s \ {PickSome(s)}]
      BY <3>2
    <3> HIDE DEF h, Body
    <3>4. Body(g, s) = Body(h, s)
      BY <1>0, <3>3
    <3>. QED  BY <3>1, <3>3, <3>4
  <2>2. h = [s \in SUBSET S |-> Body(h, s)]
    <3> DEFINE k == [s \in SUBSET S |-> Body(h, s)]
    <3>1. \A s \in SUBSET S : k[s] = h[s]
      BY <2>1
    <3>2. h = [s \in SUBSET S |-> h[s]]
      OBVIOUS
    <3>3. k = [s \in SUBSET S |-> k[s]]
      OBVIOUS
    <3> HIDE DEF h, k
    <3>4. h = k  BY <3>1, <3>2, <3>3
    <3>. QED  BY <3>4 DEF k
  <2>. QED  BY <2>2 DEF ReleaseDef, Step
<1>. QED  BY <1>7

\* What is left when a set of resident decodes has been released.
LEMMA ReleaseEachPulls ==
    ASSUME NEW few \in BOOLEAN, NEW st, PullSound(st, few),
           few => FewDecodes(st), NEW S \in SUBSET ResidentOf(st)
    PROVE  LET new == ReleasedEach(st, S)
           IN  /\ PullSound(new, few)
               /\ \A q \in Partitions : new.decodes[q] = st.decodes[q] \ S
               /\ \A x \in Requests \ S : new.remaining[x] = st.remaining[x]
<1>1. st \in Store /\ ResidentOf(st) \in SUBSET Requests
  BY DEF PullSound, Store, ResidentOf
<1>2. IsFiniteSet(S)
  BY <1>1, FiniteUniverse
<1> DEFINE g == ReleaseSolution(st, S)
           Left(T, new) == /\ PullSound(new, few)
                           /\ \A q \in Partitions : new.decodes[q] = st.decodes[q] \ T
                           /\ \A x \in Requests \ T : new.remaining[x] = st.remaining[x]
           G == { T \in SUBSET S : Left(T, g[T]) }
<1>3. ASSUME NEW T \in SUBSET S
      PROVE  g[T] = IF T = {} THEN st
                    ELSE Released(g[T \ {PickSome(T)}], PickSome(T), st.placement[PickSome(T)])
  <2>1. ReleaseDef(st, S, g)
    BY <1>2, ReleaseExists DEF ReleaseSolution
  <2> HIDE DEF g
  <2>. QED  BY <2>1 DEF ReleaseDef
<1> HIDE DEF g
<1>4. ASSUME NEW T \in SUBSET S, \A x \in T : T \ {x} \in G
      PROVE  T \in G
  <2>1. CASE T = {}
    <3>1. g[T] = st
      BY <1>3, <2>1
    <3>. QED  BY <2>1, <3>1
  <2>2. CASE T # {}
    <3> DEFINE r == PickSome(T)
               old == g[T \ {r}]
               p == st.placement[r]
    <3>1. r \in T
      BY <2>2 DEF PickSome
    <3>2. Left(T \ {r}, old)
      BY <1>4, <3>1
    <3>3. p \in Partitions /\ r \in st.decodes[p]
      <4>1. PICK q \in Partitions : r \in st.decodes[q]
        BY <3>1 DEF ResidentOf
      <4>2. PlacedOn(st, q) = st.decodes[q]
        BY DEF PullSound
      <4>. QED  BY <4>1, <4>2 DEF PlacedOn
    <3>4. g[T] = Released(old, r, p)
      BY <1>3, <2>2
    <3> HIDE DEF r, p, old
    <3>5. /\ r \in old.decodes[p] /\ PullSound(old, few)
          /\ few => FewDecodes(old)
      <4>1. \A q \in Partitions : old.decodes[q] \in SUBSET st.decodes[q]
        BY <3>2
      <4>. QED  BY <1>1, <3>2, <3>3, <4>1, FewerDecodes
    <3>6. /\ PullSound(g[T], few)
          /\ \A q \in Partitions : g[T].decodes[q] = old.decodes[q] \ {r}
          /\ \A x \in Requests \ {r} : g[T].remaining[x] = old.remaining[x]
      BY <3>3, <3>4, <3>5, ReleasePulls
    <3>7. \A q \in Partitions : g[T].decodes[q] = st.decodes[q] \ T
      BY <3>1, <3>2, <3>6
    <3>8. \A x \in Requests \ T : g[T].remaining[x] = st.remaining[x]
      BY <3>1, <3>2, <3>6
    <3>. QED  BY <3>6, <3>7, <3>8
  <2>. QED  BY <2>1, <2>2
<1>5. S \in G
  <2> HIDE DEF G
  <2>1. \A T \in SUBSET S : (\A x \in T : T \ {x} \in G) => T \in G
    BY <1>4
  <2>2. \A T \in SUBSET S : T \in G
    BY <1>2, <2>1, SubsetInduction
  <2>. QED  BY <2>2
<1>. QED  BY <1>5, ReleasedEachIter DEF g

-----------------------------------------------------------------------------
(* The retained tier under the operations of the store. *)

\* Every entry is as it was or gone.
OnlyEvicted(new, old) ==
    \A p \in Partitions : \A s \in Sessions : new[p][s] \in {0, old[p][s]}

\* shrink_to keeps an entry whole or drops it.
LEMMA ShrunkEvicts ==
    ASSUME NEW entries \in [Sessions -> Nat], NEW limit,
           NEW kept \in Shrunk(entries, limit)
    PROVE  \A s \in Sessions : kept[s] \in {0, entries[s]}
BY DEF Shrunk, Keeping

\* reserve evicts, if anything, from the partition it promises on.
LEMMA ReservedEvicts ==
    ASSUME NEW st \in Store, NEW r \in Requests, NEW p \in Partitions,
           NEW units \in Nat, NEW new \in Reserved(st, r, p, units)
    PROVE  OnlyEvicted(new.cache, st.cache)
<1> DEFINE promised == Promise(st, r, p, units)
<1>1. promised \in Store
  BY PromiseType
<1>2. promised.cache = st.cache
  BY DEF Promise, Store
<1>3. PICK entries \in Shrunk(st.cache[p], SoftSlack(promised, p)) :
         new = [promised EXCEPT !.cache[p] = entries]
  BY DEF Reserved
<1>4. st.cache[p] \in [Sessions -> Nat]
  BY DEF Store
<1>5. \A s \in Sessions : entries[s] \in {0, st.cache[p][s]}
  BY <1>4, ShrunkEvicts
<1> HIDE DEF promised
<1>6. \A q \in Partitions : new.cache[q] = IF q = p THEN entries ELSE st.cache[q]
  BY <1>1, <1>2, <1>3 DEF Store
<1>. QED  BY <1>5, <1>6 DEF OnlyEvicted

\* reserve_prefill_context: the hit is consumed, the rest is as it was or gone.
LEMMA ReservedPrefillEvicts ==
    ASSUME NEW st \in Store, NEW r \in Requests, NEW p \in Partitions,
           NEW units \in Nat, NEW new \in ReservedPrefill(st, r, p, units)
    PROVE  /\ OnlyEvicted(new.cache, st.cache)
           /\ HasSession(r) => new.cache[p][SessionOf[r]] = 0
<1>1. CASE HasSession(r)
  <2> DEFINE bare == [st EXCEPT !.cache[p][SessionOf[r]] = 0]
  <2>1. SessionOf[r] \in Sessions
    BY <1>1, WorkloadType DEF HasSession
  <2>2. bare \in Store /\ OnlyEvicted(bare.cache, st.cache)
        /\ bare.cache[p][SessionOf[r]] = 0
    BY <2>1 DEF Store, OnlyEvicted
  <2>3. new \in Reserved(bare, r, p, units)
    BY <1>1 DEF ReservedPrefill
  <2> HIDE DEF bare
  <2>4. OnlyEvicted(new.cache, bare.cache)
    BY <2>2, <2>3, ReservedEvicts
  <2>. QED  BY <2>1, <2>2, <2>4 DEF OnlyEvicted
<1>2. CASE ~HasSession(r)
  BY <1>2, ReservedEvicts DEF ReservedPrefill
<1>. QED  BY <1>1, <1>2

\* A release leaves the retained tier alone.
LEMMA ReleasedCache ==
    ASSUME NEW st \in Store, NEW r \in Requests, NEW p \in Partitions
    PROVE  Released(st, r, p).cache = st.cache
<1> DEFINE pulled == TakeHeld(st, r)
           unpromised == WithoutPromises(pulled, {r})
           bare == ReleaseDecode(unpromised, r, p)
<1>1. pulled \in Store
  BY TakeHeldType
<1>2. pulled.cache = st.cache
  BY DEF TakeHeld, Store
<1> HIDE DEF pulled
<1>3. unpromised \in Store
  BY <1>1, WithoutPromisesType
<1>4. unpromised.cache = st.cache
  BY <1>1, <1>2 DEF WithoutPromises, Store
<1> HIDE DEF unpromised
<1>5. bare.cache = st.cache
  BY <1>3, <1>4 DEF ReleaseDecode, Store
<1>6. bare \in Store
  BY <1>3, ReleaseDecodeType
<1>7. Released(st, r, p) = [bare EXCEPT !.placement[r] = NoPartition]
  BY DEF Released, pulled, unpromised
<1> HIDE DEF bare
<1>. QED  BY <1>5, <1>6, <1>7 DEF Store

\* release_retaining_prefix retains for the request's session on the partition
\* it ran on; every other entry is as it was or gone.
LEMMA ReleasedRetainingEvicts ==
    ASSUME NEW st \in Store, NEW r \in Requests, NEW p \in Partitions,
           NEW new \in ReleasedRetainingPrefix(st, r, p)
    PROVE  \A q \in Partitions : \A s \in Sessions :
              \/ new.cache[q][s] \in {0, st.cache[q][s]}
              \/ HasSession(r) /\ q = p /\ s = SessionOf[r]
<1> DEFINE bare == Released(st, r, p)
<1>1. bare \in Store /\ bare.cache = st.cache
  BY ReleasedType, ReleasedCache
<1> HIDE DEF bare
<1>2. CASE HasSession(r)
  <2> DEFINE tokens == IF r \in st.decodes[p] THEN st.context[r] ELSE ContextOf(r)
             cap  == Smaller(MaxRetained, SoftSlack(bare, p))
             kept == Smaller(tokens, cap)
             rest == [bare.cache[p] EXCEPT ![SessionOf[r]] = 0]
  <2>1. SessionOf[r] \in Sessions
    BY <1>2, WorkloadType DEF HasSession
  <2>2. new \in Retained(bare, p, SessionOf[r], tokens)
    BY <1>2 DEF ReleasedRetainingPrefix, bare
  <2>3. PICK entries \in Shrunk(rest, cap - kept) :
           new = [bare EXCEPT !.cache[p] = [entries EXCEPT ![SessionOf[r]] = kept]]
    BY <2>2 DEF Retained
  <2> HIDE DEF tokens, cap, kept
  <2>4. rest \in [Sessions -> Nat]
    BY <1>1, <2>1 DEF Store
  <2>5. /\ \A s \in Sessions : entries[s] \in {0, rest[s]}
        /\ entries \in [Sessions -> Nat]
    BY <2>3, <2>4, ShrunkEvicts, ShrunkType
  <2>6. \A q \in Partitions : new.cache[q] =
           IF q = p THEN [entries EXCEPT ![SessionOf[r]] = kept] ELSE st.cache[q]
    BY <1>1, <2>3 DEF Store
  <2>7. \A s \in Sessions \ {SessionOf[r]} : rest[s] = st.cache[p][s]
    BY <1>1 DEF Store
  <2> HIDE DEF rest
  <2>8. \A s \in Sessions \ {SessionOf[r]} : new.cache[p][s] \in {0, st.cache[p][s]}
    BY <2>5, <2>6, <2>7
  <2>. QED  BY <1>2, <2>6, <2>8
<1>3. CASE ~HasSession(r)
  BY <1>1, <1>3 DEF ReleasedRetainingPrefix, bare
<1>. QED  BY <1>2, <1>3

-----------------------------------------------------------------------------
(* The rounds of a session. *)

SameSession(q, r) == HasSession(r) /\ SessionOf[q] = SessionOf[r]

\* The rounds of a session arrive along its chain: the round before is done,
\* a later round finds the first one done, and of two rounds one has been
\* followed by another.
RoundsOrdered(here, past) ==
    /\ \A r \in here : Before[r] \in past \cup {NoRequest}
    /\ \A r \in here : (HasSession(r) /\ Before[r] # NoRequest) =>
          \E f \in past : SameSession(f, r) /\ Before[f] = NoRequest
    /\ \A q, r \in here : (q # r /\ SameSession(q, r)) =>
          \E x \in here : Before[x] \in {q, r}

\* Of two rounds of a session that have arrived, one is done.
LEMMA OneUndone ==
    ASSUME NEW here \in SUBSET Requests, NEW past, RoundsOrdered(here, past),
           NEW q \in here, NEW r \in here,
           SameSession(q, r), q \notin past, r \notin past
    PROVE  q = r
<1>. SUFFICES ASSUME q # r PROVE FALSE
  OBVIOUS
<1>1. PICK x \in here : Before[x] \in {q, r}
  BY DEF RoundsOrdered
<1>2. Before[x] \in past \cup {NoRequest}
  BY DEF RoundsOrdered
<1>3. q \in Requests /\ r \in Requests
  OBVIOUS
<1>. QED  BY <1>1, <1>2, <1>3, WorkloadAssumption

\* A round that arrives after the one before it keeps the order.
LEMMA OrderExtends ==
    ASSUME NEW here \in SUBSET Requests, NEW past \in SUBSET here, RoundsOrdered(here, past),
           NEW r \in Requests, r \notin here, Before[r] \in past \cup {NoRequest}
    PROVE  RoundsOrdered(here \cup {r}, past)
<1>1. NoRequest \notin Requests
  BY WorkloadAssumption
<1>2. \A q \in (here \cup {r}) : Before[q] \in past \cup {NoRequest}
  BY <1>1 DEF RoundsOrdered
<1>3. ASSUME NEW q \in (here \cup {r}), HasSession(q), Before[q] # NoRequest
      PROVE  \E f \in past : SameSession(f, q) /\ Before[f] = NoRequest
  <2>1. CASE q \in here
    BY <1>1, <1>3, <2>1 DEF RoundsOrdered
  <2>2. CASE q = r
    <3>1. /\ Before[r] \in past /\ Before[r] \in here
          /\ SessionOf[Before[r]] = SessionOf[r]
      BY <1>1, <1>3, <2>2, ChainAssumption
    <3>2. CASE Before[Before[r]] = NoRequest
      BY <1>1, <1>3, <2>2, <3>1, <3>2 DEF SameSession, HasSession
    <3>3. CASE Before[Before[r]] # NoRequest
      <4>1. PICK f \in past : SameSession(f, Before[r]) /\ Before[f] = NoRequest
        BY <1>3, <2>2, <3>1, <3>3 DEF RoundsOrdered, HasSession
      <4>. QED  BY <1>1, <2>2, <3>1, <4>1 DEF SameSession, HasSession
    <3>. QED  BY <3>2, <3>3
  <2>. QED  BY <1>1, <2>1, <2>2
\* A round of its session that came before r has been followed, if only by r.
<1>4. ASSUME NEW q \in here, SameSession(q, r)
      PROVE  \E x \in (here \cup {r}) : Before[x] \in {q, r}
  <2>1. CASE Before[r] = q
    BY <1>1, <2>1
  <2>2. CASE Before[r] \in past /\ Before[r] # q
    <3>1. Before[r] \in here /\ SameSession(Before[r], q)
      BY <1>1, <1>4, <2>2, ChainAssumption DEF SameSession, HasSession
    <3>2. PICK x \in here : Before[x] \in {Before[r], q}
      BY <2>2, <3>1 DEF RoundsOrdered
    <3>3. Before[x] # Before[r]
      <4>. SUFFICES ASSUME Before[x] = Before[r] PROVE FALSE
        OBVIOUS
      <4>1. x # r /\ x \in Requests /\ Before[x] # NoRequest
        BY <1>1, <2>2
      <4>2. SessionOf[x] = SessionOf[r] /\ SessionOf[r] # NoSession
        BY <4>1, ChainAssumption
      <4>. QED  BY <4>1, <4>2, ChainAssumption
    <3>. QED  BY <1>1, <3>2, <3>3
  <2>3. CASE Before[r] = NoRequest
    <3>1. PICK f \in here : SameSession(f, r) /\ Before[f] = NoRequest
      BY <1>1, <1>4 DEF RoundsOrdered, SameSession, HasSession
    <3>. QED  BY <1>1, <2>3, <3>1, ChainAssumption DEF SameSession, HasSession
  <2>. QED  BY <1>1, <2>1, <2>2, <2>3
<1>5. ASSUME NEW q \in (here \cup {r}), NEW t \in (here \cup {r}), q # t, SameSession(q, t)
      PROVE  \E x \in (here \cup {r}) : Before[x] \in {q, t}
  <2>1. CASE q \in here /\ t \in here
    BY <1>1, <1>5, <2>1 DEF RoundsOrdered
  <2>2. CASE t = r
    BY <1>1, <1>4, <1>5, <2>2
  <2>3. CASE q = r
    BY <1>1, <1>4, <1>5, <2>3 DEF SameSession, HasSession
  <2>. QED  BY <1>1, <2>1, <2>2, <2>3
<1>. QED  BY <1>2, <1>3, <1>5 DEF RoundsOrdered

=============================================================================
