---------------------------- MODULE PdFlow_proofs ----------------------------
EXTENDS PdFlow, FiniteSetTheorems, TLAPS

\* The lemmas about a store, for the stores of the two pools.
PF == INSTANCE KvCacheStore_proofs WITH
    NumPartitions <- 1, Capacity <- PrefillCapacity, MaxRetained <- PrefillRetained
DF == INSTANCE KvCacheStore_proofs WITH
    NumPartitions <- DecodePartitions, Capacity <- DecodeCapacity, MaxRetained <- 0

-----------------------------------------------------------------------------
(* The lemmas are about PF!X and DF!X, the flow is written with PrefillKv!X  *)
(* and DecodeKv!X: each is the same operator.                                *)

\* What the lemmas assume of a prefill store holds of this one.
LEMMA PrefillAssumptions == PF!StoreAssumption /\ PF!WorkloadAssumption /\ PF!ChainAssumption
<1>1. 1 \in Nat \ {0}
  OBVIOUS
<1>2. PF!StoreAssumption
  BY PdAssumption, <1>1 DEF PF!StoreAssumption
<1>3. PF!WorkloadAssumption
  <2>1. \A S : PF!IsFiniteSet(S) = IsFiniteSet(S)
    BY DEF PF!IsFiniteSet, IsFiniteSet
  <2>. QED  BY <2>1, WorkloadAssumption
<1>. QED  BY <1>2, <1>3, ChainAssumption

\* And of a decode store, which retains nothing.
LEMMA DecodeAssumptions == DF!StoreAssumption /\ DF!WorkloadAssumption /\ DF!ChainAssumption
<1>1. 0 \in 0 .. DecodeCapacity
  BY PdAssumption
<1>2. DF!StoreAssumption
  BY PdAssumption, <1>1 DEF DF!StoreAssumption
<1>3. DF!WorkloadAssumption
  <2>1. \A S : DF!IsFiniteSet(S) = IsFiniteSet(S)
    BY DEF DF!IsFiniteSet, IsFiniteSet
  <2>. QED  BY <2>1, WorkloadAssumption
<1>. QED  BY <1>2, <1>3, ChainAssumption

\* Shared parts of a prefill store.
LEMMA PrefillParts ==
    /\ PrefillKv!Partitions = {0} /\ PF!Partitions = {0}
    /\ PrefillKv!Store = PF!Store
    /\ PrefillKv!EmptyStore = PF!EmptyStore
    /\ \A f, S : PrefillKv!SumOver(f, S) = PF!SumOver(f, S)
    /\ \A r : PF!ContextOf(r) = ContextOf(r) /\ PrefillKv!ContextOf(r) = ContextOf(r)
    /\ \A r : PrefillKv!HasSession(r) <=> PF!HasSession(r)
    /\ PF!Contexts = [r \in Requests |-> ContextOf(r)]
<1>1. PrefillKv!Partitions = {0} /\ PF!Partitions = {0}
  BY DEF PrefillKv!Partitions, PF!Partitions
<1>2. PrefillKv!Totals = PF!Totals /\ PrefillKv!Partitions = PF!Partitions
  BY DEF PrefillKv!Totals, PF!Totals, PrefillKv!Partitions, PF!Partitions
<1>3. PrefillKv!Store = PF!Store
  BY <1>2 DEF PrefillKv!Store, PF!Store
<1>4. PrefillKv!EmptyStore = PF!EmptyStore
  BY <1>2 DEF PrefillKv!EmptyStore, PF!EmptyStore
<1>5. \A f, S : PrefillKv!SumOver(f, S) = PF!SumOver(f, S)
  BY DEF PrefillKv!SumOver, PF!SumOver, PrefillKv!MapThenSumSet, PF!MapThenSumSet,
         PrefillKv!MapThenFoldSet, PF!MapThenFoldSet
<1>6. \A r : PF!ContextOf(r) = ContextOf(r) /\ PrefillKv!ContextOf(r) = ContextOf(r)
  BY DEF PF!ContextOf, PrefillKv!ContextOf, ContextOf
<1>7. \A r : PrefillKv!HasSession(r) <=> PF!HasSession(r)
  BY DEF PF!HasSession, PrefillKv!HasSession
<1>8. PF!Contexts = [r \in Requests |-> ContextOf(r)]
  BY <1>6 DEF PF!Contexts
<1>. QED  BY <1>1, <1>3, <1>4, <1>5, <1>6, <1>7, <1>8

\* The retained tier of a prefill store.
LEMMA PrefillTier ==
    /\ \A a, b : PrefillKv!Smaller(a, b) = PF!Smaller(a, b)
    /\ \A a, b : PrefillKv!SaturatingSub(a, b) = PF!SaturatingSub(a, b)
    /\ \A st, p : PrefillKv!CacheUnits(st, p) = PF!CacheUnits(st, p)
    /\ \A st, p : PrefillKv!SoftSlack(st, p) = PF!SoftSlack(st, p)
    /\ \A entries, limit : PrefillKv!Shrunk(entries, limit) = PF!Shrunk(entries, limit)
    /\ \A st, p, s, tokens : PrefillKv!Retained(st, p, s, tokens) = PF!Retained(st, p, s, tokens)
    /\ \A st, p, units : PrefillKv!Fits(st, p, units) <=> PF!Fits(st, p, units)
<1>1. \A a, b : PrefillKv!Smaller(a, b) = PF!Smaller(a, b)
  BY DEF PrefillKv!Smaller, PF!Smaller
<1>2. \A a, b : PrefillKv!SaturatingSub(a, b) = PF!SaturatingSub(a, b)
  BY DEF PrefillKv!SaturatingSub, PF!SaturatingSub
<1>3. \A st, p : PrefillKv!CacheUnits(st, p) = PF!CacheUnits(st, p)
  BY PrefillParts DEF PrefillKv!CacheUnits, PF!CacheUnits
<1>4. \A st, p : PrefillKv!SoftSlack(st, p) = PF!SoftSlack(st, p)
  BY DEF PrefillKv!SoftSlack, PF!SoftSlack, PrefillKv!NonCachePeak, PF!NonCachePeak,
         PrefillKv!Larger, PF!Larger, PrefillKv!SaturatingSub, PF!SaturatingSub
<1>5. \A entries, limit : PrefillKv!Shrunk(entries, limit) = PF!Shrunk(entries, limit)
  <2>1. \A entries, S : PrefillKv!Keeping(entries, S) = PF!Keeping(entries, S)
    BY DEF PrefillKv!Keeping, PF!Keeping
  <2>. QED  BY <1>1, <2>1, PrefillParts DEF PrefillKv!Shrunk, PF!Shrunk
<1>6. \A st, p, s, tokens : PrefillKv!Retained(st, p, s, tokens) = PF!Retained(st, p, s, tokens)
  BY <1>1, <1>4, <1>5 DEF PrefillKv!Retained, PF!Retained
<1>7. \A st, p, units : PrefillKv!Fits(st, p, units) <=> PF!Fits(st, p, units)
  BY DEF PrefillKv!Fits, PF!Fits
<1>. QED  BY <1>1, <1>2, <1>3, <1>4, <1>5, <1>6, <1>7

\* The life of a request's KV in a prefill store.
LEMMA PrefillOps ==
    /\ \A st, r, p, units :
          PrefillKv!ReservedPrefill(st, r, p, units) = PF!ReservedPrefill(st, r, p, units)
    /\ \A st : PrefillKv!DrainReady(st) = PF!DrainReady(st)
    /\ \A st, r, p, tokens : PrefillKv!Hold(st, r, p, tokens) = PF!Hold(st, r, p, tokens)
    /\ \A st : PrefillKv!ClearPrefillAdmits(st) = PF!ClearPrefillAdmits(st)
    /\ \A st, r, p :
          PrefillKv!ReleasedRetainingPrefix(st, r, p) = PF!ReleasedRetainingPrefix(st, r, p)
    /\ \A st, r : PrefillKv!HandoffCompleted(st, r) = PF!HandoffCompleted(st, r)
<1>1. \A st, r, p, units : PrefillKv!Reserved(st, r, p, units) = PF!Reserved(st, r, p, units)
  <2>1. \A st, r, p, units : PrefillKv!Promise(st, r, p, units) = PF!Promise(st, r, p, units)
    BY DEF PrefillKv!Promise, PF!Promise
  <2>. QED  BY <2>1, PrefillTier DEF PrefillKv!Reserved, PF!Reserved
<1>2. \A st, r, p, units :
         PrefillKv!ReservedPrefill(st, r, p, units) = PF!ReservedPrefill(st, r, p, units)
  BY <1>1, PrefillParts DEF PrefillKv!ReservedPrefill, PF!ReservedPrefill
<1>3. \A st, p : PrefillKv!PlacedOn(st, p) = PF!PlacedOn(st, p)
  BY DEF PrefillKv!PlacedOn, PF!PlacedOn
<1>4. \A st, p : PrefillKv!PromisedOn(st, p) = PF!PromisedOn(st, p)
  BY <1>3 DEF PrefillKv!PromisedOn, PF!PromisedOn
<1>5. \A st, S : PrefillKv!WithoutPromises(st, S) = PF!WithoutPromises(st, S)
  BY <1>3, PrefillParts DEF PrefillKv!WithoutPromises, PF!WithoutPromises
<1>6. \A st : PrefillKv!DrainReady(st) = PF!DrainReady(st)
  BY <1>4, <1>5, PrefillParts DEF PrefillKv!DrainReady, PF!DrainReady
<1>7. \A st, r, p, tokens : PrefillKv!Hold(st, r, p, tokens) = PF!Hold(st, r, p, tokens)
  BY DEF PrefillKv!Hold, PF!Hold
<1>8. \A st : PrefillKv!ClearPrefillAdmits(st) = PF!ClearPrefillAdmits(st)
  BY PrefillParts DEF PrefillKv!ClearPrefillAdmits, PF!ClearPrefillAdmits
<1>9. \A st, r : PrefillKv!TakeHeld(st, r) = PF!TakeHeld(st, r)
  BY DEF PrefillKv!TakeHeld, PF!TakeHeld, PrefillKv!SaturatingSub, PF!SaturatingSub
<1>11. \A st, r, p : PrefillKv!ReleaseDecode(st, r, p) = PF!ReleaseDecode(st, r, p)
  BY DEF PrefillKv!ReleaseDecode, PF!ReleaseDecode, PrefillKv!ProjectedPeak, PF!ProjectedPeak, PrefillKv!HighestAfter, PF!HighestAfter,
         PrefillKv!UnitsAfter, PF!UnitsAfter, PrefillKv!SampledExits, PF!SampledExits, PrefillKv!Exits, PF!Exits,
         PrefillKv!SampleIndices, PF!SampleIndices, PrefillKv!Cardinality, PF!Cardinality,
         PrefillKv!Max, PF!Max, PrefillKv!SumOver, PF!SumOver, PrefillKv!MapThenSumSet, PF!MapThenSumSet,
         PrefillKv!MapThenFoldSet, PF!MapThenFoldSet
<1>12. \A st, r, p : PrefillKv!Released(st, r, p) = PF!Released(st, r, p)
  BY <1>5, <1>9, <1>11 DEF PrefillKv!Released, PF!Released
<1>13. \A st, r, p :
          PrefillKv!ReleasedRetainingPrefix(st, r, p) = PF!ReleasedRetainingPrefix(st, r, p)
  BY <1>12, PrefillParts, PrefillTier
     DEF PrefillKv!ReleasedRetainingPrefix, PF!ReleasedRetainingPrefix
<1>14. \A st, r : PrefillKv!HandoffCompleted(st, r) = PF!HandoffCompleted(st, r)
  BY <1>9, PrefillParts, PrefillTier DEF PrefillKv!HandoffCompleted, PF!HandoffCompleted
<1>. QED  BY <1>2, <1>6, <1>7, <1>8, <1>13, <1>14

\* Shared parts of a decode store.
LEMMA DecodeParts ==
    /\ DecodeKv!Partitions = DF!Partitions
    /\ DecodeKv!Store = DF!Store
    /\ DecodeKv!EmptyStore = DF!EmptyStore
    /\ \A f, S : DecodeKv!SumOver(f, S) = DF!SumOver(f, S)
    /\ \A r : DF!ContextOf(r) = ContextOf(r)
    /\ DF!Contexts = [r \in Requests |-> ContextOf(r)]
    /\ \A st : DecodeKv!ResidentOf(st) = DF!ResidentOf(st)
    /\ \A st, p, units : DecodeKv!Fits(st, p, units) <=> DF!Fits(st, p, units)
    /\ \A st : DecodeKv!FewDecodes(st) <=> DF!FewDecodes(st)
<1>1. DecodeKv!Partitions = DF!Partitions
  BY DEF DecodeKv!Partitions, DF!Partitions
<1>2. DecodeKv!Totals = DF!Totals
  BY <1>1 DEF DecodeKv!Totals, DF!Totals
<1>3. DecodeKv!Store = DF!Store
  BY <1>1, <1>2 DEF DecodeKv!Store, DF!Store
<1>4. DecodeKv!EmptyStore = DF!EmptyStore
  BY <1>1 DEF DecodeKv!EmptyStore, DF!EmptyStore
<1>5. \A f, S : DecodeKv!SumOver(f, S) = DF!SumOver(f, S)
  BY DEF DecodeKv!SumOver, DF!SumOver, DecodeKv!MapThenSumSet, DF!MapThenSumSet,
         DecodeKv!MapThenFoldSet, DF!MapThenFoldSet
<1>6. \A r : DF!ContextOf(r) = ContextOf(r)
  BY DEF DF!ContextOf, ContextOf
<1>7. DF!Contexts = [r \in Requests |-> ContextOf(r)]
  BY <1>6 DEF DF!Contexts
<1>8. \A st : DecodeKv!ResidentOf(st) = DF!ResidentOf(st)
  BY <1>1 DEF DecodeKv!ResidentOf, DF!ResidentOf
<1>9. \A st, p, units : DecodeKv!Fits(st, p, units) <=> DF!Fits(st, p, units)
  BY DEF DecodeKv!Fits, DF!Fits
<1>10. \A st : DecodeKv!FewDecodes(st) <=> DF!FewDecodes(st)
  <2>1. \A S : DecodeKv!Cardinality(S) = DF!Cardinality(S)
    BY DEF DecodeKv!Cardinality, DF!Cardinality
  <2>. QED  BY <1>1, <2>1 DEF DecodeKv!FewDecodes, DF!FewDecodes, DecodeKv!ExactBelow, DF!ExactBelow
<1>. QED  BY <1>1, <1>3, <1>4, <1>5, <1>6, <1>7, <1>8, <1>9, <1>10

\* The life of a request's KV in a decode store.
LEMMA DecodeOps ==
    /\ \A st, r, p, units : DecodeKv!Reserved(st, r, p, units) = DF!Reserved(st, r, p, units)
    /\ \A st, S, tokens, left :
          DecodeKv!Committed(st, S, tokens, left) = DF!Committed(st, S, tokens, left)
    /\ \A st, live : DecodeKv!Advanced(st, live) = DF!Advanced(st, live)
    /\ \A st, S : DecodeKv!ReleasedEach(st, S) = DF!ReleasedEach(st, S)
<1>1. /\ \A a, b : DecodeKv!Smaller(a, b) = DF!Smaller(a, b)
      /\ \A a, b : DecodeKv!SaturatingSub(a, b) = DF!SaturatingSub(a, b)
  BY DEF DecodeKv!Smaller, DF!Smaller, DecodeKv!SaturatingSub, DF!SaturatingSub
<1>2. \A st, p : DecodeKv!SoftSlack(st, p) = DF!SoftSlack(st, p)
  BY DEF DecodeKv!SoftSlack, DF!SoftSlack, DecodeKv!NonCachePeak, DF!NonCachePeak,
         DecodeKv!Larger, DF!Larger, DecodeKv!SaturatingSub, DF!SaturatingSub
<1>3. \A entries, limit : DecodeKv!Shrunk(entries, limit) = DF!Shrunk(entries, limit)
  <2>1. \A entries, S : DecodeKv!Keeping(entries, S) = DF!Keeping(entries, S)
    BY DEF DecodeKv!Keeping, DF!Keeping
  <2>. QED  BY <1>1, <2>1, DecodeParts DEF DecodeKv!Shrunk, DF!Shrunk
<1>4. \A st, r, p, units : DecodeKv!Reserved(st, r, p, units) = DF!Reserved(st, r, p, units)
  <2>1. \A st, r, p, units : DecodeKv!Promise(st, r, p, units) = DF!Promise(st, r, p, units)
    BY DEF DecodeKv!Promise, DF!Promise
  <2>. QED  BY <1>2, <1>3, <2>1 DEF DecodeKv!Reserved, DF!Reserved
<1>5. \A st, p : DecodeKv!PlacedOn(st, p) = DF!PlacedOn(st, p)
  BY DEF DecodeKv!PlacedOn, DF!PlacedOn
<1>6. \A st, S : DecodeKv!WithoutPromises(st, S) = DF!WithoutPromises(st, S)
  BY <1>5, DecodeParts DEF DecodeKv!WithoutPromises, DF!WithoutPromises
<1>8. \A st, S, tokens, left :
         DecodeKv!Committed(st, S, tokens, left) = DF!Committed(st, S, tokens, left)
  BY DEF DecodeKv!Committed, DF!Committed, DecodeKv!WithoutPromises, DF!WithoutPromises,
         DecodeKv!PlacedOn, DF!PlacedOn, DecodeKv!Partitions, DF!Partitions,
         DecodeKv!ProjectedPeak, DF!ProjectedPeak, DecodeKv!HighestAfter, DF!HighestAfter,
         DecodeKv!UnitsAfter, DF!UnitsAfter, DecodeKv!SampledExits, DF!SampledExits, DecodeKv!Exits, DF!Exits,
         DecodeKv!SampleIndices, DF!SampleIndices, DecodeKv!Cardinality, DF!Cardinality, DecodeKv!Max, DF!Max,
         DecodeKv!SumOver, DF!SumOver, DecodeKv!MapThenSumSet, DF!MapThenSumSet,
         DecodeKv!MapThenFoldSet, DF!MapThenFoldSet
<1>9. \A st, live : DecodeKv!Advanced(st, live) = DF!Advanced(st, live)
  <2>1. \A S : DecodeKv!Cardinality(S) = DF!Cardinality(S)
    BY DEF DecodeKv!Cardinality, DF!Cardinality
  <2>. QED  BY <2>1, DecodeParts DEF DecodeKv!Advanced, DF!Advanced
<1>10. \A st, r : DecodeKv!TakeHeld(st, r) = DF!TakeHeld(st, r)
  BY DEF DecodeKv!TakeHeld, DF!TakeHeld, DecodeKv!SaturatingSub, DF!SaturatingSub
<1>11. \A st, r, p : DecodeKv!ReleaseDecode(st, r, p) = DF!ReleaseDecode(st, r, p)
  BY DEF DecodeKv!ReleaseDecode, DF!ReleaseDecode, DecodeKv!ProjectedPeak, DF!ProjectedPeak, DecodeKv!HighestAfter, DF!HighestAfter,
         DecodeKv!UnitsAfter, DF!UnitsAfter, DecodeKv!SampledExits, DF!SampledExits, DecodeKv!Exits, DF!Exits,
         DecodeKv!SampleIndices, DF!SampleIndices, DecodeKv!Cardinality, DF!Cardinality,
         DecodeKv!Max, DF!Max, DecodeKv!SumOver, DF!SumOver, DecodeKv!MapThenSumSet, DF!MapThenSumSet,
         DecodeKv!MapThenFoldSet, DF!MapThenFoldSet
<1>12. \A st, r, p : DecodeKv!Released(st, r, p) = DF!Released(st, r, p)
  BY <1>6, <1>10, <1>11 DEF DecodeKv!Released, DF!Released
<1>13. \A st, S : DecodeKv!ReleasedEach(st, S) = DF!ReleasedEach(st, S)
  BY <1>12 DEF DecodeKv!ReleasedEach, DF!ReleasedEach, DecodeKv!FoldSet, DF!FoldSet,
               DecodeKv!MapThenFoldSet, DF!MapThenFoldSet
<1>. QED  BY <1>4, <1>8, <1>9, <1>13

-----------------------------------------------------------------------------
(* What the handlers of a worker do to its store. *)

\* No request is without a context, and each needs at least a token.
LEMMA RequestType ==
    ASSUME NEW r \in Requests
    PROVE  /\ ContextOf(r) \in Nat /\ ContextOf(r) > 0
           /\ Target[r] \in Nat /\ Target[r] > 0
  BY PdAssumption, WorkloadAssumption DEF ContextOf

\* The prefill of a request that goes on to decode.
LEMMA HeldAfterPrefill ==
    ASSUME NEW st, PF!HandsOver(st), NEW r \in Requests, NEW p \in PF!Partitions,
           st.held[r] = 0, PF!OnlyAdmits(st, r, p),
           NEW new, new = PF!ClearPrefillAdmits(PF!Hold(st, r, p, ContextOf(r)))
    PROVE  /\ PF!HandsOver(new) /\ new.admits = [q \in PF!Partitions |-> {}]
           /\ new.held = [st.held EXCEPT ![r] = ContextOf(r)]
<1> DEFINE held == PF!Hold(st, r, p, PF!ContextOf(r))
           kept == PF!ClearPrefillAdmits(held)
<1>1. PF!ContextOf(r) > 0 /\ PF!ContextOf(r) = ContextOf(r)
  BY RequestType, PrefillParts
<1>2. PF!HandsOver(kept)
  BY <1>1, PrefillAssumptions, PF!HoldHandsOver, Zenon
<1>3. kept.admits = [q \in PF!Partitions |-> {}]
  <2> HIDE DEF held
  <2>. QED  BY <1>2 DEF PF!ClearPrefillAdmits, PF!HandsOver, PF!Store
<1>4. kept.held = [st.held EXCEPT ![r] = PF!ContextOf(r)]
  BY <1>1, PrefillAssumptions, PF!HoldHandsOver, ZenonT(30)
<1>5. new = kept
  BY <1>1
<1> HIDE DEF kept
<1>. QED  BY <1>1, <1>2, <1>3, <1>4, <1>5

\* The prefill of a request whose first token is its last.
LEMMA ReleasedAfterPrefill ==
    ASSUME NEW st, PF!HandsOver(st), NEW r \in Requests, NEW p \in PF!Partitions,
           st.held[r] = 0, PF!OnlyAdmits(st, r, p),
           NEW after \in PF!ReleasedRetainingPrefix(st, r, p),
           NEW new, new = PF!ClearPrefillAdmits(after)
    PROVE  /\ PF!HandsOver(new) /\ \A q \in PF!Partitions : new.admits[q] = {}
           /\ new.held = st.held
<1> DEFINE gone == PF!ClearPrefillAdmits(after)
<1>1. PF!HandsOver(gone)
  BY PrefillAssumptions, PF!ReleaseHandsOver
<1>2. \A q \in PF!Partitions : gone.admits[q] = {}
  BY PrefillAssumptions, PF!ReleaseHandsOver
<1>3. gone.held = st.held
  BY PrefillAssumptions, PF!ReleaseHandsOver
<1> HIDE DEF gone
<1>. QED  BY <1>1, <1>2, <1>3 DEF gone

\* complete_iteration leaves nothing being prefilled: the KV of what goes on to
\* decode is held, and what has ended is gone.
LEMMA AfterPrefillStore ==
    ASSUME NEW st, PF!HandsOver(st),
           \A r \in st.admits[0] : st.admits[0] = {r} /\ st.held[r] = 0,
           NEW new \in AfterPrefill(st)
    PROVE  /\ PF!HandsOver(new) /\ new.admits[0] = {}
           /\ \A x \in Requests : new.held[x] =
                 IF x \in st.admits[0] /\ Target[x] > 1 THEN ContextOf(x) ELSE st.held[x]
<1>0. 0 \in PF!Partitions /\ \A q \in PF!Partitions : q = 0
  BY PrefillParts
<1>1. st \in PF!Store /\ st.admits[0] \in SUBSET Requests /\ st.held \in [Requests -> Nat]
  BY <1>0 DEF PF!HandsOver, PF!Store
<1>2. CASE st.admits[0] = {}
  <2>1. new = st
    BY <1>2 DEF AfterPrefill
  <2>. QED  BY <1>2, <2>1
<1>3. CASE st.admits[0] # {}
  <2>1. PICK r \in st.admits[0] : TRUE
    BY <1>3
  <2>2. st.admits[0] = {r} /\ st.held[r] = 0 /\ r \in Requests
    BY <1>1, <2>1
  <2>3. PF!OnlyAdmits(st, r, 0)
    BY <1>0, <2>2 DEF PF!OnlyAdmits
  <2>4. ContextOf(r) > 0 /\ Target[r] \in Nat /\ Target[r] > 0 /\ PF!ContextOf(r) = ContextOf(r)
    BY <2>2, RequestType, PrefillParts
  <2>5. CASE Target[r] = 1
    <3>1. PICK after \in PF!ReleasedRetainingPrefix(st, r, 0) :
             new = PF!ClearPrefillAdmits(after)
      BY <1>3, <2>2, <2>5, PrefillOps DEF AfterPrefill
    <3>2. PF!HandsOver(new) /\ (\A q \in PF!Partitions : new.admits[q] = {}) /\ new.held = st.held
      BY <1>0, <2>2, <2>3, <3>1, ReleasedAfterPrefill
    <3>. QED  BY <1>0, <2>2, <2>5, <3>2
  <2>6. CASE Target[r] # 1
    <3>1. new = PF!ClearPrefillAdmits(PF!Hold(st, r, 0, ContextOf(r)))
      BY <1>3, <2>2, <2>6, PrefillOps DEF AfterPrefill
    <3>2. /\ PF!HandsOver(new) /\ new.admits = [q \in PF!Partitions |-> {}]
          /\ new.held = [st.held EXCEPT ![r] = ContextOf(r)]
      BY <1>0, <2>2, <2>3, <3>1, HeldAfterPrefill
    <3>. QED  BY <1>0, <1>1, <2>2, <2>4, <2>6, <3>2
  <2>. QED  BY <2>5, <2>6
<1>. QED  BY <1>2, <1>3

\* The first pending request is one of them, and there is one.
LEMMA OneHead ==
    ASSUME NEW pending, NEW r \in HeadOf(pending)
    PROVE  r \in pending /\ HeadOf(pending) = {r}
<1> DEFINE First(j) == arrived[j] \in pending /\ \A k \in 1 .. j - 1 : arrived[k] \notin pending
<1>1. PICK i \in 1 .. Len(arrived) : First(i) /\ r = arrived[i]
  BY DEF HeadOf
<1>2. ASSUME NEW j \in 1 .. Len(arrived), First(j) PROVE i = j
  <2>1. ~(i < j) /\ ~(j < i)
    BY <1>1, <1>2
  <2>. QED  BY <2>1
<1>. QED  BY <1>1, <1>2 DEF HeadOf

\* form_batch: nothing new runs, or the first pending request does.
LEMMA FormedStore ==
    ASSUME NEW st, PF!HandsOver(st), st.admits[0] = {},
           NEW pending \in SUBSET Requests, NEW f \in Formed(st, pending)
    PROVE  /\ PF!HandsOver(f.store) /\ f.store.held = st.held
           /\ \/ f.pending = pending /\ f.store.admits[0] = {}
              \/ \E r \in pending : /\ f.pending = pending \ {r}
                                    /\ f.store.admits[0] = {r}
<1> DEFINE admitted == { r \in HeadOf(pending) : PrefillKv!Fits(st, 0, ContextOf(r)) }
<1>0. 0 \in PF!Partitions /\ \A q \in PF!Partitions : q = 0
  BY PrefillParts
<1>1. CASE admitted = {}
  <2>1. f = [store |-> PF!DrainReady(st), pending |-> pending]
    BY <1>1, PrefillOps DEF Formed
  <2>2. /\ PF!HandsOver(f.store) /\ f.store.admits = st.admits /\ f.store.held = st.held
    BY <2>1, PrefillAssumptions, PF!NothingToDrain
  <2>. QED  BY <2>1, <2>2
<1>2. CASE admitted # {}
  <2>1. PICK r \in admitted : TRUE
    BY <1>2
  <2>2. admitted = {r} /\ r \in pending /\ r \in Requests /\ PF!Fits(st, 0, ContextOf(r))
    BY <2>1, OneHead, PrefillTier
  <2>3. ContextOf(r) > 0 /\ PF!ContextOf(r) = ContextOf(r)
    BY <2>2, RequestType, PrefillParts
  <2>4. PICK s \in PF!ReservedPrefill(st, r, 0, ContextOf(r)) :
           f = [store |-> PF!DrainReady(s), pending |-> pending \ {r}]
    BY <2>2, PrefillOps DEF Formed
  <2>5. \A q \in PF!Partitions : st.admits[q] = {}
    BY <1>0
  <2>6. /\ PF!HandsOver(f.store) /\ f.store.held = st.held
        /\ f.store.admits = [q \in PF!Partitions |-> IF q = 0 THEN {r} ELSE {}]
    BY <1>0, <2>2, <2>3, <2>4, <2>5, PrefillAssumptions, PF!AdmitHandsOver
  <2>. QED  BY <1>0, <2>2, <2>4, <2>6
<1>. QED  BY <1>1, <1>2

\* complete_handoff drops the entry it acknowledges.
LEMMA AcknowledgedStore ==
    ASSUME NEW st, PF!HandsOver(st), NEW r \in Requests,
           NEW new \in PrefillKv!HandoffCompleted(st, r)
    PROVE  /\ PF!HandsOver(new) /\ new.admits = st.admits
           /\ \A x \in Requests : new.held[x] = IF x = r THEN 0 ELSE st.held[x]
<1>1. st.held \in [Requests -> Nat]
  BY DEF PF!HandsOver, PF!Store
<1>2. /\ PF!HandsOver(new) /\ new.admits = st.admits
      /\ new.held = [st.held EXCEPT ![r] = 0]
  BY PrefillOps, PrefillAssumptions, PF!AcknowledgedHandsOver
<1>. QED  BY <1>1, <1>2

\* With something left for every resident decode, all of them are live.
LEMMA AllLive ==
    ASSUME NEW st, \A r \in DF!ResidentOf(st) : st.remaining[r] > 0
    PROVE  LiveOf(st) = DF!ResidentOf(st)
<1>1. \A p \in DecodeKv!Partitions : DecodeKv!LiveDecodes(st, p) = st.decodes[p]
  BY DecodeParts DEF DecodeKv!LiveDecodes, DF!ResidentOf
<1>. QED  BY <1>1, DecodeParts DEF LiveOf, DF!ResidentOf

\* complete_iteration of a decode worker: a token for all, then the finished go.
LEMMA AfterDecodeStore ==
    ASSUME NEW few \in BOOLEAN, NEW st, DF!PullSound(st, few),
           few => DF!FewDecodes(st), \A r \in DF!ResidentOf(st) : st.remaining[r] > 0,
           NEW finished \in SUBSET DF!ResidentOf(st)
    PROVE  LET new == AfterDecode(st, finished)
           IN  /\ DF!PullSound(new, few)
               /\ few => DF!FewDecodes(new)
               /\ DF!ResidentOf(new) = DF!ResidentOf(st) \ finished
               /\ \A r \in DF!ResidentOf(st) \ finished : new.remaining[r] = st.remaining[r] - 1
<1> DEFINE grown == DF!Advanced(st, DF!ResidentOf(st))
           new == DF!ReleasedEach(grown, finished)
<1>1. AfterDecode(st, finished) = new
  BY AllLive, DecodeOps DEF AfterDecode
<1>2. /\ DF!PullSound(grown, few)
      /\ grown.decodes = st.decodes
      /\ \A r \in DF!ResidentOf(st) : grown.remaining[r] = st.remaining[r] - 1
  BY DecodeAssumptions, DF!AdvancePullsStore
<1>7. few => DF!FewDecodes(grown)
  BY <1>2 DEF DF!FewDecodes
<1>3. DF!ResidentOf(grown) = DF!ResidentOf(st)
  BY <1>2 DEF DF!ResidentOf
<1> HIDE DEF grown
<1>4. /\ DF!PullSound(new, few)
      /\ \A q \in DF!Partitions : new.decodes[q] = grown.decodes[q] \ finished
      /\ \A x \in Requests \ finished : new.remaining[x] = grown.remaining[x]
  BY <1>2, <1>3, <1>7, DecodeAssumptions, DF!ReleaseEachPulls
<1> HIDE DEF new
<1>5. DF!ResidentOf(new) = DF!ResidentOf(st) \ finished
  BY <1>2, <1>4 DEF DF!ResidentOf
<1>6. DF!ResidentOf(st) \in SUBSET Requests
  BY DEF DF!PullSound, DF!Store, DF!ResidentOf
<1>8. few => DF!FewDecodes(new)
  <2>1. grown \in DF!Store /\ \A q \in DF!Partitions : new.decodes[q] \in SUBSET grown.decodes[q]
    BY <1>2, <1>4 DEF DF!PullSound
  <2>. QED  BY <1>7, <2>1, DecodeAssumptions, DF!FewerDecodes
<1>. QED  BY <1>1, <1>2, <1>4, <1>5, <1>6, <1>8

-----------------------------------------------------------------------------
(* The inductive invariant. *)

\* What a prefill worker is to prefill or is prefilling.
Prefilling(pw) == pw.pending \cup pw.store.admits[0]

\* The handoffs a decode worker has still to acknowledge, and their requests.
Handoffs(dw) == { dw.pulls[i] : i \in 1 .. Len(dw.pulls) }
                   \cup (IF dw.inFlight = NoPull THEN {} ELSE { dw.inFlight })
Queued(dw) == PullsOf(dw) \cup InTransit(dw)

\* What a decode worker has been handed and not yet completed.
Decoding(dw) == Queued(dw) \cup LandedOf(dw) \cup DF!ResidentOf(dw.store)

\* A request is in one of a decode worker's queues, once.
InOrder(dw) ==
    /\ \A i, j \in 1 .. Len(dw.pulls) : dw.pulls[i].req = dw.pulls[j].req => i = j
    /\ \A i, j \in 1 .. Len(dw.landed) : dw.landed[i] = dw.landed[j] => i = j
    /\ InTransit(dw) \cap PullsOf(dw) = {}
    /\ Queued(dw) \cap LandedOf(dw) = {}
    /\ (Queued(dw) \cup LandedOf(dw)) \cap DF!ResidentOf(dw.store) = {}

\* The prefill of one request runs at a time, and it is no longer pending.
PrefillSound(pw) ==
    /\ PF!HandsOver(pw.store)
    /\ \A r \in pw.store.admits[0] : pw.store.admits[0] = {r} /\ r \notin pw.pending

\* A decode worker has given each request it serves the tokens it has; few as of
\* its store.
DecodeSound(dw, tokens, few) ==
    /\ DF!PullSound(dw.store, few)
    /\ InOrder(dw)
    /\ \A r \in Queued(dw) \cup LandedOf(dw) : tokens[r] = 1 /\ Target[r] > 1
    /\ \A r \in DF!ResidentOf(dw.store) : dw.store.remaining[r] = Target[r] - tokens[r]
                                          /\ dw.store.remaining[r] > 0

InService == Arrived \ done

\* A request in service is at one worker.
OnePlace ==
    /\ \A r \in InService : \/ \E w \in PrefillWorkers : r \in Prefilling(prefill[w])
                            \/ \E d \in DecodeWorkers : r \in Decoding(decode[d])
    /\ \A w \in PrefillWorkers : Prefilling(prefill[w]) \subseteq InService
    /\ \A d \in DecodeWorkers : Decoding(decode[d]) \subseteq InService
    /\ \A w, x \in PrefillWorkers :
          w # x => Prefilling(prefill[w]) \cap Prefilling(prefill[x]) = {}
    /\ \A d, e \in DecodeWorkers :
          d # e => Decoding(decode[d]) \cap Decoding(decode[e]) = {}
    /\ \A w \in PrefillWorkers, d \in DecodeWorkers :
          Prefilling(prefill[w]) \cap Decoding(decode[d]) = {}

\* A prefill worker holds what some decode worker has still to acknowledge.
HeldExact ==
    \A w \in PrefillWorkers, r \in Requests :
       prefill[w].store.held[r] > 0 <=>
          \E d \in DecodeWorkers : [req |-> r, from |-> w] \in Handoffs(decode[d])

\* The tokens of a request are those of its progress.
EmittedAgrees ==
    /\ \A r \in Requests \ Arrived : emitted[r] = 0
    /\ \A w \in PrefillWorkers : \A r \in Prefilling(prefill[w]) : emitted[r] = 0
    /\ \A r \in done : emitted[r] = Target[r]

IInv ==
    /\ TypeOK /\ done \subseteq Arrived
    /\ \A w \in PrefillWorkers : PrefillSound(prefill[w])
    /\ \A d \in DecodeWorkers : DecodeSound(decode[d], emitted, FALSE)
    /\ OnePlace
    /\ HeldExact
    /\ EmittedAgrees

-----------------------------------------------------------------------------
(* The queues of a decode worker. *)

DecodeState ==
    [store : DecodeKv!Store, pulls : Seq(Handoff),
     inFlight : {NoPull} \cup Handoff, landed : Seq(Requests),
     backlog : Nat, next : DecodeKv!Partitions, wake : Wakes]

\* A sequence with an element more.
LEMMA Appended ==
    ASSUME NEW S, NEW s \in Seq(S), NEW e \in S, NEW t, t = Append(s, e)
    PROVE  /\ t \in Seq(S) /\ Len(t) = Len(s) + 1 /\ Len(s) \in Nat
           /\ \A i \in 1 .. Len(s) : t[i] = s[i]
           /\ t[Len(s) + 1] = e
  OBVIOUS

\* A sequence without its head.
LEMMA Shifted ==
    ASSUME NEW S, NEW s \in Seq(S), s # << >>, NEW t, t = Tail(s)
    PROVE  /\ t \in Seq(S) /\ Len(t) = Len(s) - 1 /\ Len(s) \in Nat /\ Len(s) > 0
           /\ \A i \in 1 .. Len(t) : t[i] = s[i + 1]
           /\ Head(s) = s[1] /\ s[1] \in S
  OBVIOUS

\* The elements of both, and that they stay without repetition.
LEMMA AppendedSet ==
    ASSUME NEW S, NEW s \in Seq(S), NEW e \in S, NEW t, t = Append(s, e)
    PROVE  { t[i] : i \in 1 .. Len(t) } = { s[i] : i \in 1 .. Len(s) } \cup {e}
<1>1. /\ Len(t) = Len(s) + 1 /\ Len(s) \in Nat
      /\ \A i \in 1 .. Len(s) : t[i] = s[i]
      /\ t[Len(s) + 1] = e
  BY Appended
<1>2. ASSUME NEW x \in { t[i] : i \in 1 .. Len(t) }
      PROVE  x \in { s[i] : i \in 1 .. Len(s) } \cup {e}
  BY <1>1
<1>3. ASSUME NEW x \in { s[i] : i \in 1 .. Len(s) } PROVE x \in { t[i] : i \in 1 .. Len(t) }
  BY <1>1
<1>4. e \in { t[i] : i \in 1 .. Len(t) }
  BY <1>1
<1>. QED  BY <1>2, <1>3, <1>4

\* A queue loses its head and nothing else.
LEMMA ShiftedSet ==
    ASSUME NEW S, NEW s \in Seq(S), s # << >>, NEW t, t = Tail(s)
    PROVE  { s[i] : i \in 1 .. Len(s) } = { t[i] : i \in 1 .. Len(t) } \cup {Head(s)}
<1>1. /\ Len(t) = Len(s) - 1 /\ Len(s) \in Nat /\ Len(s) > 0
      /\ \A i \in 1 .. Len(t) : t[i] = s[i + 1]
      /\ Head(s) = s[1]
  BY Shifted
<1>2. ASSUME NEW i \in 1 .. Len(s) PROVE s[i] \in { t[j] : j \in 1 .. Len(t) } \cup {s[1]}
  <2>1. CASE i = 1
    BY <2>1
  <2>2. CASE i # 1
    <3>1. i - 1 \in 1 .. Len(t) /\ t[i - 1] = s[(i - 1) + 1] /\ (i - 1) + 1 = i
      BY <1>1, <2>2
    <3>. QED  BY <3>1
  <2>. QED  BY <2>1, <2>2
<1>3. ASSUME NEW j \in 1 .. Len(t) PROVE t[j] \in { s[i] : i \in 1 .. Len(s) }
  <2>1. j + 1 \in 1 .. Len(s) /\ t[j] = s[j + 1]
    BY <1>1
  <2>. QED  BY <2>1
<1>4. Head(s) \in { s[i] : i \in 1 .. Len(s) }
  <2>1. 1 \in 1 .. Len(s)
    BY <1>1
  <2>. QED  BY <1>1, <2>1
<1> DEFINE A == { s[i] : i \in 1 .. Len(s) }
           B == { t[i] : i \in 1 .. Len(t) }
<1>5. \A x \in A : x \in B \cup {Head(s)}
  BY <1>1, <1>2
<1>6. \A x \in B : x \in A
  BY <1>3
<1>7. Head(s) \in A
  BY <1>4
<1> HIDE DEF A, B
<1>8. A = B \cup {Head(s)}
  BY <1>5, <1>6, <1>7
<1>. QED  BY <1>8 DEF A, B

\* The requests of the handoffs are those that are queued.
LEMMA QueuedRequests ==
    ASSUME NEW dw \in DecodeState
    PROVE  /\ Queued(dw) = { h.req : h \in Handoffs(dw) }
           /\ Handoffs(dw) \in SUBSET Handoff
<1>1. dw.pulls \in Seq(Handoff) /\ dw.inFlight \in {NoPull} \cup Handoff
  BY DEF DecodeState
<1>2. PullsOf(dw) = { h.req : h \in { dw.pulls[i] : i \in 1 .. Len(dw.pulls) } }
  BY DEF PullsOf
<1>3. InTransit(dw) = { h.req : h \in IF dw.inFlight = NoPull THEN {} ELSE { dw.inFlight } }
  BY DEF InTransit
<1>. QED  BY <1>1, <1>2, <1>3 DEF Queued, Handoffs

\* on_msg_handoff queues the transfer.
LEMMA HandedOffQueues ==
    ASSUME NEW dw \in DecodeState, InOrder(dw),
           NEW r \in Requests, NEW w \in PrefillWorkers, r \notin Decoding(dw),
           NEW new, new = HandedOff(dw, r, w)
    PROVE  /\ new \in DecodeState /\ InOrder(new) /\ new.store = dw.store
           /\ Handoffs(new) = Handoffs(dw) \cup {[req |-> r, from |-> w]}
           /\ Queued(new) = Queued(dw) \cup {r} /\ LandedOf(new) = LandedOf(dw)
<1> DEFINE h == [req |-> r, from |-> w]
<1>1. dw.pulls \in Seq(Handoff) /\ h \in Handoff /\ h.req = r
  BY DEF DecodeState, Handoff
<1>2. /\ new \in DecodeState /\ new.pulls = Append(dw.pulls, h)
      /\ new.store = dw.store /\ new.inFlight = dw.inFlight /\ new.landed = dw.landed
  <2> DEFINE mid == [dw EXCEPT !.pulls = Append(dw.pulls, h)]
  <2>1. Append(dw.pulls, h) \in Seq(Handoff)
    BY <1>1
  <2> HIDE DEF h
  <2>2. /\ mid \in DecodeState /\ mid.pulls = Append(dw.pulls, h)
        /\ mid.store = dw.store /\ mid.inFlight = dw.inFlight /\ mid.landed = dw.landed
    BY <2>1 DEF DecodeState
  <2>3. new = Woken(mid)
    BY DEF HandedOff, h
  <2> HIDE DEF mid
  <2>4. new = [mid EXCEPT !.wake = new.wake] /\ new.wake \in Wakes
    BY <2>2, <2>3 DEF Woken, DecodeState, Wakes
  <2>. QED  BY <2>2, <2>4 DEF DecodeState
<1> HIDE DEF h
<1>3. Handoffs(new) = Handoffs(dw) \cup {h}
  <2>1. { new.pulls[i] : i \in 1 .. Len(new.pulls) }
           = { dw.pulls[i] : i \in 1 .. Len(dw.pulls) } \cup {h}
    BY <1>1, <1>2, AppendedSet
  <2>. QED  BY <1>2, <2>1 DEF Handoffs
<1>4. Queued(new) = Queued(dw) \cup {r}
  BY <1>1, <1>2, <1>3, QueuedRequests
<1>5. LandedOf(new) = LandedOf(dw)
  BY <1>2 DEF LandedOf
<1>6. InTransit(new) = InTransit(dw)
  BY <1>2 DEF InTransit
<1>7. /\ Len(new.pulls) = Len(dw.pulls) + 1 /\ Len(dw.pulls) \in Nat
      /\ \A i \in 1 .. Len(dw.pulls) : new.pulls[i] = dw.pulls[i]
      /\ new.pulls[Len(dw.pulls) + 1] = h
  BY <1>1, <1>2, Appended
<1>8. r \notin Queued(dw) /\ r \notin LandedOf(dw) /\ r \notin DF!ResidentOf(dw.store)
      /\ r \notin PullsOf(dw) /\ r \notin InTransit(dw)
  BY DEF Decoding, Queued
<1>9. ASSUME NEW i \in 1 .. Len(new.pulls), NEW j \in 1 .. Len(new.pulls),
             new.pulls[i].req = new.pulls[j].req
      PROVE  i = j
  <2>1. \A k \in 1 .. Len(dw.pulls) : dw.pulls[k].req # r
    BY <1>8 DEF PullsOf
  <2>2. (i \in 1 .. Len(dw.pulls) \/ i = Len(dw.pulls) + 1)
        /\ (j \in 1 .. Len(dw.pulls) \/ j = Len(dw.pulls) + 1)
    BY <1>7
  <2>. QED  BY <1>1, <1>7, <1>9, <2>1, <2>2 DEF InOrder
<1>10. PullsOf(new) = PullsOf(dw) \cup {r}
  <2>1. PullsOf(new) \subseteq PullsOf(dw) \cup {r}
    BY <1>1, <1>7 DEF PullsOf
  <2>2. PullsOf(dw) \subseteq PullsOf(new)
    BY <1>7 DEF PullsOf
  <2>3. r \in PullsOf(new)
    BY <1>1, <1>7 DEF PullsOf
  <2>. QED  BY <2>1, <2>2, <2>3
<1>11. InOrder(new)
  BY <1>2, <1>4, <1>5, <1>6, <1>8, <1>9, <1>10 DEF InOrder
<1>. QED  BY <1>2, <1>3, <1>4, <1>5, <1>11 DEF h

\* Nothing but the queues of a worker matters to its order.
LEMMA SameQueues ==
    ASSUME NEW dw, NEW new, new.pulls = dw.pulls, new.inFlight = dw.inFlight,
           new.landed = dw.landed
    PROVE  /\ Handoffs(new) = Handoffs(dw) /\ Queued(new) = Queued(dw)
           /\ LandedOf(new) = LandedOf(dw)
           /\ (new.store = dw.store /\ InOrder(dw)) => InOrder(new)
<1>1. /\ Handoffs(new) = Handoffs(dw) /\ LandedOf(new) = LandedOf(dw)
      /\ PullsOf(new) = PullsOf(dw) /\ InTransit(new) = InTransit(dw)
  BY DEF Handoffs, LandedOf, PullsOf, InTransit
<1>2. Queued(new) = Queued(dw)
  BY <1>1 DEF Queued
<1>. QED  BY <1>1, <1>2 DEF InOrder

\* The transfer that has ended has landed.
LEMMA PromotedQueues ==
    ASSUME NEW dw \in DecodeState, InOrder(dw), dw.inFlight # NoPull,
           NEW new, new = Promoted(dw)
    PROVE  /\ new \in DecodeState /\ InOrder(new) /\ new.store = dw.store
           /\ Handoffs(new) = Handoffs(dw) \ {dw.inFlight}
           /\ Queued(new) = Queued(dw) \ {dw.inFlight.req}
           /\ LandedOf(new) = LandedOf(dw) \cup {dw.inFlight.req}
           /\ dw.inFlight \in Handoffs(dw)
<1> DEFINE h == dw.inFlight
<1>1. dw.landed \in Seq(Requests) /\ h \in Handoff /\ h.req \in Requests
      /\ dw.backlog \in Nat /\ ContextOf(h.req) \in Nat /\ dw.pulls \in Seq(Handoff)
  BY RequestType DEF DecodeState, Handoff
<1>2. Append(dw.landed, h.req) \in Seq(Requests) /\ dw.backlog + ContextOf(h.req) \in Nat
  BY <1>1
<1>3. /\ new \in DecodeState /\ new.landed = Append(dw.landed, h.req)
      /\ new.store = dw.store /\ new.inFlight = NoPull /\ new.pulls = dw.pulls
  BY <1>2 DEF Promoted, DecodeState
<1>4. LandedOf(new) = LandedOf(dw) \cup {h.req}
  BY <1>1, <1>3, AppendedSet DEF LandedOf
<1>5. /\ PullsOf(new) = PullsOf(dw) /\ InTransit(new) = {} /\ InTransit(dw) = {h.req}
      /\ Queued(new) = PullsOf(dw) /\ Queued(dw) = PullsOf(dw) \cup {h.req}
  BY <1>3 DEF PullsOf, InTransit, Queued
<1>6. h.req \notin PullsOf(dw) /\ h.req \notin LandedOf(dw) /\ h.req \notin DF!ResidentOf(dw.store)
  BY <1>5 DEF InOrder
<1>7. Handoffs(new) = Handoffs(dw) \ {h}
  <2>1. h \notin { dw.pulls[i] : i \in 1 .. Len(dw.pulls) }
    BY <1>6 DEF PullsOf
  <2>. QED  BY <1>3, <2>1 DEF Handoffs
<1>8. h \in Handoffs(dw)
  BY DEF Handoffs
<1>9. /\ Len(new.landed) = Len(dw.landed) + 1 /\ Len(dw.landed) \in Nat
      /\ \A i \in 1 .. Len(dw.landed) : new.landed[i] = dw.landed[i]
      /\ new.landed[Len(dw.landed) + 1] = h.req
  BY <1>1, <1>3, Appended
<1>10. ASSUME NEW i \in 1 .. Len(new.landed), NEW j \in 1 .. Len(new.landed),
              new.landed[i] = new.landed[j]
       PROVE  i = j
  <2>1. \A k \in 1 .. Len(dw.landed) : dw.landed[k] # h.req
    BY <1>6 DEF LandedOf
  <2>2. (i \in 1 .. Len(dw.landed) \/ i = Len(dw.landed) + 1)
        /\ (j \in 1 .. Len(dw.landed) \/ j = Len(dw.landed) + 1)
    BY <1>9
  <2>. QED  BY <1>9, <1>10, <2>1, <2>2 DEF InOrder
<1>11. \A i, j \in 1 .. Len(new.pulls) : new.pulls[i].req = new.pulls[j].req => i = j
  BY <1>3 DEF InOrder
<1>12. InOrder(new)
  BY <1>3, <1>4, <1>5, <1>6, <1>10, <1>11 DEF InOrder
<1>. QED  BY <1>3, <1>4, <1>5, <1>6, <1>7, <1>8, <1>12

\* The next transfer leaves the queue.
LEMMA SubmittedQueues ==
    ASSUME NEW dw \in DecodeState, InOrder(dw), NEW new, new = Submitted(dw)
    PROVE  /\ new \in DecodeState /\ InOrder(new) /\ new.store = dw.store
           /\ Handoffs(new) = Handoffs(dw)
           /\ Queued(new) = Queued(dw) /\ LandedOf(new) = LandedOf(dw)
<1>1. CASE new = dw
  BY <1>1
<1>2. CASE new # dw
  <2> DEFINE h == Head(dw.pulls)
  <2>1. /\ dw.inFlight = NoPull /\ dw.pulls # << >>
        /\ new = [dw EXCEPT !.inFlight = Head(dw.pulls), !.pulls = Tail(dw.pulls)]
    BY <1>2 DEF Submitted
  <2>2. dw.pulls \in Seq(Handoff)
    BY DEF DecodeState
  <2>3. /\ Tail(dw.pulls) \in Seq(Handoff) /\ Len(Tail(dw.pulls)) = Len(dw.pulls) - 1
        /\ Len(dw.pulls) \in Nat /\ Len(dw.pulls) > 0
        /\ \A i \in 1 .. Len(Tail(dw.pulls)) : Tail(dw.pulls)[i] = dw.pulls[i + 1]
        /\ h = dw.pulls[1] /\ h \in Handoff
    BY <2>1, <2>2, Shifted
  <2> HIDE DEF h
  <2>4. /\ new \in DecodeState /\ new.pulls = Tail(dw.pulls) /\ new.inFlight = h
        /\ new.store = dw.store /\ new.landed = dw.landed
    BY <2>1, <2>3 DEF DecodeState, h
  <2>5. h # NoPull /\ h.req \in Requests
    BY <2>3, PdAssumption DEF Handoff
  <2>6. { dw.pulls[i] : i \in 1 .. Len(dw.pulls) }
           = { new.pulls[i] : i \in 1 .. Len(new.pulls) } \cup {h}
    BY <2>1, <2>2, <2>4, ShiftedSet DEF h
  <2>7. Handoffs(new) = Handoffs(dw)
    BY <2>1, <2>4, <2>5, <2>6 DEF Handoffs
  <2>8. Queued(new) = Queued(dw)
    BY <2>4, <2>7, QueuedRequests
  <2>9. LandedOf(new) = LandedOf(dw)
    BY <2>4 DEF LandedOf
  <2>10. ASSUME NEW i \in 1 .. Len(new.pulls), NEW j \in 1 .. Len(new.pulls),
                new.pulls[i].req = new.pulls[j].req
         PROVE  i = j
    <3>1. i + 1 \in 1 .. Len(dw.pulls) /\ j + 1 \in 1 .. Len(dw.pulls)
          /\ new.pulls[i] = dw.pulls[i + 1] /\ new.pulls[j] = dw.pulls[j + 1]
      BY <2>3, <2>4
    <3>2. i + 1 = j + 1
      BY <2>10, <3>1 DEF InOrder
    <3>. QED  BY <3>2
  <2>11. h.req \notin PullsOf(new)
    <3>1. ASSUME NEW i \in 1 .. Len(new.pulls), new.pulls[i].req = h.req PROVE FALSE
      <4>1. i + 1 \in 1 .. Len(dw.pulls) /\ 1 \in 1 .. Len(dw.pulls)
            /\ dw.pulls[i + 1].req = dw.pulls[1].req
        BY <2>3, <2>4, <3>1
      <4>2. i + 1 = 1
        BY <4>1 DEF InOrder
      <4>. QED  BY <4>2
    <3>. QED  BY <3>1 DEF PullsOf
  <2>12. InTransit(new) \cap PullsOf(new) = {}
    BY <2>4, <2>5, <2>11 DEF InTransit
  <2>13. \A i, j \in 1 .. Len(new.landed) : new.landed[i] = new.landed[j] => i = j
    BY <2>4 DEF InOrder
  <2>14. InOrder(new)
    BY <2>4, <2>8, <2>9, <2>10, <2>12, <2>13 DEF InOrder
  <2>. QED  BY <2>4, <2>7, <2>8, <2>9, <2>14
<1>. QED  BY <1>1, <1>2

\* advance_pulls: what has landed is acknowledged, nothing is lost.
LEMMA AdvancedQueues ==
    ASSUME NEW dw \in DecodeState, InOrder(dw), NEW pulled \in BOOLEAN,
           pulled => dw.inFlight # NoPull,
           NEW new, new = AdvancePulls(dw, pulled)
    PROVE  /\ new \in DecodeState /\ InOrder(new) /\ new.store = dw.store
           /\ Handoffs(new) = Handoffs(dw) \ (IF pulled THEN {dw.inFlight} ELSE {})
           /\ Queued(new) \cup LandedOf(new) = Queued(dw) \cup LandedOf(dw)
<1> DEFINE mid == IF pulled THEN Promoted(dw) ELSE dw
<1>1. /\ mid \in DecodeState /\ InOrder(mid) /\ mid.store = dw.store
      /\ Handoffs(mid) = Handoffs(dw) \ (IF pulled THEN {dw.inFlight} ELSE {})
      /\ Queued(mid) \cup LandedOf(mid) = Queued(dw) \cup LandedOf(dw)
  <2>1. CASE pulled
    <3>1. mid = Promoted(dw)
      BY <2>1
    <3>2. /\ mid \in DecodeState /\ InOrder(mid) /\ mid.store = dw.store
          /\ Handoffs(mid) = Handoffs(dw) \ {dw.inFlight}
          /\ Queued(mid) = Queued(dw) \ {dw.inFlight.req}
          /\ LandedOf(mid) = LandedOf(dw) \cup {dw.inFlight.req}
      BY <2>1, <3>1, PromotedQueues
    <3>3. dw.inFlight.req \in Queued(dw)
      BY <2>1 DEF Queued, InTransit
    <3>. QED  BY <2>1, <3>2, <3>3
  <2>2. CASE ~pulled
    BY <2>2
  <2>. QED  BY <2>1, <2>2
<1>2. new = Submitted(mid)
  BY DEF AdvancePulls
<1> HIDE DEF mid
<1>. QED  BY <1>1, <1>2, SubmittedQueues

\* Only the head of a queue leaves it.
LEMMA ShiftedOnce ==
    ASSUME NEW S, NEW s \in Seq(S), s # << >>, NEW t, t = Tail(s),
           \A i, j \in 1 .. Len(s) : s[i] = s[j] => i = j
    PROVE  /\ Head(s) \notin { t[i] : i \in 1 .. Len(t) }
           /\ \A i, j \in 1 .. Len(t) : t[i] = t[j] => i = j
<1>1. /\ Len(t) = Len(s) - 1 /\ Len(s) \in Nat /\ Len(s) > 0
      /\ \A i \in 1 .. Len(t) : t[i] = s[i + 1]
      /\ Head(s) = s[1]
  BY Shifted
<1>2. ASSUME NEW i \in 1 .. Len(t), t[i] = Head(s) PROVE FALSE
  <2>1. i + 1 \in 1 .. Len(s) /\ 1 \in 1 .. Len(s) /\ s[i + 1] = s[1]
    BY <1>1, <1>2
  <2>2. i + 1 = 1
    BY <2>1
  <2>. QED  BY <2>2
<1>3. ASSUME NEW i \in 1 .. Len(t), NEW j \in 1 .. Len(t), t[i] = t[j] PROVE i = j
  <2>1. i + 1 \in 1 .. Len(s) /\ j + 1 \in 1 .. Len(s) /\ s[i + 1] = s[j + 1]
    BY <1>1, <1>3
  <2>2. i + 1 = j + 1
    BY <2>1
  <2>. QED  BY <2>2
<1>. QED  BY <1>2, <1>3

\* A landed request joins a partition that has room for all it will grow.
LEMMA JoinedStore ==
    ASSUME NEW few \in BOOLEAN, NEW st, DF!PullSound(st, few), few => DF!FewDecodes(st), NEW r \in Requests, NEW p \in DF!Partitions,
           NEW left \in Nat, r \notin DF!ResidentOf(st),
           NEW units, units = DF!Footprint(ContextOf(r), left),
           DecodeKv!Fits(st, p, units),
           NEW promised \in DecodeKv!Reserved(st, r, p, units),
           NEW lefts \in [Requests -> Nat], lefts[r] = left
    PROVE  DF!Joins(st, r, p, left,
              DecodeKv!Committed(promised, {r}, [q \in Requests |-> ContextOf(q)], lefts), few)
<1> DEFINE joined == DF!Committed(promised, {r}, DF!Contexts, lefts)
<1>1. units = DF!Footprint(DF!ContextOf(r), left)
  BY DecodeParts
<1>2. DF!Fits(st, p, units) /\ promised \in DF!Reserved(st, r, p, units)
  BY DecodeParts, DecodeOps
<1>3. \A q \in DF!Partitions : r \notin st.decodes[q]
  BY DEF DF!ResidentOf
<1>4. DecodeKv!Committed(promised, {r}, [q \in Requests |-> ContextOf(q)], lefts) = joined
  BY DecodeParts, DecodeOps
<1>5. DF!Joins(st, r, p, left, joined, few)
  BY <1>1, <1>2, <1>3, DecodeAssumptions, DF!JoinPulls
<1>. QED  BY <1>4, <1>5

\* A worker that forms a batch keeps what it has been handed: at most the first
\* landed request becomes a decode.
LEMMA JoinedWorker ==
    ASSUME NEW few \in BOOLEAN, NEW dw \in DecodeState, NEW tokens \in [Requests -> Nat], DecodeSound(dw, tokens, few),
           few => DF!FewDecodes(dw.store),
           NEW new \in Joined(dw, tokens)
    PROVE  /\ new \in DecodeState /\ DecodeSound(new, tokens, few)
           /\ Handoffs(new) = Handoffs(dw) /\ Decoding(new) = Decoding(dw)
<1>0. /\ dw.landed \in Seq(Requests) /\ dw.next \in DF!Partitions /\ dw.backlog \in Nat
      /\ DF!PullSound(dw.store, few) /\ InOrder(dw)
  BY DecodeParts DEF DecodeState, DecodeSound
<1>1. CASE dw.landed = << >>
  <2>1. new = dw
    BY <1>1 DEF Joined
  <2>. QED  BY <2>1
<1>2. CASE dw.landed # << >>
  <2> DEFINE r    == Head(dw.landed)
             p    == dw.next
             left == Target[r] - tokens[r]
             turn == [dw EXCEPT !.next = NextPartition(p)]
  <2>1. NextPartition(p) \in DecodeKv!Partitions
    BY <1>0, PdAssumption, DecodeParts DEF NextPartition, DF!Partitions
  <2>2. /\ turn \in DecodeState /\ turn.pulls = dw.pulls /\ turn.inFlight = dw.inFlight
        /\ turn.landed = dw.landed /\ turn.store = dw.store /\ turn.backlog = dw.backlog
    BY <2>1 DEF DecodeState
  <2>3. /\ Handoffs(turn) = Handoffs(dw) /\ Queued(turn) = Queued(dw)
        /\ LandedOf(turn) = LandedOf(dw) /\ InOrder(turn)
    BY <1>0, <2>2, SameQueues
  <2>4. CASE new = turn
    <3>1. DecodeSound(turn, tokens, few)
      BY <2>2, <2>3 DEF DecodeSound
    <3>2. Decoding(turn) = Decoding(dw)
      BY <2>2, <2>3 DEF Decoding
    <3>. QED  BY <2>2, <2>3, <2>4, <3>1, <3>2
  <2>5. CASE new # turn
    <3> DEFINE units == ContextOf(r) + left
               lefts == [q \in Requests |-> left]
               after == IF dw.backlog >= ContextOf(r) THEN dw.backlog - ContextOf(r) ELSE 0
    <3>1. r \in Requests /\ r = dw.landed[1] /\ 1 \in 1 .. Len(dw.landed)
      BY <1>0, <1>2, Shifted
    <3>2. /\ r \in LandedOf(dw) /\ tokens[r] = 1 /\ Target[r] > 1 /\ Target[r] \in Nat
          /\ ContextOf(r) \in Nat
      BY <3>1, RequestType DEF LandedOf, DecodeSound
    <3>3. left \in Nat /\ left > 0
      BY <3>2
    <3>4. r \notin DF!ResidentOf(dw.store) /\ r \notin Queued(dw)
      BY <1>0, <3>2 DEF InOrder
    <3> DEFINE Store(s) == DecodeKv!Committed(s, {r},
                              [q \in Requests |-> ContextOf(q)], lefts)
    <3>5. /\ (left = 0 \/ DecodeKv!Fits(dw.store, p, units))
           /\ new \in { [turn EXCEPT !.landed = Tail(@),
                                    !.backlog = IF @ >= ContextOf(r) THEN @ - ContextOf(r) ELSE 0,
                                    !.store = Store(s)] :
                          s \in DecodeKv!Reserved(dw.store, r, p, units) }
      BY <1>2, <2>5, Zenon DEF Joined
    <3>6. PICK promised \in DecodeKv!Reserved(dw.store, r, p, units) :
             /\ DecodeKv!Fits(dw.store, p, units)
             /\ new = [turn EXCEPT !.landed = Tail(dw.landed), !.backlog = after,
                          !.store = Store(promised)]
      <4> HIDE DEF left, units, Store, turn, r
      <4>1. PICK s \in DecodeKv!Reserved(dw.store, r, p, units) :
               new = [turn EXCEPT !.landed = Tail(@),
                                  !.backlog = IF @ >= ContextOf(r) THEN @ - ContextOf(r) ELSE 0,
                                  !.store = Store(s)]
        BY <3>5
      <4>2. new = [turn EXCEPT !.landed = Tail(dw.landed), !.backlog = after,
                               !.store = Store(s)]
        BY <2>2, <4>1
      <4>3. left # 0
        BY <3>3
      <4>4. DecodeKv!Fits(dw.store, p, units)
        BY <3>5, <4>3, Zenon
      <4>. QED  BY <4>2, <4>4
    <3> HIDE DEF left, turn, r
    <3> DEFINE store == Store(promised)
    <3>7. lefts \in [Requests -> Nat] /\ lefts[r] = left
           /\ units = DF!Footprint(ContextOf(r), left)
      BY <3>1, <3>3 DEF DF!Footprint
    <3> HIDE DEF lefts, units
    <3>8. DF!Joins(dw.store, r, p, left, store, few)
      BY <1>0, <3>1, <3>3, <3>4, <3>6, <3>7, JoinedStore
    <3> HIDE DEF store
    <3>9. /\ DF!PullSound(store, few)
          /\ DF!ResidentOf(store) = DF!ResidentOf(dw.store) \cup {r}
          /\ \A x \in Requests : store.remaining[x]
                                   = IF x = r THEN left ELSE dw.store.remaining[x]
      <4>1. \A q \in DF!Partitions : store.decodes[q] =
               IF q = p THEN dw.store.decodes[q] \cup {r} ELSE dw.store.decodes[q]
        BY <3>8 DEF DF!Joins
      <4>2. DF!ResidentOf(store) = DF!ResidentOf(dw.store) \cup {r}
        <5>1. p \in DF!Partitions
          BY <1>0
        <5> HIDE DEF p
        <5>2. ASSUME NEW x \in DF!ResidentOf(store) PROVE x \in DF!ResidentOf(dw.store) \cup {r}
          BY <4>1, ZenonT(30) DEF DF!ResidentOf
        <5>3. DF!ResidentOf(dw.store) \subseteq DF!ResidentOf(store)
          BY <4>1 DEF DF!ResidentOf
        <5>4. r \in store.decodes[p]
          BY <4>1, <5>1
        <5>5. r \in DF!ResidentOf(store)
          BY <5>1, <5>4 DEF DF!ResidentOf
        <5>. QED  BY <5>2, <5>3, <5>5
      <4>. QED  BY <3>8, <4>2 DEF DF!Joins
    <3>10. store \in DecodeKv!Store
      BY <3>9, DecodeParts DEF DF!PullSound
    <3>11. after \in Nat /\ Tail(dw.landed) \in Seq(Requests)
      BY <1>0, <1>2, <3>2, Shifted
    <3> HIDE DEF store, after
    <3>12. /\ new \in DecodeState /\ new.pulls = dw.pulls /\ new.inFlight = dw.inFlight
          /\ new.landed = Tail(dw.landed) /\ new.store = store
      BY <2>2, <3>6, <3>10, <3>11 DEF DecodeState, store
    <3>13. Handoffs(new) = Handoffs(dw) /\ PullsOf(new) = PullsOf(dw)
           /\ InTransit(new) = InTransit(dw) /\ Queued(new) = Queued(dw)
      BY <3>12 DEF Handoffs, PullsOf, InTransit, Queued
    <3>14. LandedOf(dw) = LandedOf(new) \cup {r}
      BY <1>0, <1>2, <3>12, ShiftedSet DEF LandedOf, r
    <3>15. /\ r \notin LandedOf(new)
           /\ \A i, j \in 1 .. Len(new.landed) : new.landed[i] = new.landed[j] => i = j
      <4>1. \A i, j \in 1 .. Len(dw.landed) : dw.landed[i] = dw.landed[j] => i = j
        BY <1>0 DEF InOrder
      <4>. QED  BY <1>0, <1>2, <3>12, <4>1, ShiftedOnce DEF LandedOf, r
    <3>16. InOrder(new)
      BY <1>0, <3>4, <3>9, <3>12, <3>13, <3>14, <3>15 DEF InOrder
    <3>17. Decoding(new) = Decoding(dw)
      BY <3>9, <3>12, <3>13, <3>14 DEF Decoding
    <3>18. \A x \in DF!ResidentOf(new.store) : new.store.remaining[x] = Target[x] - tokens[x]
                                             /\ new.store.remaining[x] > 0
      <4>1. DF!ResidentOf(dw.store) \subseteq Requests
        BY <1>0 DEF DF!PullSound, DF!Store, DF!ResidentOf
      <4>. QED  BY <3>1, <3>3, <3>9, <3>12, <4>1 DEF DecodeSound, left
    <3>19. DecodeSound(new, tokens, few)
      BY <3>9, <3>12, <3>13, <3>14, <3>16, <3>18 DEF DecodeSound
    <3>. QED  BY <3>12, <3>13, <3>17, <3>19
  <2>. QED  BY <2>4, <2>5
<1>. QED  BY <1>1, <1>2

\* A worker is not disturbed by the time of its next turn.
LEMMA WakeOnly ==
    ASSUME NEW few \in BOOLEAN, NEW dw \in DecodeState, NEW tokens, DecodeSound(dw, tokens, few),
           NEW wake \in Wakes, NEW new, new = [dw EXCEPT !.wake = wake]
    PROVE  /\ new \in DecodeState /\ DecodeSound(new, tokens, few)
           /\ Handoffs(new) = Handoffs(dw) /\ Decoding(new) = Decoding(dw)
<1>1. /\ new \in DecodeState /\ new.pulls = dw.pulls /\ new.inFlight = dw.inFlight
      /\ new.landed = dw.landed /\ new.store = dw.store
  BY DEF DecodeState
<1>2. /\ Handoffs(new) = Handoffs(dw) /\ Queued(new) = Queued(dw)
      /\ LandedOf(new) = LandedOf(dw) /\ InOrder(new)
  BY <1>1, SameQueues DEF DecodeSound
<1>. QED  BY <1>1, <1>2 DEF DecodeSound, Decoding

\* The requests whose decode goes through an iteration, the tokens they then have
\* and those that have them all.
Ran(dw, computed) == IF computed THEN DF!ResidentOf(dw.store) ELSE {}
Counted(tokens, ran) == [r \in Requests |-> IF r \in ran THEN tokens[r] + 1 ELSE tokens[r]]
Finished(ran, tokens) == { r \in ran : IsComplete(r, tokens) }

\* The decodes of a worker are few, where that is asked for.
FewAt(dw, few) == few => DF!FewDecodes(dw.store)

\* An iteration of a decode worker, if one has ended, and its transfers.
LEMMA RestedWorker ==
    ASSUME NEW few \in BOOLEAN, NEW dw \in DecodeState, NEW tokens \in [Requests -> Nat], DecodeSound(dw, tokens, few),
           FewAt(dw, few),
           NEW pulled \in BOOLEAN, NEW computed \in BOOLEAN,
           pulled => dw.inFlight # NoPull,
           NEW counted, counted = Counted(tokens, Ran(dw, computed)),
           NEW finished, finished = Finished(Ran(dw, computed), counted),
           NEW st, st = IF computed THEN AfterDecode(dw.store, finished) ELSE dw.store,
           NEW new, new = [AdvancePulls(dw, pulled) EXCEPT !.store = st]
    PROVE  /\ new \in DecodeState /\ DecodeSound(new, counted, few)
           /\ FewAt(new, few)
           /\ Handoffs(new) = Handoffs(dw) \ (IF pulled THEN {dw.inFlight} ELSE {})
           /\ Decoding(new) = Decoding(dw) \ finished
<1> DEFINE ran == Ran(dw, computed)
           all == DF!ResidentOf(dw.store)
<1>1. DF!PullSound(dw.store, few) /\ InOrder(dw) /\ all \in SUBSET Requests /\ ran \in SUBSET all
  BY DEF DecodeSound, DF!PullSound, DF!Store, DF!ResidentOf, Ran
<1>2. counted \in [Requests -> Nat]
      /\ \A r \in Requests : counted[r] = IF r \in ran THEN tokens[r] + 1 ELSE tokens[r]
  BY DEF Counted
<1>3. finished \in SUBSET ran
      /\ \A r \in ran : r \in finished <=> counted[r] >= Target[r]
  BY DEF Finished, IsComplete
<1>4. \A r \in all : /\ dw.store.remaining[r] = Target[r] - tokens[r]
                     /\ dw.store.remaining[r] > 0
  BY DEF DecodeSound
<1>5. /\ DF!PullSound(st, few) /\ DF!ResidentOf(st) = all \ finished
      /\ few => DF!FewDecodes(st)
      /\ \A r \in all \ finished : st.remaining[r] = Target[r] - counted[r] /\ st.remaining[r] > 0
  <2>1. CASE computed
    <3>1. ran = all /\ finished \in SUBSET all
      BY <1>3, <2>1 DEF Ran
    <3>2. /\ DF!PullSound(st, few) /\ DF!ResidentOf(st) = all \ finished
          /\ few => DF!FewDecodes(st)
          /\ \A r \in all \ finished : st.remaining[r] = dw.store.remaining[r] - 1
      <4>1. st = AfterDecode(dw.store, finished)
        BY <2>1
      <4>2. \A r \in DF!ResidentOf(dw.store) : dw.store.remaining[r] > 0
        BY <1>4
      <4>3. DF!PullSound(st, few) /\ (few => DF!FewDecodes(st))
        BY <1>1, <3>1, <4>1, <4>2, AfterDecodeStore DEF FewAt
      <4>4. DF!ResidentOf(st) = all \ finished
        BY <1>1, <3>1, <4>1, <4>2, AfterDecodeStore DEF FewAt
      <4>5. \A r \in all \ finished : st.remaining[r] = dw.store.remaining[r] - 1
        BY <1>1, <3>1, <4>1, <4>2, AfterDecodeStore DEF FewAt
      <4>. QED  BY <4>3, <4>4, <4>5
    <3>3. ASSUME NEW r \in all \ finished
          PROVE  st.remaining[r] = Target[r] - counted[r] /\ st.remaining[r] > 0
      <4>1. r \in Requests /\ tokens[r] \in Nat /\ Target[r] \in Nat
        BY <1>1, RequestType
      <4>2. counted[r] = tokens[r] + 1 /\ ~(counted[r] >= Target[r])
        BY <1>2, <1>3, <3>1, <4>1
      <4>3. st.remaining[r] = dw.store.remaining[r] - 1
            /\ dw.store.remaining[r] = Target[r] - tokens[r]
        BY <1>4, <3>2
      <4>. QED  BY <4>1, <4>2, <4>3
    <3>. QED  BY <3>2, <3>3
  <2>2. CASE ~computed
    <3>1. ran = {} /\ finished = {} /\ st = dw.store
      BY <1>3, <2>2 DEF Ran
    <3>. QED  BY <1>1, <1>2, <1>4, <3>1 DEF FewAt
  <2>. QED  BY <2>1, <2>2
<1> DEFINE mid == AdvancePulls(dw, pulled)
<1>6. /\ mid \in DecodeState /\ InOrder(mid) /\ mid.store = dw.store
      /\ Handoffs(mid) = Handoffs(dw) \ (IF pulled THEN {dw.inFlight} ELSE {})
      /\ Queued(mid) \cup LandedOf(mid) = Queued(dw) \cup LandedOf(dw)
  BY <1>1, AdvancedQueues
<1>7. new = [mid EXCEPT !.store = st]
  OBVIOUS
<1> HIDE DEF mid
<1>8. st \in DecodeKv!Store
  BY <1>5, DecodeParts DEF DF!PullSound
<1>9. /\ new \in DecodeState /\ new.store = st
      /\ new.pulls = mid.pulls /\ new.inFlight = mid.inFlight /\ new.landed = mid.landed
  BY <1>6, <1>7, <1>8 DEF DecodeState
<1>10. /\ Handoffs(new) = Handoffs(mid) /\ Queued(new) = Queued(mid)
       /\ LandedOf(new) = LandedOf(mid)
  BY <1>9, SameQueues
<1>11. InTransit(new) = InTransit(mid) /\ PullsOf(new) = PullsOf(mid)
  BY <1>9 DEF InTransit, PullsOf
<1>12. InOrder(new)
  BY <1>5, <1>6, <1>9, <1>10, <1>11 DEF InOrder
<1>13. \A r \in Queued(new) \cup LandedOf(new) : counted[r] = 1 /\ Target[r] > 1
  <2>. SUFFICES ASSUME NEW r \in Queued(new) \cup LandedOf(new)
                PROVE  counted[r] = 1 /\ Target[r] > 1
    OBVIOUS
  <2>1. r \in Queued(dw) \cup LandedOf(dw) /\ r \in Queued(mid) \cup LandedOf(mid)
    BY <1>6, <1>10
  <2>2. tokens[r] = 1 /\ Target[r] > 1
    BY <2>1 DEF DecodeSound
  <2>3. r \notin ran
    BY <1>1, <1>6, <2>1 DEF InOrder
  <2>4. r \in Requests
    <3>1. r \in { h.req : h \in Handoffs(dw) } \cup LandedOf(dw)
      BY <2>1, QueuedRequests
    <3>2. Handoffs(dw) \in SUBSET Handoff /\ dw.landed \in Seq(Requests)
      BY QueuedRequests DEF DecodeState
    <3>. QED  BY <3>1, <3>2 DEF Handoff, LandedOf
  <2>. QED  BY <1>2, <2>2, <2>3, <2>4
<1>14. DecodeSound(new, counted, few)
  BY <1>5, <1>9, <1>12, <1>13 DEF DecodeSound
<1>15. Decoding(new) = Decoding(dw) \ finished
  <2>1. (Queued(dw) \cup LandedOf(dw)) \cap finished = {}
    BY <1>1, <1>3 DEF InOrder
  <2>. QED  BY <1>1, <1>3, <1>5, <1>6, <1>9, <1>10, <2>1 DEF Decoding
<1>. QED  BY <1>5, <1>6, <1>9, <1>10, <1>14, <1>15 DEF FewAt

-----------------------------------------------------------------------------
(* What a step leaves of the workers. *)

PrefillState == [store : PrefillKv!Store, pending : SUBSET Requests, wake : Wakes]

\* The workers of each pool are of one kind.
LEMMA Workers ==
    ASSUME IInv
    PROVE  /\ prefill \in [PrefillWorkers -> PrefillState]
           /\ decode \in [DecodeWorkers -> DecodeState]
           /\ emitted \in [Requests -> Nat]
           /\ Arrived \in SUBSET Requests /\ done \in SUBSET Arrived
<1>1. TypeOK /\ done \subseteq Arrived
  BY DEF IInv
<1>2. Arrived \in SUBSET Requests
  BY <1>1 DEF TypeOK, Arrived
<1>. QED  BY <1>1, <1>2 DEF TypeOK, PrefillState, DecodeState

\* A tick of a decode worker: it advances its transfers and its iteration.
LEMMA DecodeTickWorker ==
    ASSUME IInv, NEW d \in DecodeWorkers, NEW pulled \in BOOLEAN, NEW computed \in BOOLEAN,
           DecodeTick(d, pulled, computed), NEW few \in BOOLEAN,
           few => DF!PullSound(decode[d].store, TRUE) /\ DF!FewDecodes(decode[d].store)
    PROVE  LET ran == Ran(decode[d], computed)
           IN  /\ pulled => decode[d].inFlight # NoPull
               /\ emitted' = Counted(emitted, ran) /\ emitted' \in [Requests -> Nat]
               /\ done' = done \cup Finished(ran, emitted')
               /\ decode' \in [DecodeWorkers -> DecodeState]
               /\ \A e \in DecodeWorkers \ {d} : decode'[e] = decode[e]
               /\ DecodeSound(decode'[d], emitted', few)
               /\ Handoffs(decode'[d]) =
                     Handoffs(decode[d]) \ (IF pulled THEN {decode[d].inFlight} ELSE {})
               /\ Decoding(decode'[d]) = Decoding(decode[d]) \ Finished(ran, emitted')
<1> DEFINE dw       == decode[d]
           ran      == Ran(dw, computed)
           counted  == Counted(emitted, ran)
           finished == Finished(ran, counted)
           st       == IF computed THEN AfterDecode(dw.store, finished) ELSE dw.store
           rested   == [AdvancePulls(dw, pulled) EXCEPT !.store = st]
<1>1. /\ dw \in DecodeState /\ emitted \in [Requests -> Nat]
      /\ DecodeSound(dw, emitted, few)
      /\ few => DF!FewDecodes(dw.store)
  <2>1. dw \in DecodeState /\ emitted \in [Requests -> Nat] /\ DecodeSound(dw, emitted, FALSE)
    BY Workers DEF IInv
  <2>2. few => DF!PullSound(dw.store, TRUE)
    OBVIOUS
  <2>3. DecodeSound(dw, emitted, few)
    <3>1. few = TRUE \/ few = FALSE
      OBVIOUS
    <3>2. CASE few = FALSE
      BY <2>1, <3>2
    <3>3. CASE few = TRUE
      BY <2>1, <2>2, <3>3 DEF DecodeSound
    <3>. QED  BY <3>1, <3>2, <3>3
  <2>4. few => DF!FewDecodes(dw.store)
    BY Zenon
  <2>. QED  BY <2>1, <2>3, <2>4
<1>2. LiveOf(dw.store) = DF!ResidentOf(dw.store)
  <2>1. \A r \in DF!ResidentOf(dw.store) : dw.store.remaining[r] > 0
    BY <1>1 DEF DecodeSound
  <2>. QED  BY <2>1, AllLive
<1>3. /\ pulled => dw.inFlight # NoPull
      /\ emitted' = counted
      /\ done' = done \cup finished
  BY <1>2 DEF DecodeTick, Ran, Counted, Finished
<1>4. PICK formed \in Joined(rested, counted) \cup {rested} :
         decode' = [decode EXCEPT ![d] = [formed EXCEPT !.wake = DecodeWake(formed)]]
  <2> DEFINE live == LiveOf(dw.store)
             some == IF computed THEN live ELSE {}
             now  == [r \in Requests |-> IF r \in some THEN emitted[r] + 1 ELSE emitted[r]]
             gone == { r \in some : IsComplete(r, now) }
             Rested(s) == [AdvancePulls(dw, pulled) EXCEPT !.store = s]
  <2>1. \E s \in IF computed THEN { AfterDecode(dw.store, gone) } ELSE { dw.store } :
           \E formed \in IF computed \/ live = {} THEN Joined(Rested(s), now) ELSE { Rested(s) } :
              decode' = [decode EXCEPT ![d] = [formed EXCEPT !.wake = DecodeWake(formed)]]
    BY DEF DecodeTick
  <2>2. some = ran /\ now = counted
    BY <1>2 DEF Ran, Counted
  <2>3. gone = finished
    BY <2>2 DEF Finished
  <2> HIDE DEF now, gone, Rested, some, live, counted, finished
  <2>4. PICK s \in IF computed THEN { AfterDecode(dw.store, gone) } ELSE { dw.store } :
           \E formed \in IF computed \/ live = {} THEN Joined(Rested(s), now) ELSE { Rested(s) } :
              decode' = [decode EXCEPT ![d] = [formed EXCEPT !.wake = DecodeWake(formed)]]
    BY <2>1
  <2>5. s = st
    BY <2>3
  <2>6. Rested(s) = rested
    BY <2>5 DEF Rested
  <2>. QED  BY <2>2, <2>4, <2>6
<1>5. counted \in [Requests -> Nat]
  BY <1>1 DEF Counted
<1>6. /\ rested \in DecodeState /\ DecodeSound(rested, counted, few)
      /\ few => DF!FewDecodes(rested.store)
      /\ Handoffs(rested) = Handoffs(dw) \ (IF pulled THEN {dw.inFlight} ELSE {})
      /\ Decoding(rested) = Decoding(dw) \ finished
  <2>1. /\ counted = Counted(emitted, Ran(dw, computed))
        /\ finished = Finished(Ran(dw, computed), counted)
        /\ st = (IF computed THEN AfterDecode(dw.store, finished) ELSE dw.store)
        /\ rested = [AdvancePulls(dw, pulled) EXCEPT !.store = st]
    OBVIOUS
  <2>2. few \in BOOLEAN /\ (pulled => dw.inFlight # NoPull)
    BY <1>3
  <2> HIDE DEF dw, ran, counted, finished, st, rested
  <2>3. /\ dw \in DecodeState /\ emitted \in [Requests -> Nat]
        /\ DecodeSound(dw, emitted, few) /\ FewAt(dw, few)
    BY <1>1 DEF FewAt
  <2>4. /\ rested \in DecodeState /\ DecodeSound(rested, counted, few) /\ FewAt(rested, few)
        /\ Handoffs(rested) = Handoffs(dw) \ (IF pulled THEN {dw.inFlight} ELSE {})
        /\ Decoding(rested) = Decoding(dw) \ finished
    BY <2>1, <2>2, <2>3, RestedWorker
  <2>. QED  BY <2>4 DEF FewAt
<1> HIDE DEF rested, counted, finished
<1>7. /\ formed \in DecodeState /\ DecodeSound(formed, counted, few)
      /\ Handoffs(formed) = Handoffs(rested) /\ Decoding(formed) = Decoding(rested)
  BY <1>4, <1>5, <1>6, JoinedWorker
<1> DEFINE new == [formed EXCEPT !.wake = DecodeWake(formed)]
<1>8. DecodeWake(formed) \in Wakes
  BY DEF DecodeWake, Wakes
<1>9. /\ new \in DecodeState /\ DecodeSound(new, counted, few)
      /\ Handoffs(new) = Handoffs(formed) /\ Decoding(new) = Decoding(formed)
  BY <1>7, <1>8, WakeOnly
<1> HIDE DEF new
<1>10. /\ decode' \in [DecodeWorkers -> DecodeState] /\ decode'[d] = new
       /\ \A e \in DecodeWorkers \ {d} : decode'[e] = decode[e]
  BY <1>4, <1>9, Workers DEF new
<1>. QED  BY <1>3, <1>5, <1>6, <1>7, <1>9, <1>10 DEF counted, finished

\* The acknowledgement of a pull, at the worker that held the KV.
LEMMA DecodeTickPrefill ==
    ASSUME IInv, NEW d \in DecodeWorkers, NEW pulled \in BOOLEAN, NEW computed \in BOOLEAN,
           DecodeTick(d, pulled, computed)
    PROVE  /\ prefill' \in [PrefillWorkers -> PrefillState]
           /\ \A w \in PrefillWorkers :
                 /\ PrefillSound(prefill'[w])
                 /\ Prefilling(prefill'[w]) = Prefilling(prefill[w])
                 /\ \A x \in Requests : prefill'[w].store.held[x] =
                       IF pulled /\ decode[d].inFlight = [req |-> x, from |-> w]
                       THEN 0 ELSE prefill[w].store.held[x]
<1>1. /\ prefill \in [PrefillWorkers -> PrefillState]
      /\ \A w \in PrefillWorkers : PrefillSound(prefill[w])
  BY Workers DEF IInv
<1>2. CASE ~pulled
  <2>1. prefill' = prefill
    BY <1>2 DEF DecodeTick
  <2>. QED  BY <1>1, <1>2, <2>1
<1>3. CASE pulled
  <2> DEFINE h == decode[d].inFlight
             pw == prefill[h.from]
  <2>1. h \in Handoff /\ h.req \in Requests /\ h.from \in PrefillWorkers
    BY <1>3, Workers DEF DecodeTick, DecodeState, Handoff
  <2>2. PICK st \in PrefillKv!HandoffCompleted(pw.store, h.req) :
           prefill' = [prefill EXCEPT ![h.from] = Woken([@ EXCEPT !.store = st])]
    BY <1>3 DEF DecodeTick
  <2>3. h = [req |-> h.req, from |-> h.from]
    BY <2>1 DEF Handoff
  <2> HIDE DEF h
  <2>4. pw \in PrefillState /\ PrefillSound(pw) /\ PF!HandsOver(pw.store)
    BY <1>1, <2>1 DEF PrefillSound
  <2>5. /\ PF!HandsOver(st) /\ st.admits = pw.store.admits
        /\ \A x \in Requests : st.held[x] = IF x = h.req THEN 0 ELSE pw.store.held[x]
    BY <2>1, <2>2, <2>4, AcknowledgedStore
  <2> DEFINE new == Woken([pw EXCEPT !.store = st])
  <2>6. st \in PrefillKv!Store
    BY <2>5, PrefillParts DEF PF!HandsOver
  <2>7. new \in PrefillState /\ new.store = st /\ new.pending = pw.pending
    BY <2>4, <2>6 DEF PrefillState, Woken, Wakes
  <2>8. prefill' = [prefill EXCEPT ![h.from] = new]
    BY <1>1, <2>1, <2>2
  <2> HIDE DEF new, pw
  <2>9. PrefillSound(new) /\ Prefilling(new) = Prefilling(pw)
    BY <2>4, <2>5, <2>7 DEF PrefillSound, Prefilling
  <2>10. prefill' \in [PrefillWorkers -> PrefillState] /\ prefill'[h.from] = new
         /\ \A w \in PrefillWorkers \ {h.from} : prefill'[w] = prefill[w]
    BY <1>1, <2>1, <2>7, <2>8
  <2>11. ASSUME NEW w \in PrefillWorkers
         PROVE  /\ PrefillSound(prefill'[w])
                /\ Prefilling(prefill'[w]) = Prefilling(prefill[w])
                /\ \A x \in Requests : prefill'[w].store.held[x] =
                      IF h = [req |-> x, from |-> w] THEN 0 ELSE prefill[w].store.held[x]
    <3>1. CASE w = h.from
      <4>1. prefill'[w] = new /\ prefill[w] = pw
        BY <2>10, <3>1 DEF pw
      <4>2. \A x \in Requests : (h = [req |-> x, from |-> w]) <=> x = h.req
        BY <2>3, <3>1
      <4>. QED  BY <2>5, <2>7, <2>9, <4>1, <4>2
    <3>2. CASE w # h.from
      <4>1. \A x \in Requests : h # [req |-> x, from |-> w]
        BY <2>3, <3>2
      <4>2. prefill'[w] = prefill[w]
        BY <2>10, <3>2
      <4>. QED  BY <1>1, <4>1, <4>2
    <3>. QED  BY <3>1, <3>2
  <2>. QED  BY <1>3, <2>10, <2>11 DEF h
<1>. QED  BY <1>2, <1>3

\* A request that is being prefilled is held nowhere.
LEMMA NotYetHeld ==
    ASSUME IInv, NEW w \in PrefillWorkers, NEW r \in Prefilling(prefill[w])
    PROVE  \A x \in PrefillWorkers : prefill[x].store.held[r] = 0
<1>1. r \in Requests
  BY Workers DEF IInv, OnePlace, InService
<1>2. ASSUME NEW x \in PrefillWorkers, prefill[x].store.held[r] # 0 PROVE FALSE
  <2>1. prefill[x].store.held[r] \in Nat
    BY <1>1, PrefillParts DEF IInv, PrefillSound, PF!HandsOver, PF!Store
  <2>2. PICK d \in DecodeWorkers : [req |-> r, from |-> x] \in Handoffs(decode[d])
    BY <1>1, <1>2, <2>1 DEF IInv, HeldExact
  <2>3. decode[d] \in DecodeState
    BY Workers
  <2>4. r \in Queued(decode[d])
    BY <2>2, <2>3, QueuedRequests
  <2>. QED  BY <2>4 DEF IInv, OnePlace, Decoding
<1>. QED  BY <1>2

\* A tick of a prefill worker: what it has prefilled leaves it, and at most one
\* pending request takes its place.
LEMMA PrefillTickWorker ==
    ASSUME IInv, NEW w \in PrefillWorkers, PrefillTick(w)
    PROVE  LET ran == prefill[w].store.admits[0]
           IN  /\ prefill' \in [PrefillWorkers -> PrefillState]
               /\ \A x \in PrefillWorkers \ {w} : prefill'[x] = prefill[x]
               /\ PrefillSound(prefill'[w])
               /\ Prefilling(prefill'[w]) = Prefilling(prefill[w]) \ ran
               /\ \A x \in Requests : prefill'[w].store.held[x] =
                     IF x \in ran /\ Target[x] > 1 THEN ContextOf(x)
                                                   ELSE prefill[w].store.held[x]
               /\ emitted' = Counted(emitted, ran) /\ emitted' \in [Requests -> Nat]
               /\ done' = done \cup { r \in ran : Target[r] = 1 }
<1> DEFINE pw  == prefill[w]
           ran == pw.store.admits[0]
<1>1. /\ prefill \in [PrefillWorkers -> PrefillState] /\ pw \in PrefillState
      /\ PrefillSound(pw) /\ PF!HandsOver(pw.store) /\ emitted \in [Requests -> Nat]
  BY Workers DEF IInv, PrefillSound
<1>2. \A r \in ran : ran = {r} /\ pw.store.held[r] = 0 /\ r \notin pw.pending
  BY <1>1, NotYetHeld DEF PrefillSound, Prefilling
<1>3. PICK st \in AfterPrefill(pw.store) : \E f \in Formed(st, pw.pending) :
         prefill' = [prefill EXCEPT ![w] =
            [store |-> f.store, pending |-> f.pending, wake |-> PrefillWake(f.store, f.pending)]]
  BY DEF PrefillTick
<1>4. PICK f \in Formed(st, pw.pending) :
         prefill' = [prefill EXCEPT ![w] =
            [store |-> f.store, pending |-> f.pending, wake |-> PrefillWake(f.store, f.pending)]]
  BY <1>3
<1> DEFINE new == [store |-> f.store, pending |-> f.pending,
                   wake |-> PrefillWake(f.store, f.pending)]
<1>5. /\ PF!HandsOver(st) /\ st.admits[0] = {}
      /\ \A x \in Requests : st.held[x] =
            IF x \in ran /\ Target[x] > 1 THEN ContextOf(x) ELSE pw.store.held[x]
  BY <1>1, <1>2, <1>4, AfterPrefillStore
<1>6. pw.pending \in SUBSET Requests
  BY <1>1 DEF PrefillState
<1>7. /\ PF!HandsOver(f.store) /\ f.store.held = st.held
      /\ \/ f.pending = pw.pending /\ f.store.admits[0] = {}
         \/ \E r \in pw.pending : f.pending = pw.pending \ {r} /\ f.store.admits[0] = {r}
  BY <1>4, <1>5, <1>6, FormedStore
<1>8. f.store \in PrefillKv!Store /\ PrefillWake(f.store, f.pending) \in Wakes
  BY <1>7, PrefillParts DEF PF!HandsOver, PrefillWake, Wakes
<1>9. /\ new \in PrefillState /\ new.store = f.store /\ new.pending = f.pending
  BY <1>6, <1>7, <1>8 DEF PrefillState
<1> HIDE DEF new
<1>10. /\ prefill' \in [PrefillWorkers -> PrefillState] /\ prefill'[w] = new
      /\ \A x \in PrefillWorkers \ {w} : prefill'[x] = prefill[x]
  BY <1>1, <1>4, <1>9 DEF new
<1>11. PrefillSound(new)
  BY <1>7, <1>9 DEF PrefillSound
<1>12. Prefilling(new) = Prefilling(pw) \ ran
  BY <1>2, <1>7, <1>9 DEF Prefilling
<1>13. emitted' = Counted(emitted, ran) /\ done' = done \cup { r \in ran : Target[r] = 1 }
  BY DEF PrefillTick, Counted
<1>14. emitted' \in [Requests -> Nat]
  BY <1>1, <1>13 DEF Counted
<1>15. \A x \in Requests : prefill'[w].store.held[x] =
          IF x \in ran /\ Target[x] > 1 THEN ContextOf(x) ELSE pw.store.held[x]
  BY <1>5, <1>7, <1>9, <1>10
<1>. QED  BY <1>10, <1>11, <1>12, <1>13, <1>14, <1>15

\* A decode worker that is handed a prefilled request.
LEMMA HandedOffWorker ==
    ASSUME IInv, NEW w \in PrefillWorkers, NEW r \in prefill[w].store.admits[0],
           Target[r] > 1, NEW d \in DecodeWorkers,
           NEW counted, counted = Counted(emitted, {r}),
           decode' = [decode EXCEPT ![d] = HandedOff(@, r, w)]
    PROVE  /\ decode' \in [DecodeWorkers -> DecodeState]
           /\ \A e \in DecodeWorkers \ {d} : decode'[e] = decode[e]
           /\ DecodeSound(decode'[d], counted, FALSE)
           /\ Handoffs(decode'[d]) = Handoffs(decode[d]) \cup {[req |-> r, from |-> w]}
           /\ Decoding(decode'[d]) = Decoding(decode[d]) \cup {r}
<1> DEFINE dw == decode[d]
           new == HandedOff(dw, r, w)
<1>1. /\ decode \in [DecodeWorkers -> DecodeState] /\ dw \in DecodeState
      /\ DecodeSound(dw, emitted, FALSE) /\ InOrder(dw) /\ emitted \in [Requests -> Nat]
  BY Workers DEF IInv, DecodeSound
<1>2. r \in Prefilling(prefill[w]) /\ r \in Requests /\ r \notin Decoding(dw) /\ emitted[r] = 0
  <2>1. r \in Prefilling(prefill[w])
    BY DEF Prefilling
  <2>2. r \in Requests
    BY <2>1, Workers DEF IInv, OnePlace, InService
  <2>. QED  BY <2>1, <2>2 DEF IInv, OnePlace, EmittedAgrees
<1>3. /\ new \in DecodeState /\ InOrder(new) /\ new.store = dw.store
      /\ Handoffs(new) = Handoffs(dw) \cup {[req |-> r, from |-> w]}
      /\ Queued(new) = Queued(dw) \cup {r} /\ LandedOf(new) = LandedOf(dw)
  BY <1>1, <1>2, HandedOffQueues
<1> HIDE DEF new
<1>4. counted[r] = 1 /\ \A x \in Requests \ {r} : counted[x] = emitted[x]
  BY <1>1, <1>2 DEF Counted
<1>5. Decoding(dw) \in SUBSET Requests
  BY Workers DEF IInv, OnePlace, InService
<1>6. DecodeSound(new, counted, FALSE)
  <2>1. \A x \in Queued(new) \cup LandedOf(new) : counted[x] = 1 /\ Target[x] > 1
    BY <1>1, <1>2, <1>3, <1>4, <1>5 DEF DecodeSound, Decoding
  <2>2. \A x \in DF!ResidentOf(new.store) : new.store.remaining[x] = Target[x] - counted[x]
                                          /\ new.store.remaining[x] > 0
    BY <1>1, <1>2, <1>3, <1>4, <1>5 DEF DecodeSound, Decoding
  <2>. QED  BY <1>1, <1>3, <2>1, <2>2 DEF DecodeSound
<1>7. Decoding(new) = Decoding(dw) \cup {r}
  BY <1>3 DEF Decoding
<1>8. /\ decode' \in [DecodeWorkers -> DecodeState] /\ decode'[d] = new
      /\ \A e \in DecodeWorkers \ {d} : decode'[e] = decode[e]
  BY <1>1, <1>3 DEF new
<1>. QED  BY <1>3, <1>6, <1>7, <1>8

\* A worker whose requests have the same tokens as before is as sound as before.
LEMMA SameTokens ==
    ASSUME NEW dw, NEW tokens, NEW after, DecodeSound(dw, tokens, FALSE),
           \A r \in Decoding(dw) : after[r] = tokens[r]
    PROVE  DecodeSound(dw, after, FALSE)
  BY DEF DecodeSound, Decoding

-----------------------------------------------------------------------------
(* Every step preserves the invariant. *)

\* Nothing has arrived.
LEMMA InitInvariant == Init => IInv
<1> SUFFICES ASSUME Init PROVE IInv
  OBVIOUS
<1> DEFINE pw == [store |-> PrefillKv!EmptyStore, pending |-> {}, wake |-> "now"]
           dw == [store |-> DecodeKv!EmptyStore, pulls |-> << >>, inFlight |-> NoPull,
                  landed |-> << >>, backlog |-> 0, next |-> 0, wake |-> "now"]
<1>1. PF!HandsOver(PrefillKv!EmptyStore)
  BY PrefillParts, PrefillAssumptions, PF!EmptyHandsOver
<1>2. /\ PrefillKv!EmptyStore \in PrefillKv!Store /\ PrefillKv!EmptyStore.admits[0] = {}
      /\ \A r \in Requests : PrefillKv!EmptyStore.held[r] = 0
  BY <1>1, PrefillParts DEF PF!HandsOver, PrefillKv!EmptyStore
<1>3. DF!PullSound(DecodeKv!EmptyStore, FALSE)
  BY DecodeParts, DecodeAssumptions, DF!EmptyPulls
<1>4. DecodeKv!EmptyStore \in DecodeKv!Store /\ DF!ResidentOf(DecodeKv!EmptyStore) = {}
  BY <1>3, DecodeParts DEF DF!PullSound, DF!ResidentOf, DF!EmptyStore
<1>5. pw \in PrefillState /\ PrefillSound(pw) /\ Prefilling(pw) = {}
      /\ \A r \in Requests : pw.store.held[r] = 0
  BY <1>1, <1>2 DEF PrefillState, Wakes, PrefillSound, Prefilling
<1>6. dw \in DecodeState
  <2>1. 0 \in DecodeKv!Partitions
    BY PdAssumption DEF DecodeKv!Partitions
  <2>. QED  BY <1>4, <2>1 DEF DecodeState, Wakes
<1>7. /\ PullsOf(dw) = {} /\ InTransit(dw) = {} /\ LandedOf(dw) = {} /\ Handoffs(dw) = {}
  BY DEF PullsOf, InTransit, LandedOf, Handoffs
<1>8. Queued(dw) = {} /\ Decoding(dw) = {}
  BY <1>4, <1>7 DEF Queued, Decoding
<1>9. InOrder(dw)
  BY <1>7, <1>8 DEF InOrder
<1>10. \A tokens : DecodeSound(dw, tokens, FALSE)
  BY <1>3, <1>4, <1>7, <1>8, <1>9 DEF DecodeSound
<1>11. prefill = [w \in PrefillWorkers |-> pw] /\ decode = [d \in DecodeWorkers |-> dw]
  BY DEF Init
<1> HIDE DEF pw, dw
<1>12. Arrived = {} /\ done = {} /\ arrived \in Seq(Requests)
       /\ emitted \in [Requests -> Nat] /\ \A r \in Requests : emitted[r] = 0
  BY DEF Init, Arrived
<1>13. (\A w \in PrefillWorkers : prefill[w] = pw) /\ (\A d \in DecodeWorkers : decode[d] = dw)
  BY <1>11
<1>14. OnePlace
  BY <1>5, <1>8, <1>12, <1>13 DEF OnePlace, InService
<1>15. HeldExact
  BY <1>5, <1>7, <1>13 DEF HeldExact
<1>16. EmittedAgrees
  BY <1>5, <1>12, <1>13 DEF EmittedAgrees
<1>17. prefill \in [PrefillWorkers -> PrefillState] /\ decode \in [DecodeWorkers -> DecodeState]
  BY <1>5, <1>6, <1>11
<1>18. TypeOK
  BY <1>12, <1>17 DEF TypeOK, PrefillState, DecodeState
<1>. QED  BY <1>5, <1>10, <1>12, <1>13, <1>14, <1>15, <1>16, <1>18 DEF IInv

\* PdFlow::on_arrival: the request is pending at one prefill worker.
LEMMA ArrivalInvariant ==
    ASSUME IInv, NEW r \in Requests, NEW w \in PrefillWorkers, OnArrival(r, w)
    PROVE  IInv'
<1> DEFINE pw  == prefill[w]
           new == Enqueued(pw, r)
<1>1. /\ prefill \in [PrefillWorkers -> PrefillState]
      /\ decode \in [DecodeWorkers -> DecodeState] /\ emitted \in [Requests -> Nat]
      /\ Arrived \in SUBSET Requests /\ done \in SUBSET Arrived
      /\ arrived \in Seq(Requests)
  BY Workers DEF IInv, TypeOK
<1>2. decode' = decode /\ emitted' = emitted /\ done' = done /\ r \notin Arrived
      /\ arrived' = Append(arrived, r)
  BY DEF OnArrival
<1>3. arrived' \in Seq(Requests) /\ Arrived' = Arrived \cup {r}
  <2>1. { arrived'[i] : i \in 1 .. Len(arrived') } = { arrived[i] : i \in 1 .. Len(arrived) } \cup {r}
    BY <1>1, <1>2, AppendedSet
  <2>. QED  BY <1>1, <1>2, <2>1, SMTT(30) DEF Arrived
<1>4. InService' = InService \cup {r} /\ r \notin InService
  BY <1>1, <1>2, <1>3 DEF InService
<1>5. /\ new \in PrefillState /\ new.store = pw.store /\ new.pending = pw.pending \cup {r}
  BY <1>1 DEF PrefillState, Enqueued, Woken, Wakes
<1>6. prefill' = [prefill EXCEPT ![w] = new]
  BY DEF OnArrival
<1> HIDE DEF new
<1>7. /\ prefill' \in [PrefillWorkers -> PrefillState] /\ prefill'[w] = new
      /\ \A x \in PrefillWorkers \ {w} : prefill'[x] = prefill[x]
  BY <1>1, <1>5, <1>6
<1>8. \A x \in PrefillWorkers : PrefillSound(prefill[x]) /\ Prefilling(prefill[x]) \subseteq InService
  BY DEF IInv, OnePlace
<1>9. PrefillSound(new)
  BY <1>4, <1>5, <1>8 DEF PrefillSound, Prefilling
<1>10. Prefilling(new) = Prefilling(pw) \cup {r}
  BY <1>5 DEF Prefilling
<1>11. \A x \in PrefillWorkers :
          Prefilling(prefill'[x]) = IF x = w THEN Prefilling(prefill[x]) \cup {r}
                                             ELSE Prefilling(prefill[x])
  BY <1>7, <1>10
<1>12. \A x \in PrefillWorkers : prefill'[x].store = prefill[x].store
  BY <1>5, <1>7
<1>13. OnePlace'
  <2>1. \A d \in DecodeWorkers : decode'[d] = decode[d] /\ Decoding(decode[d]) \subseteq InService
    BY <1>2 DEF IInv, OnePlace
  <2>2. \A q \in InService' : \/ \E x \in PrefillWorkers : q \in Prefilling(prefill'[x])
                              \/ \E d \in DecodeWorkers : q \in Decoding(decode'[d])
    <3>1. r \in Prefilling(prefill'[w])
      BY <1>11
    <3>2. ASSUME NEW q \in InService
          PROVE  \/ \E x \in PrefillWorkers : q \in Prefilling(prefill'[x])
                 \/ \E d \in DecodeWorkers : q \in Decoding(decode'[d])
      BY <1>11, <2>1 DEF IInv, OnePlace
    <3>. QED  BY <1>4, <3>1, <3>2
  <2>3. (\A x \in PrefillWorkers : Prefilling(prefill'[x]) \subseteq InService')
        /\ (\A d \in DecodeWorkers : Decoding(decode'[d]) \subseteq InService')
    BY <1>4, <1>8, <1>11, <2>1
  <2>4. \A v, x \in PrefillWorkers :
           v # x => Prefilling(prefill'[v]) \cap Prefilling(prefill'[x]) = {}
    <3>. SUFFICES ASSUME NEW v \in PrefillWorkers, NEW x \in PrefillWorkers, v # x
                  PROVE  Prefilling(prefill'[v]) \cap Prefilling(prefill'[x]) = {}
      OBVIOUS
    <3>1. Prefilling(prefill[v]) \cap Prefilling(prefill[x]) = {}
      BY DEF IInv, OnePlace
    <3>2. r \notin Prefilling(prefill[v]) /\ r \notin Prefilling(prefill[x])
      BY <1>4, <1>8
    <3>. QED  BY <1>11, <3>1, <3>2
  <2>5. \A d, e \in DecodeWorkers :
           d # e => Decoding(decode'[d]) \cap Decoding(decode'[e]) = {}
    BY <2>1 DEF IInv, OnePlace
  <2>6. \A x \in PrefillWorkers, d \in DecodeWorkers :
           Prefilling(prefill'[x]) \cap Decoding(decode'[d]) = {}
    <3>. SUFFICES ASSUME NEW x \in PrefillWorkers, NEW d \in DecodeWorkers
                  PROVE  Prefilling(prefill'[x]) \cap Decoding(decode'[d]) = {}
      OBVIOUS
    <3>1. Prefilling(prefill[x]) \cap Decoding(decode[d]) = {}
      BY DEF IInv, OnePlace
    <3>2. r \notin Decoding(decode[d]) /\ decode'[d] = decode[d]
      BY <1>4, <2>1
    <3>. QED  BY <1>11, <3>1, <3>2
  <2>. QED  BY <2>2, <2>3, <2>4, <2>5, <2>6 DEF OnePlace
<1>14. HeldExact'
  BY <1>2, <1>12 DEF IInv, HeldExact
<1>15. EmittedAgrees'
  <2>1. emitted[r] = 0 /\ \A q \in Requests \ Arrived : emitted[q] = 0
    BY <1>2 DEF IInv, EmittedAgrees
  <2>2. \A x \in PrefillWorkers : \A q \in Prefilling(prefill'[x]) : emitted[q] = 0
    BY <1>11, <2>1 DEF IInv, EmittedAgrees
  <2>3. \A q \in done : emitted[q] = Target[q]
    BY DEF IInv, EmittedAgrees
  <2>. QED  BY <1>2, <1>3, <2>1, <2>2, <2>3 DEF EmittedAgrees
<1>16. \A x \in PrefillWorkers : PrefillSound(prefill'[x])
  BY <1>7, <1>8, <1>9
<1>17. \A d \in DecodeWorkers : DecodeSound(decode'[d], emitted', FALSE)
  BY <1>2 DEF IInv
<1>18. decode' \in [DecodeWorkers -> DecodeState] /\ emitted' \in [Requests -> Nat]
       /\ (done \subseteq Arrived)'
  BY <1>1, <1>2, <1>3
<1>19. TypeOK'
  BY <1>1, <1>3, <1>7, <1>18 DEF TypeOK, PrefillState, DecodeState
<1>. QED  BY <1>13, <1>14, <1>15, <1>16, <1>17, <1>18, <1>19 DEF IInv

\* A prefill tick: what was prefilled goes on to a decode worker, or is complete.
LEMMA PrefillInvariant ==
    ASSUME IInv, NEW w \in PrefillWorkers, PrefillTick(w)
    PROVE  IInv'
<1> DEFINE pw    == prefill[w]
           ran   == pw.store.admits[0]
           short == { r \in ran : Target[r] = 1 }
           long  == { r \in ran : Target[r] > 1 }
<1>1. /\ prefill \in [PrefillWorkers -> PrefillState]
      /\ decode \in [DecodeWorkers -> DecodeState] /\ emitted \in [Requests -> Nat]
      /\ Arrived \in SUBSET Requests /\ done \in SUBSET Arrived /\ arrived \in Seq(Requests)
  BY Workers DEF IInv, TypeOK
<1>2. /\ prefill' \in [PrefillWorkers -> PrefillState]
      /\ \A x \in PrefillWorkers \ {w} : prefill'[x] = prefill[x]
      /\ PrefillSound(prefill'[w])
      /\ Prefilling(prefill'[w]) = Prefilling(pw) \ ran
      /\ \A x \in Requests : prefill'[w].store.held[x] =
            IF x \in ran /\ Target[x] > 1 THEN ContextOf(x) ELSE pw.store.held[x]
      /\ emitted' = Counted(emitted, ran) /\ emitted' \in [Requests -> Nat]
      /\ done' = done \cup short
  BY PrefillTickWorker
<1>3. arrived' = arrived /\ Arrived' = Arrived
  BY DEF PrefillTick, Arrived
<1>4. ran \subseteq Prefilling(pw) /\ Prefilling(pw) \subseteq InService /\ ran \subseteq Requests
      /\ ran \cap done = {}
  BY <1>1 DEF IInv, OnePlace, Prefilling, InService
<1>5. \A r \in ran : ran = {r} /\ emitted[r] = 0 /\ Target[r] \in Nat /\ Target[r] > 0
                     /\ ContextOf(r) \in Nat /\ ContextOf(r) > 0
  BY <1>4, RequestType DEF IInv, PrefillSound, EmittedAgrees
<1>6. ran = short \cup long /\ short \cap long = {}
  BY <1>5
<1>7. \A r \in Requests : emitted'[r] = IF r \in ran THEN 1 ELSE emitted[r]
  BY <1>1, <1>2, <1>5 DEF Counted
<1>8. InService' = InService \ short
  BY <1>2, <1>3 DEF InService
<1>9. PICK d \in DecodeWorkers :
         /\ decode' \in [DecodeWorkers -> DecodeState]
         /\ \A e \in DecodeWorkers \ {d} : decode'[e] = decode[e]
         /\ DecodeSound(decode'[d], emitted', FALSE)
         /\ Handoffs(decode'[d]) = Handoffs(decode[d]) \cup { [req |-> r, from |-> w] : r \in long }
         /\ Decoding(decode'[d]) = Decoding(decode[d]) \cup long
  <2>1. CASE \E r \in ran, d \in DecodeWorkers :
                Target[r] > 1 /\ decode' = [decode EXCEPT ![d] = HandedOff(@, r, w)]
    <3>1. PICK r \in ran, d \in DecodeWorkers :
             Target[r] > 1 /\ decode' = [decode EXCEPT ![d] = HandedOff(@, r, w)]
      BY <2>1
    <3>2. ran = {r} /\ long = {r} /\ r \in pw.store.admits[0]
          /\ { [req |-> q, from |-> w] : q \in long } = { [req |-> r, from |-> w] }
      BY <1>5, <3>1
    <3>3. emitted' = Counted(emitted, {r})
      BY <1>2, <3>2
    <3> HIDE DEF ran, long
    <3>4. /\ decode' \in [DecodeWorkers -> DecodeState]
          /\ \A e \in DecodeWorkers \ {d} : decode'[e] = decode[e]
          /\ DecodeSound(decode'[d], emitted', FALSE)
          /\ Handoffs(decode'[d]) = Handoffs(decode[d]) \cup {[req |-> r, from |-> w]}
          /\ Decoding(decode'[d]) = Decoding(decode[d]) \cup {r}
      BY <3>1, <3>2, <3>3, HandedOffWorker
    <3>. QED  BY <3>2, <3>4
  <2>2. CASE (\A r \in ran : Target[r] = 1) /\ decode' = decode
    <3>1. long = {} /\ { [req |-> q, from |-> w] : q \in long } = {}
      BY <2>2
    <3>2. PICK d \in DecodeWorkers : TRUE
      BY PdAssumption
    <3>3. DecodeSound(decode[d], emitted, FALSE)
      BY DEF IInv
    <3>4. \A r \in Decoding(decode[d]) : emitted'[r] = emitted[r]
      <4>1. Decoding(decode[d]) \cap Prefilling(pw) = {} /\ Decoding(decode[d]) \subseteq Requests
        BY <1>1 DEF IInv, OnePlace, InService
      <4>. QED  BY <1>4, <1>7, <4>1
    <3>5. DecodeSound(decode[d], emitted', FALSE)
      BY <3>3, <3>4, SameTokens
    <3>. QED  BY <1>1, <2>2, <3>1, <3>5
  <2>. QED  BY <2>1, <2>2 DEF PrefillTick
<1> HIDE DEF short, long, ran
<1>10. \A x \in PrefillWorkers :
          Prefilling(prefill'[x]) = IF x = w THEN Prefilling(prefill[x]) \ ran
                                             ELSE Prefilling(prefill[x])
  BY <1>2
<1>11. \A e \in DecodeWorkers :
          /\ Decoding(decode'[e]) = IF e = d THEN Decoding(decode[e]) \cup long
                                             ELSE Decoding(decode[e])
          /\ Handoffs(decode'[e]) =
                IF e = d THEN Handoffs(decode[e]) \cup { [req |-> r, from |-> w] : r \in long }
                         ELSE Handoffs(decode[e])
  BY <1>9
<1>12. \A x \in PrefillWorkers : ran \cap Prefilling(prefill'[x]) = {}
  <2>. SUFFICES ASSUME NEW x \in PrefillWorkers, x # w PROVE ran \cap Prefilling(prefill[x]) = {}
    BY <1>10
  <2>. QED  BY <1>4 DEF IInv, OnePlace
<1>13. \A e \in DecodeWorkers : ran \cap Decoding(decode[e]) = {}
                                /\ Decoding(decode[e]) \subseteq Requests
  BY <1>1, <1>4 DEF IInv, OnePlace, InService
<1>14. OnePlace'
  <2>1. \A q \in InService' : \/ \E x \in PrefillWorkers : q \in Prefilling(prefill'[x])
                              \/ \E e \in DecodeWorkers : q \in Decoding(decode'[e])
    <3>. SUFFICES ASSUME NEW q \in InService'
                  PROVE  \/ \E x \in PrefillWorkers : q \in Prefilling(prefill'[x])
                         \/ \E e \in DecodeWorkers : q \in Decoding(decode'[e])
      OBVIOUS
    <3>1. q \in InService /\ q \notin short
      BY <1>8
    <3>2. CASE q \in long
      BY <1>9, <3>2
    <3>3. CASE q \notin long
      <4>1. q \notin ran
        BY <1>6, <3>1, <3>3
      <4>2. CASE \E x \in PrefillWorkers : q \in Prefilling(prefill[x])
        BY <1>10, <4>1, <4>2
      <4>3. CASE \E e \in DecodeWorkers : q \in Decoding(decode[e])
        BY <1>11, <4>3
      <4>. QED  BY <3>1, <4>2, <4>3 DEF IInv, OnePlace
    <3>. QED  BY <3>2, <3>3
  <2>2. \A x \in PrefillWorkers : Prefilling(prefill'[x]) \subseteq InService'
    <3>. SUFFICES ASSUME NEW x \in PrefillWorkers PROVE Prefilling(prefill'[x]) \subseteq InService'
      OBVIOUS
    <3>1. Prefilling(prefill[x]) \subseteq InService
      BY DEF IInv, OnePlace
    <3>2. Prefilling(prefill'[x]) \subseteq Prefilling(prefill[x])
      BY <1>10
    <3>. QED  BY <1>6, <1>8, <1>12, <3>1, <3>2
  <2>3. \A e \in DecodeWorkers : Decoding(decode'[e]) \subseteq InService'
    <3>. SUFFICES ASSUME NEW e \in DecodeWorkers PROVE Decoding(decode'[e]) \subseteq InService'
      OBVIOUS
    <3>1. Decoding(decode[e]) \subseteq InService
      BY DEF IInv, OnePlace
    <3>2. Decoding(decode'[e]) \subseteq Decoding(decode[e]) \cup long
      BY <1>11
    <3>. QED  BY <1>4, <1>6, <1>8, <1>13, <3>1, <3>2
  <2>4. \A v, x \in PrefillWorkers :
           v # x => Prefilling(prefill'[v]) \cap Prefilling(prefill'[x]) = {}
    <3>. SUFFICES ASSUME NEW v \in PrefillWorkers, NEW x \in PrefillWorkers, v # x
                  PROVE  Prefilling(prefill'[v]) \cap Prefilling(prefill'[x]) = {}
      OBVIOUS
    <3>1. Prefilling(prefill[v]) \cap Prefilling(prefill[x]) = {}
      BY DEF IInv, OnePlace
    <3>2. Prefilling(prefill'[v]) \subseteq Prefilling(prefill[v])
          /\ Prefilling(prefill'[x]) \subseteq Prefilling(prefill[x])
      BY <1>10
    <3>. QED  BY <3>1, <3>2
  <2>5. \A e, g \in DecodeWorkers :
           e # g => Decoding(decode'[e]) \cap Decoding(decode'[g]) = {}
    <3>. SUFFICES ASSUME NEW e \in DecodeWorkers, NEW g \in DecodeWorkers, e # g
                  PROVE  Decoding(decode'[e]) \cap Decoding(decode'[g]) = {}
      OBVIOUS
    <3>1. Decoding(decode[e]) \cap Decoding(decode[g]) = {}
      BY DEF IInv, OnePlace
    <3>2. long \cap Decoding(decode[e]) = {} /\ long \cap Decoding(decode[g]) = {}
      BY <1>6, <1>13
    <3>. QED  BY <1>11, <3>1, <3>2
  <2>6. \A x \in PrefillWorkers, e \in DecodeWorkers :
           Prefilling(prefill'[x]) \cap Decoding(decode'[e]) = {}
    <3>. SUFFICES ASSUME NEW x \in PrefillWorkers, NEW e \in DecodeWorkers
                  PROVE  Prefilling(prefill'[x]) \cap Decoding(decode'[e]) = {}
      OBVIOUS
    <3>1. Prefilling(prefill[x]) \cap Decoding(decode[e]) = {}
      BY DEF IInv, OnePlace
    <3>2. Prefilling(prefill'[x]) \subseteq Prefilling(prefill[x])
          /\ Decoding(decode'[e]) \subseteq Decoding(decode[e]) \cup long
      BY <1>10, <1>11
    <3>3. long \cap Prefilling(prefill'[x]) = {}
      BY <1>6, <1>12
    <3>. QED  BY <3>1, <3>2, <3>3
  <2>. QED  BY <2>1, <2>2, <2>3, <2>4, <2>5, <2>6 DEF OnePlace
<1>15. HeldExact'
  <2>. SUFFICES ASSUME NEW x \in PrefillWorkers, NEW r \in Requests
                PROVE  prefill'[x].store.held[r] > 0 <=>
                          \E e \in DecodeWorkers : [req |-> r, from |-> x] \in Handoffs(decode'[e])
    BY DEF HeldExact
  <2>1. prefill[x].store.held[r] > 0 <=>
           \E e \in DecodeWorkers : [req |-> r, from |-> x] \in Handoffs(decode[e])
    BY DEF IInv, HeldExact
  <2>2. (\E e \in DecodeWorkers : [req |-> r, from |-> x] \in Handoffs(decode'[e]))
           <=> \/ \E e \in DecodeWorkers : [req |-> r, from |-> x] \in Handoffs(decode[e])
               \/ r \in long /\ x = w
    <3>1. ([req |-> r, from |-> x] \in { [req |-> q, from |-> w] : q \in long })
             <=> r \in long /\ x = w
      <4>1. \A q : ([req |-> r, from |-> x] = [req |-> q, from |-> w]) => r = q /\ x = w
        OBVIOUS
      <4>. QED  BY <4>1
    <3>. QED  BY <1>11, <3>1
  <2>3. CASE r \in long /\ x = w
    <3>1. prefill'[w].store.held[r] = ContextOf(r) /\ r \in ran
      BY <1>2, <2>3 DEF long
    <3>2. prefill'[x].store.held[r] > 0
      BY <1>5, <2>3, <3>1
    <3>. QED  BY <2>2, <2>3, <3>2
  <2>4. CASE ~(r \in long /\ x = w)
    <3>1. prefill'[x].store.held[r] = prefill[x].store.held[r]
      <4>1. CASE x = w
        BY <1>2, <2>4, <4>1 DEF long
      <4>2. CASE x # w
        BY <1>2, <4>2
      <4>. QED  BY <4>1, <4>2
    <3>. QED  BY <2>1, <2>2, <2>4, <3>1
  <2>. QED  BY <2>3, <2>4
<1>16. EmittedAgrees'
  <2>1. \A r \in Requests \ Arrived : emitted'[r] = 0
    BY <1>4, <1>7 DEF IInv, EmittedAgrees, InService
  <2>2. \A x \in PrefillWorkers : \A r \in Prefilling(prefill'[x]) : emitted'[r] = 0
    <3>. SUFFICES ASSUME NEW x \in PrefillWorkers, NEW r \in Prefilling(prefill'[x])
                  PROVE  emitted'[r] = 0
      OBVIOUS
    <3>1. r \in Prefilling(prefill[x]) /\ r \notin ran
      BY <1>10, <1>12
    <3>2. r \in Requests /\ emitted[r] = 0
      BY <1>1, <3>1 DEF IInv, OnePlace, InService, EmittedAgrees
    <3>. QED  BY <1>7, <3>1, <3>2
  <2>3. \A r \in done' : emitted'[r] = Target[r]
    <3>. SUFFICES ASSUME NEW r \in done' PROVE emitted'[r] = Target[r]
      OBVIOUS
    <3>1. CASE r \in short
      <4>1. r \in ran /\ Target[r] = 1
        BY <3>1 DEF short
      <4>. QED  BY <1>4, <1>7, <4>1
    <3>2. CASE r \in done
      <4>1. emitted[r] = Target[r] /\ r \in Requests /\ r \notin ran
        BY <1>1, <1>4, <3>2 DEF IInv, EmittedAgrees
      <4>. QED  BY <1>7, <4>1
    <3>. QED  BY <1>2, <3>1, <3>2
  <2>. QED  BY <1>3, <2>1, <2>2, <2>3 DEF EmittedAgrees
<1>17. \A x \in PrefillWorkers : PrefillSound(prefill'[x])
  BY <1>2 DEF IInv
<1>18. \A e \in DecodeWorkers : DecodeSound(decode'[e], emitted', FALSE)
  <2>. SUFFICES ASSUME NEW e \in DecodeWorkers, e # d PROVE DecodeSound(decode'[e], emitted', FALSE)
    BY <1>9
  <2>1. decode'[e] = decode[e] /\ DecodeSound(decode[e], emitted, FALSE)
    BY <1>9 DEF IInv
  <2>2. \A r \in Decoding(decode[e]) : emitted'[r] = emitted[r]
    BY <1>7, <1>13
  <2>. QED  BY <2>1, <2>2, SameTokens
<1>19. (done \subseteq Arrived)'
  BY <1>1, <1>2, <1>3, <1>4, <1>6 DEF InService
<1>20. TypeOK'
  BY <1>1, <1>2, <1>3, <1>9, <1>19 DEF TypeOK, PrefillState, DecodeState
<1>. QED  BY <1>14, <1>15, <1>16, <1>17, <1>18, <1>19, <1>20 DEF IInv

\* What a decode iteration does to the tokens of the requests that went through it.
LEMMA RanTokens ==
    ASSUME IInv, NEW d \in DecodeWorkers, NEW computed \in BOOLEAN,
           NEW ran, ran = Ran(decode[d], computed),
           NEW after, after = Counted(emitted, ran)
    PROVE  /\ ran \subseteq DF!ResidentOf(decode[d].store) /\ ran \subseteq Decoding(decode[d])
           /\ ran \subseteq InService /\ ran \subseteq Requests
           /\ \A r \in Requests : after[r] = IF r \in ran THEN emitted[r] + 1 ELSE emitted[r]
           /\ \A r \in ran : emitted[r] \in Nat /\ emitted[r] < Target[r]
           /\ Finished(ran, after) \subseteq ran
           /\ \A r \in Finished(ran, after) : after[r] = Target[r]
<1>1. ran \subseteq DF!ResidentOf(decode[d].store) /\ ran \subseteq Decoding(decode[d])
  BY DEF Ran, Decoding
<1>2. ran \subseteq InService /\ ran \subseteq Requests
  BY <1>1, Workers DEF IInv, OnePlace, InService
<1>3. emitted \in [Requests -> Nat]
  BY Workers
<1>4. \A r \in Requests : after[r] = IF r \in ran THEN emitted[r] + 1 ELSE emitted[r]
  BY <1>3 DEF Counted
<1>5. \A r \in ran : emitted[r] \in Nat /\ emitted[r] < Target[r] /\ Target[r] \in Nat
  <2>. SUFFICES ASSUME NEW r \in ran
                PROVE  emitted[r] \in Nat /\ emitted[r] < Target[r] /\ Target[r] \in Nat
    OBVIOUS
  <2>1. r \in Requests /\ emitted[r] \in Nat /\ Target[r] \in Nat
    BY <1>2, <1>3, RequestType
  <2>2. decode[d].store.remaining[r] = Target[r] - emitted[r] /\ decode[d].store.remaining[r] > 0
    BY <1>1 DEF IInv, DecodeSound
  <2>. QED  BY <2>1, <2>2
<1>6. /\ Finished(ran, after) \subseteq ran
      /\ \A r \in Finished(ran, after) : after[r] >= Target[r]
  BY DEF Finished, IsComplete
<1>7. \A r \in Finished(ran, after) : after[r] = Target[r]
  <2>. SUFFICES ASSUME NEW r \in Finished(ran, after) PROVE after[r] = Target[r]
    OBVIOUS
  <2>1. r \in ran /\ r \in Requests /\ after[r] >= Target[r]
    BY <1>2, <1>6
  <2>2. after[r] = emitted[r] + 1
    BY <1>4, <2>1
  <2>. QED  BY <1>5, <2>1, <2>2
<1>. QED  BY <1>1, <1>2, <1>4, <1>5, <1>6, <1>7

\* A decode tick: a pull that has landed is acknowledged, and the decodes that have
\* all their tokens are complete.
LEMMA DecodeInvariant ==
    ASSUME IInv, NEW d \in DecodeWorkers, NEW pulled \in BOOLEAN, NEW computed \in BOOLEAN,
           DecodeTick(d, pulled, computed)
    PROVE  IInv'
<1> DEFINE dw       == decode[d]
           ran      == Ran(dw, computed)
           finished == Finished(ran, emitted')
           landed   == IF pulled THEN {dw.inFlight} ELSE {}
<1>1. /\ prefill \in [PrefillWorkers -> PrefillState]
      /\ decode \in [DecodeWorkers -> DecodeState] /\ emitted \in [Requests -> Nat]
      /\ Arrived \in SUBSET Requests /\ done \in SUBSET Arrived /\ arrived \in Seq(Requests)
  BY Workers DEF IInv, TypeOK
<1>2. /\ pulled => dw.inFlight # NoPull
      /\ emitted' = Counted(emitted, ran) /\ emitted' \in [Requests -> Nat]
      /\ done' = done \cup finished
      /\ decode' \in [DecodeWorkers -> DecodeState]
      /\ \A e \in DecodeWorkers \ {d} : decode'[e] = decode[e]
      /\ DecodeSound(decode'[d], emitted', FALSE)
      /\ Handoffs(decode'[d]) = Handoffs(dw) \ landed
      /\ Decoding(decode'[d]) = Decoding(dw) \ finished
  BY DecodeTickWorker
<1>3. /\ prefill' \in [PrefillWorkers -> PrefillState]
      /\ \A w \in PrefillWorkers :
            /\ PrefillSound(prefill'[w])
            /\ Prefilling(prefill'[w]) = Prefilling(prefill[w])
            /\ \A x \in Requests : prefill'[w].store.held[x] =
                  IF pulled /\ dw.inFlight = [req |-> x, from |-> w]
                  THEN 0 ELSE prefill[w].store.held[x]
  BY DecodeTickPrefill
<1>4. /\ ran \subseteq Decoding(dw) /\ ran \subseteq InService /\ ran \subseteq Requests
      /\ \A r \in Requests : emitted'[r] = IF r \in ran THEN emitted[r] + 1 ELSE emitted[r]
      /\ finished \subseteq ran /\ \A r \in finished : emitted'[r] = Target[r]
  <2> DEFINE through == ran
  <2>1. through = Ran(decode[d], computed) /\ emitted' = Counted(emitted, through)
    BY <1>2
  <2>2. finished = Finished(through, emitted')
    OBVIOUS
  <2> HIDE DEF through
  <2>3. /\ through \subseteq Decoding(dw) /\ through \subseteq InService
        /\ through \subseteq Requests
        /\ \A r \in Requests : emitted'[r] = IF r \in through THEN emitted[r] + 1 ELSE emitted[r]
    BY <2>1, RanTokens
  <2>4. /\ Finished(through, emitted') \subseteq through
        /\ \A r \in Finished(through, emitted') : emitted'[r] = Target[r]
    BY <2>1, RanTokens
  <2>. QED  BY <2>2, <2>3, <2>4 DEF through
<1>5. arrived' = arrived /\ Arrived' = Arrived
  BY DEF DecodeTick, Arrived
<1>6. InService' = InService \ finished
  BY <1>2, <1>5 DEF InService
<1> HIDE DEF ran, finished, landed
<1>7. \A e \in DecodeWorkers :
         /\ Decoding(decode'[e]) = IF e = d THEN Decoding(decode[e]) \ finished
                                            ELSE Decoding(decode[e])
         /\ Handoffs(decode'[e]) = IF e = d THEN Handoffs(decode[e]) \ landed
                                            ELSE Handoffs(decode[e])
  BY <1>2
<1>8. \A e \in DecodeWorkers \ {d} : ran \cap Decoding(decode[e]) = {}
  BY <1>4 DEF IInv, OnePlace
<1>9. \A w \in PrefillWorkers : ran \cap Prefilling(prefill[w]) = {}
  BY <1>4 DEF IInv, OnePlace
<1>10. OnePlace'
  <2>1. \A q \in InService' : \/ \E w \in PrefillWorkers : q \in Prefilling(prefill'[w])
                              \/ \E e \in DecodeWorkers : q \in Decoding(decode'[e])
    <3>. SUFFICES ASSUME NEW q \in InService'
                  PROVE  \/ \E w \in PrefillWorkers : q \in Prefilling(prefill'[w])
                         \/ \E e \in DecodeWorkers : q \in Decoding(decode'[e])
      OBVIOUS
    <3>1. q \in InService /\ q \notin finished
      BY <1>6
    <3>2. CASE \E w \in PrefillWorkers : q \in Prefilling(prefill[w])
      BY <1>3, <3>2
    <3>3. CASE \E e \in DecodeWorkers : q \in Decoding(decode[e])
      BY <1>7, <3>1, <3>3
    <3>. QED  BY <3>1, <3>2, <3>3 DEF IInv, OnePlace
  <2>2. \A w \in PrefillWorkers : Prefilling(prefill'[w]) \subseteq InService'
    <3>. SUFFICES ASSUME NEW w \in PrefillWorkers PROVE Prefilling(prefill'[w]) \subseteq InService'
      OBVIOUS
    <3>1. Prefilling(prefill[w]) \subseteq InService
      BY DEF IInv, OnePlace
    <3>. QED  BY <1>3, <1>4, <1>6, <1>9, <3>1
  <2>3. \A e \in DecodeWorkers : Decoding(decode'[e]) \subseteq InService'
    <3>. SUFFICES ASSUME NEW e \in DecodeWorkers PROVE Decoding(decode'[e]) \subseteq InService'
      OBVIOUS
    <3>1. Decoding(decode[e]) \subseteq InService
      BY DEF IInv, OnePlace
    <3>2. CASE e = d
      BY <1>6, <1>7, <3>1, <3>2
    <3>3. CASE e # d
      BY <1>4, <1>6, <1>7, <1>8, <3>1, <3>3
    <3>. QED  BY <3>2, <3>3
  <2>4. \A w, x \in PrefillWorkers :
           w # x => Prefilling(prefill'[w]) \cap Prefilling(prefill'[x]) = {}
    BY <1>3 DEF IInv, OnePlace
  <2>5. \A e, g \in DecodeWorkers :
           e # g => Decoding(decode'[e]) \cap Decoding(decode'[g]) = {}
    <3>. SUFFICES ASSUME NEW e \in DecodeWorkers, NEW g \in DecodeWorkers, e # g
                  PROVE  Decoding(decode'[e]) \cap Decoding(decode'[g]) = {}
      OBVIOUS
    <3>1. Decoding(decode[e]) \cap Decoding(decode[g]) = {}
      BY DEF IInv, OnePlace
    <3>2. Decoding(decode'[e]) \subseteq Decoding(decode[e])
          /\ Decoding(decode'[g]) \subseteq Decoding(decode[g])
      BY <1>7
    <3>. QED  BY <3>1, <3>2
  <2>6. \A w \in PrefillWorkers, e \in DecodeWorkers :
           Prefilling(prefill'[w]) \cap Decoding(decode'[e]) = {}
    <3>. SUFFICES ASSUME NEW w \in PrefillWorkers, NEW e \in DecodeWorkers
                  PROVE  Prefilling(prefill'[w]) \cap Decoding(decode'[e]) = {}
      OBVIOUS
    <3>1. Prefilling(prefill[w]) \cap Decoding(decode[e]) = {}
      BY DEF IInv, OnePlace
    <3>2. Decoding(decode'[e]) \subseteq Decoding(decode[e])
      BY <1>7
    <3>. QED  BY <1>3, <3>1, <3>2
  <2>. QED  BY <2>1, <2>2, <2>3, <2>4, <2>5, <2>6 DEF OnePlace
<1>11. HeldExact'
  <2>. SUFFICES ASSUME NEW w \in PrefillWorkers, NEW r \in Requests
                PROVE  prefill'[w].store.held[r] > 0 <=>
                          \E e \in DecodeWorkers : [req |-> r, from |-> w] \in Handoffs(decode'[e])
    BY DEF HeldExact
  <2> DEFINE h == [req |-> r, from |-> w]
  <2>1. prefill[w].store.held[r] > 0 <=> \E e \in DecodeWorkers : h \in Handoffs(decode[e])
    BY DEF IInv, HeldExact
  <2>2. h.req = r /\ (h \in landed <=> pulled /\ dw.inFlight = h)
    BY DEF landed
  <2>3. prefill'[w].store.held[r] = IF h \in landed THEN 0 ELSE prefill[w].store.held[r]
    BY <1>3, <2>2
  <2> HIDE DEF h
  <2>4. CASE h \in landed
    <3>1. \A e \in DecodeWorkers : h \notin Handoffs(decode'[e])
      <4>. SUFFICES ASSUME NEW e \in DecodeWorkers, e # d PROVE h \notin Handoffs(decode[e])
        BY <1>7, <2>4
      <4>1. h \in Handoffs(dw)
        BY <1>2, <2>2, <2>4 DEF Handoffs
      <4>2. dw \in DecodeState /\ decode[e] \in DecodeState
        BY <1>1
      <4>3. r \in Decoding(dw)
        BY <2>2, <4>1, <4>2, QueuedRequests DEF Decoding
      <4>4. h \in Handoffs(decode[e]) => r \in Decoding(decode[e])
        BY <2>2, <4>2, QueuedRequests DEF Decoding
      <4>5. Decoding(dw) \cap Decoding(decode[e]) = {}
        BY DEF IInv, OnePlace
      <4>. QED  BY <4>3, <4>4, <4>5
    <3>. QED  BY <2>3, <2>4, <3>1 DEF h
  <2>5. CASE h \notin landed
    <3>1. \A e \in DecodeWorkers : h \in Handoffs(decode'[e]) <=> h \in Handoffs(decode[e])
      BY <1>7, <2>5
    <3>. QED  BY <2>1, <2>3, <2>5, <3>1 DEF h
  <2>. QED  BY <2>4, <2>5
<1>12. EmittedAgrees'
  <2>1. \A r \in Requests \ Arrived : emitted'[r] = 0
    BY <1>4 DEF IInv, EmittedAgrees, InService
  <2>2. \A w \in PrefillWorkers : \A r \in Prefilling(prefill'[w]) : emitted'[r] = 0
    <3>. SUFFICES ASSUME NEW w \in PrefillWorkers, NEW r \in Prefilling(prefill[w])
                  PROVE  emitted'[r] = 0
      BY <1>3
    <3>1. r \in Requests /\ emitted[r] = 0 /\ r \notin ran
      BY <1>1, <1>9 DEF IInv, OnePlace, InService, EmittedAgrees
    <3>. QED  BY <1>4, <3>1
  <2>3. \A r \in done' : emitted'[r] = Target[r]
    <3>. SUFFICES ASSUME NEW r \in done PROVE emitted'[r] = Target[r]
      BY <1>2, <1>4
    <3>1. emitted[r] = Target[r] /\ r \in Requests /\ r \notin ran
      BY <1>1, <1>4 DEF IInv, EmittedAgrees, InService
    <3>. QED  BY <1>4, <3>1
  <2>. QED  BY <1>5, <2>1, <2>2, <2>3 DEF EmittedAgrees
<1>13. \A w \in PrefillWorkers : PrefillSound(prefill'[w])
  BY <1>3
<1>14. \A e \in DecodeWorkers : DecodeSound(decode'[e], emitted', FALSE)
  <2>. SUFFICES ASSUME NEW e \in DecodeWorkers, e # d PROVE DecodeSound(decode'[e], emitted', FALSE)
    BY <1>2
  <2>1. decode'[e] = decode[e] /\ DecodeSound(decode[e], emitted, FALSE)
    BY <1>2 DEF IInv
  <2>2. Decoding(decode[e]) \subseteq Requests
    BY <1>1 DEF IInv, OnePlace, InService
  <2>3. \A r \in Decoding(decode[e]) : emitted'[r] = emitted[r]
    BY <1>4, <1>8, <2>2
  <2>. QED  BY <2>1, <2>3, SameTokens
<1>15. (done \subseteq Arrived)'
  BY <1>1, <1>2, <1>4, <1>5 DEF InService
<1>16. TypeOK'
  BY <1>1, <1>2, <1>3, <1>5, <1>15 DEF TypeOK, PrefillState, DecodeState
<1>. QED  BY <1>10, <1>11, <1>12, <1>13, <1>14, <1>15, <1>16 DEF IInv

\* The invariant holds in every state of a run.
LEMMA Invariance == Spec => []IInv
<1>1. IInv /\ [Next]_vars => IInv'
  <2>. SUFFICES ASSUME IInv, [Next]_vars PROVE IInv'
    OBVIOUS
  <2>1. CASE UNCHANGED vars
    <3>1. /\ arrived' = arrived /\ prefill' = prefill /\ decode' = decode
          /\ emitted' = emitted /\ done' = done
      BY <2>1 DEF vars
    <3>2. TypeOK'
      BY <3>1 DEF IInv, TypeOK
    <3>3. Arrived' = Arrived /\ InService' = InService
      BY <3>1 DEF Arrived, InService
    <3>4. OnePlace'
      BY <3>1, <3>3 DEF IInv, OnePlace
    <3>5. HeldExact'
      BY <3>1 DEF IInv, HeldExact
    <3>6. EmittedAgrees'
      BY <3>1, <3>3 DEF IInv, EmittedAgrees
    <3>. QED  BY <3>1, <3>2, <3>3, <3>4, <3>5, <3>6 DEF IInv
  <2>2. ASSUME NEW r \in Requests, NEW w \in PrefillWorkers, OnArrival(r, w) PROVE IInv'
    BY <2>2, ArrivalInvariant
  <2>3. ASSUME NEW w \in PrefillWorkers, PrefillTick(w) PROVE IInv'
    BY <2>3, PrefillInvariant
  <2>4. ASSUME NEW d \in DecodeWorkers, NEW pulled \in BOOLEAN, NEW computed \in BOOLEAN,
               DecodeTick(d, pulled, computed)
        PROVE  IInv'
    BY <2>4, DecodeInvariant
  <2>5. CASE Terminated
    BY <2>1, <2>5 DEF Terminated, vars
  <2>. QED  BY <2>1, <2>2, <2>3, <2>4, <2>5 DEF Next
<1>. QED  BY <1>1, InitInvariant, PTL DEF Spec

-----------------------------------------------------------------------------
(* What follows. *)

\* The state always has its type.
THEOREM TypeCorrect == Spec => []TypeOK
<1>1. IInv => TypeOK
  BY DEF IInv
<1>. QED  BY <1>1, Invariance, PTL

\* KV crosses the pools without being lost, leaked or duplicated (hold,
\* complete_handoff, advance_pulls): what a prefill worker holds is what a decode
\* worker still has to acknowledge, and a request in service is at one worker.
THEOREM HeldUntilPulledHolds == Spec => []HeldUntilPulled
<1>1. IInv => HeldUntilPulled
  <2>. SUFFICES ASSUME IInv PROVE HeldUntilPulled
    OBVIOUS
  <2>1. ASSUME NEW w \in PrefillWorkers, NEW r \in Requests
        PROVE  prefill[w].store.held[r] > 0 <=>
                  \E d \in DecodeWorkers :
                     \/ \E i \in 1 .. Len(decode[d].pulls) :
                           decode[d].pulls[i] = [req |-> r, from |-> w]
                     \/ decode[d].inFlight = [req |-> r, from |-> w]
    <3> DEFINE h == [req |-> r, from |-> w]
    <3>1. h # NoPull
      BY PdAssumption
    <3>2. prefill[w].store.held[r] > 0 <=> \E d \in DecodeWorkers : h \in Handoffs(decode[d])
      BY DEF IInv, HeldExact
    <3> HIDE DEF h
    <3>3. \A d \in DecodeWorkers : h \in Handoffs(decode[d]) <=>
             \/ \E i \in 1 .. Len(decode[d].pulls) : decode[d].pulls[i] = h
             \/ decode[d].inFlight = h
      BY <3>1 DEF Handoffs
    <3>. QED  BY <3>2, <3>3 DEF h
  <2>2. ASSUME NEW r \in Requests
        PROVE  LET prefilling == { w \in PrefillWorkers : r \in prefill[w].pending
                                       \cup prefill[w].store.admits[0] }
                   decoding   == { d \in DecodeWorkers : r \in PullsOf(decode[d])
                                       \cup InTransit(decode[d]) \cup LandedOf(decode[d])
                                       \cup DecodeKv!ResidentOf(decode[d].store) }
               IN  Cardinality(prefilling) + Cardinality(decoding)
                      = IF r \in Arrived /\ r \notin done THEN 1 ELSE 0
    <3> DEFINE prefilling == { w \in PrefillWorkers : r \in prefill[w].pending
                                  \cup prefill[w].store.admits[0] }
               decoding   == { d \in DecodeWorkers : r \in PullsOf(decode[d])
                                  \cup InTransit(decode[d]) \cup LandedOf(decode[d])
                                  \cup DecodeKv!ResidentOf(decode[d].store) }
    <3>1. prefilling = { w \in PrefillWorkers : r \in Prefilling(prefill[w]) }
      BY DEF Prefilling
    <3>2. decoding = { d \in DecodeWorkers : r \in Decoding(decode[d]) }
      BY DecodeParts DEF Decoding, Queued
    <3>3. r \in InService <=> r \in Arrived /\ r \notin done
      BY DEF InService
    <3>. SUFFICES Cardinality(prefilling) + Cardinality(decoding)
                     = IF r \in Arrived /\ r \notin done THEN 1 ELSE 0
      OBVIOUS
    <3> HIDE DEF prefilling, decoding
    <3>4. CASE r \notin InService
      <4>1. prefilling = {} /\ decoding = {}
        BY <3>1, <3>2, <3>4 DEF IInv, OnePlace
      <4>2. Cardinality(prefilling) = 0 /\ Cardinality(decoding) = 0
        BY <4>1, FS_EmptySet
      <4>. QED  BY <3>3, <3>4, <4>2
    <3>5. CASE \E w \in PrefillWorkers : r \in Prefilling(prefill[w])
      <4>1. PICK w \in PrefillWorkers : r \in Prefilling(prefill[w])
        BY <3>5
      <4>2. prefilling = {w} /\ decoding = {} /\ r \in InService
        BY <3>1, <3>2, <4>1 DEF IInv, OnePlace
      <4>3. Cardinality(prefilling) = 1 /\ Cardinality(decoding) = 0
        BY <4>2, FS_EmptySet, FS_Singleton
      <4>. QED  BY <3>3, <4>2, <4>3
    <3>6. CASE \E d \in DecodeWorkers : r \in Decoding(decode[d])
      <4>1. PICK d \in DecodeWorkers : r \in Decoding(decode[d])
        BY <3>6
      <4>2. prefilling = {} /\ decoding = {d} /\ r \in InService
        BY <3>1, <3>2, <4>1 DEF IInv, OnePlace
      <4>3. Cardinality(prefilling) = 0 /\ Cardinality(decoding) = 1
        BY <4>2, FS_EmptySet, FS_Singleton
      <4>. QED  BY <3>3, <4>2, <4>3
    <3>7. \/ r \notin InService
          \/ \E w \in PrefillWorkers : r \in Prefilling(prefill[w])
          \/ \E d \in DecodeWorkers : r \in Decoding(decode[d])
      BY DEF IInv, OnePlace
    <3>. QED  BY <3>4, <3>5, <3>6, <3>7
  <2>. QED  BY <2>1, <2>2 DEF HeldUntilPulled
<1>. QED  BY <1>1, Invariance, PTL

\* Every decode partition has room for what its decodes will still grow.
Room == \A d \in DecodeWorkers : DF!PullSound(decode[d].store, TRUE)

\* As long as no partition has had many decodes, no step takes it away.
LEMMA RoomStep ==
    ASSUME IInv, Room, FewDecodes, [Next]_vars
    PROVE  Room'
<1>1. decode \in [DecodeWorkers -> DecodeState]
  BY Workers
<1>2. CASE decode' = decode
  BY <1>2 DEF Room
<1>3. ASSUME NEW w \in PrefillWorkers, PrefillTick(w) PROVE Room'
  <2>1. CASE \E r \in Requests, d \in DecodeWorkers :
                decode' = [decode EXCEPT ![d] = HandedOff(@, r, w)]
    <3>1. PICK r \in Requests, d \in DecodeWorkers :
             decode' = [decode EXCEPT ![d] = HandedOff(@, r, w)]
      BY <2>1
    <3>2. HandedOff(decode[d], r, w).store = decode[d].store
      BY <1>1 DEF HandedOff, Woken, DecodeState
    <3>3. \A e \in DecodeWorkers : decode'[e].store = decode[e].store
      BY <1>1, <3>1, <3>2
    <3>. QED  BY <3>3 DEF Room
  <2>2. CASE decode' = decode
    BY <1>2, <2>2
  <2>3. prefill[w].store.admits[0] \in SUBSET Requests
    BY Workers DEF IInv, OnePlace, Prefilling, InService
  <2>. QED  BY <1>3, <2>1, <2>2, <2>3 DEF PrefillTick
<1>4. ASSUME NEW d \in DecodeWorkers, NEW pulled \in BOOLEAN, NEW computed \in BOOLEAN,
             DecodeTick(d, pulled, computed)
      PROVE  Room'
  <2>1. DF!PullSound(decode[d].store, TRUE) /\ DF!FewDecodes(decode[d].store)
    BY DecodeParts DEF Room, FewDecodes
  <2>2. /\ \A e \in DecodeWorkers \ {d} : decode'[e] = decode[e]
        /\ DecodeSound(decode'[d], emitted', TRUE)
    BY <1>4, <2>1, DecodeTickWorker
  <2>. QED  BY <2>2 DEF Room, DecodeSound
<1>5. CASE UNCHANGED vars \/ Terminated
  BY <1>2, <1>5 DEF vars, Terminated
<1>6. ASSUME NEW r \in Requests, NEW w \in PrefillWorkers, OnArrival(r, w) PROVE Room'
  BY <1>2, <1>6 DEF OnArrival
<1>. QED  BY <1>3, <1>4, <1>5, <1>6 DEF Next

\* "The soft tier is clamped to whatever capacity the hard tier leaves": a prefill
\* worker has room for what it has promised, holds, retains and prefills (fits,
\* hold, insert); a decode partition has room for all that its decodes will still
\* grow (projected_peak), in a run that never gives it decodes enough for the
\* projected peak to leave exits out.
THEOREM CapacityCorrect ==
    Spec => []PrefillCapacityHolds /\ ([]FewDecodes => []CapacityHolds)
<1>1. IInv => PrefillCapacityHolds
  <2>. SUFFICES ASSUME IInv PROVE PrefillCapacityHolds
    OBVIOUS
  <2>1. ASSUME NEW w \in PrefillWorkers
        PROVE  LET st == prefill[w].store
               IN  st.reserved[0] + st.heldUnits[0] + PrefillKv!CacheUnits(st, 0)
                     + PrefillKv!SumOver([r \in Requests |-> ContextOf(r)], st.admits[0])
                       <= PrefillCapacity
    <3> DEFINE st == prefill[w].store
               held == st.heldUnits[0]
               kept == PF!CacheUnits(st, 0)
               ran  == PF!SumOver(PF!Contexts, st.admits[0])
    <3>1. PF!HandsOver(st) /\ 0 \in PF!Partitions
      BY PrefillParts DEF IInv, PrefillSound
    <3>2. st \in PF!Store /\ st.admits[0] \in SUBSET Requests
      BY <3>1 DEF PF!HandsOver, PF!Store
    <3>3. st.reserved[0] = 0 /\ held + kept + ran <= PrefillCapacity
      BY <3>1 DEF PF!HandsOver
    <3> HIDE DEF st
    <3>4. kept \in Nat /\ ran \in Nat /\ held \in Int /\ PrefillCapacity \in Nat
      BY <3>1, <3>2, PrefillAssumptions, PF!HandsOverType
    <3>5. PrefillKv!CacheUnits(st, 0) = kept
          /\ PrefillKv!SumOver([r \in Requests |-> ContextOf(r)], st.admits[0]) = ran
      BY PrefillParts, PrefillTier
    <3> HIDE DEF held, kept, ran
    <3>6. st.reserved[0] + held + kept + ran <= PrefillCapacity
      BY <3>3, <3>4
    <3>. QED  BY <3>5, <3>6 DEF st, held
  <2>. QED  BY <2>1 DEF PrefillCapacityHolds
<1>2. IInv /\ Room /\ FewDecodes => CapacityHolds
  <2>. SUFFICES ASSUME IInv, Room, FewDecodes PROVE CapacityHolds
    OBVIOUS
  <2>1. ASSUME NEW d \in DecodeWorkers, NEW p \in DecodeKv!Partitions
        PROVE  LET st == decode[d].store
               IN  st.reserved[p] = 0 /\ st.resident[p] <= st.peak[p] /\ st.peak[p] <= DecodeCapacity
    <3>1. /\ DF!PullSound(decode[d].store, TRUE) /\ DF!FewDecodes(decode[d].store)
          /\ p \in DF!Partitions
      BY DecodeParts DEF Room, FewDecodes
    <3>. QED  BY <3>1, DecodeAssumptions, DF!PullsFit
  <2>. QED  BY <1>1, <2>1 DEF CapacityHolds, DecodeCapacityHolds
<1>3. Init => Room
  <2>1. DF!PullSound(DecodeKv!EmptyStore, TRUE)
    BY DecodeParts, DecodeAssumptions, DF!EmptyPulls
  <2>. SUFFICES ASSUME Init PROVE Room
    OBVIOUS
  <2>2. \A d \in DecodeWorkers : decode[d].store = DecodeKv!EmptyStore
    BY DEF Init
  <2>. QED  BY <2>1, <2>2 DEF Room
<1>4. IInv /\ Room /\ FewDecodes /\ [Next]_vars => Room'
  BY RoomStep
<1>. QED  BY <1>1, <1>2, <1>3, <1>4, Invariance, PTL DEF Spec

\* The two pools implement the safety part of the contract: no request gets a token
\* more than it asked for, and each is reported once, when it has all of them
\* (PdFlow::tick and the workers' complete_iteration).
THEOREM SafeContract == Spec => Contract!SafeSpec
<1>1. Init => Contract!Init
  BY DEF Init, Contract!Init, Arrived
<1>2. IInv /\ [Next]_vars => [Contract!Next]_(Contract!vars)
  <2>. SUFFICES ASSUME IInv, [Next]_vars PROVE [Contract!Next]_(Contract!vars)
    OBVIOUS
  <2>0. /\ emitted \in [Requests -> Nat] /\ Target \in [Requests -> Nat]
        /\ Arrived \in SUBSET Requests /\ done \in SUBSET Arrived /\ InService = Contract!InService
    BY Workers, WorkloadAssumption DEF InService, Contract!InService
  <2>1. ASSUME NEW r \in Requests, NEW w \in PrefillWorkers, OnArrival(r, w)
        PROVE  Contract!Release(r)
    <3>1. arrived \in Seq(Requests) /\ arrived' = Append(arrived, r)
      BY <2>1 DEF IInv, TypeOK, OnArrival
    <3>2. Arrived' = Arrived \cup {r}
      <4>1. { arrived'[i] : i \in 1 .. Len(arrived') }
               = { arrived[i] : i \in 1 .. Len(arrived) } \cup {r}
        BY <3>1, AppendedSet
      <4>. QED  BY <4>1 DEF Arrived
    <3>. QED  BY <2>1, <3>2 DEF OnArrival, Contract!Release
  <2>2. ASSUME NEW S \in SUBSET Contract!InService, NEW C \in SUBSET S,
               emitted' = Counted(emitted, S), done' = done \cup C, Arrived' = Arrived,
               \A r \in S : emitted[r] < Target[r],
               \A r \in C : emitted'[r] = Target[r]
        PROVE  Contract!Next
    <3>1. S \subseteq Requests /\ C \in SUBSET Contract!InService
      BY <2>0 DEF Contract!InService
    <3>2. emitted' \in [Requests -> Nat]
          /\ \A r \in Requests : emitted'[r] = IF r \in S THEN emitted[r] + 1 ELSE emitted[r]
      BY <2>0, <2>2 DEF Counted
    <3>3. ASSUME NEW r \in S PROVE emitted'[r] \in emitted[r] + 1 .. Target[r]
      <4>1. r \in Requests /\ emitted[r] \in Nat /\ Target[r] \in Nat /\ emitted[r] < Target[r]
        BY <2>0, <2>2, <3>1
      <4>. QED  BY <3>2, <4>1
    <3>4. \A r \in Requests : IF r \in S THEN emitted'[r] \in emitted[r] + 1 .. Target[r]
                                         ELSE emitted'[r] = emitted[r]
      BY <3>2, <3>3
    <3>5. Contract!Serve(S, C)
      BY <2>2, <3>2, <3>4 DEF Contract!Serve
    <3>. QED  BY <3>1, <3>5 DEF Contract!Next
  <2>3. ASSUME NEW w \in PrefillWorkers, PrefillTick(w) PROVE Contract!Next
    <3> DEFINE ran   == prefill[w].store.admits[0]
               short == { r \in ran : Target[r] = 1 }
    <3>1. emitted' = Counted(emitted, ran) /\ done' = done \cup short /\ Arrived' = Arrived
      BY <2>3 DEF PrefillTick, Arrived, Counted
    <3>2. ran \subseteq InService /\ \A r \in ran : emitted[r] = 0
      BY DEF IInv, OnePlace, EmittedAgrees, Prefilling
    <3>3. \A r \in ran : r \in Requests /\ Target[r] \in Nat /\ Target[r] > 0
      BY <2>0, <3>2, RequestType DEF InService
    <3>4. short \in SUBSET ran /\ \A r \in ran : emitted[r] < Target[r]
      BY <3>2, <3>3
    <3>5. \A r \in short : emitted'[r] = Target[r]
      BY <3>1, <3>2, <3>3 DEF Counted
    <3> HIDE DEF ran, short
    <3>. QED  BY <2>0, <2>2, <3>1, <3>2, <3>4, <3>5
  <2>4. ASSUME NEW d \in DecodeWorkers, NEW pulled \in BOOLEAN, NEW computed \in BOOLEAN,
               DecodeTick(d, pulled, computed)
        PROVE  Contract!Next
    <3> DEFINE ran      == Ran(decode[d], computed)
               finished == Finished(ran, emitted')
    <3>1. emitted' = Counted(emitted, ran) /\ done' = done \cup finished /\ Arrived' = Arrived
      <4>1. emitted' = Counted(emitted, ran)
        BY <2>4, DecodeTickWorker
      <4>2. done' = done \cup finished
        BY <2>4, DecodeTickWorker
      <4>3. Arrived' = Arrived
        BY <2>4 DEF DecodeTick, Arrived
      <4>. QED  BY <4>1, <4>2, <4>3
    <3>2. ran = Ran(decode[d], computed) /\ finished = Finished(ran, emitted')
      OBVIOUS
    <3> HIDE DEF ran, finished
    <3>3. ran \subseteq InService /\ \A r \in ran : emitted[r] < Target[r]
      BY <3>1, <3>2, RanTokens
    <3>4. Finished(ran, emitted') \subseteq ran
          /\ \A r \in Finished(ran, emitted') : emitted'[r] = Target[r]
      BY <3>1, <3>2, RanTokens
    <3>. QED  BY <2>0, <2>2, <3>1, <3>2, <3>3, <3>4
  <2>5. CASE Terminated \/ UNCHANGED vars
    BY <2>5 DEF Terminated, vars, Contract!vars, Arrived
  <2>. QED  BY <2>1, <2>3, <2>4, <2>5 DEF Next, Contract!Next
<1>. QED  BY <1>1, <1>2, Invariance, PTL DEF Spec, Contract!SafeSpec

=============================================================================
