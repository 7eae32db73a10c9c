------------------------ MODULE UnifiedWorker_proofs ------------------------
(***************************************************************************)
(* The whole-iteration worker keeps every request in one place, with the   *)
(* tokens it has been given, and serves by the safety of the contract.     *)
(*                                                                         *)
(* Its store over its whole life: the running totals equal the entries     *)
(* they sum, the cached peak covers everything the decodes will grow to,   *)
(* and no partition is ever given more than it has room for.               *)
(*                                                                         *)
(* For every trace whose later rounds inherit some context, the KV of a    *)
(* session exists once, and a round starts where it is.                    *)
(***************************************************************************)
EXTENDS UnifiedWorker, KvCacheStore_proofs

\* What each phase of tick() leaves empty.
PhaseAgrees ==
    /\ phase # "computing" => AdmitsOf(store) = {}
    /\ phase # "forming" => Promised = {}
    /\ phase # "finishing" => finished = {}

\* The tokens a request has been given, by where it is.
EmittedAgrees ==
    /\ \A r \in finished \cup done : emitted[r] = Target[r]
    /\ \A r \in ResidentOf(store) \ finished : emitted[r] < Target[r]
    /\ \A r \in Requests \ (ResidentOf(store) \cup finished \cup done) : emitted[r] = 0

\* The inductive invariant.
IInv == TypeOK /\ OnePlace /\ PhaseAgrees /\ ProgressAgrees /\ EmittedAgrees

\* A new worker satisfies the invariant.
LEMMA InitInv == Init => IInv
<1>. SUFFICES ASSUME Init PROVE IInv
  OBVIOUS
<1>1. TypeOK
  BY EmptyStoreType, StoreAssumption
     DEF Init, TypeOK, NoUsage, Partitions
<1>2. Promised = {} /\ AdmitsOf(store) = {} /\ ResidentOf(store) = {}
  BY DEF Init, EmptyStore, Promised, AdmitsOf, ResidentOf
<1>3. \A p \in Partitions : store.admits[p] = {} /\ store.decodes[p] = {}
  BY DEF Init, EmptyStore
<1>4. \A r \in Requests : store.placement[r] = NoPartition
  BY DEF Init, EmptyStore
<1>5. OnePlace
  BY <1>2, <1>3, <1>4 DEF Init, OnePlace
<1>6. PhaseAgrees /\ ProgressAgrees /\ EmittedAgrees
  BY <1>2 DEF Init, PhaseAgrees, ProgressAgrees, EmittedAgrees
<1>. QED  BY <1>1, <1>5, <1>6 DEF IInv

\* A store that is not written leaves every request where it was.
LEMMA SamePlaces ==
    ASSUME UNCHANGED store
    PROVE  Promised' = Promised /\ AdmitsOf(store)' = AdmitsOf(store)
             /\ ResidentOf(store)' = ResidentOf(store)
BY DEF Promised, AdmitsOf, ResidentOf

\* The partition chosen for a request is a partition, and so is the next one.
LEMMA ChosenType ==
    ASSUME TypeOK, NEW r \in Requests
    PROVE  /\ ChoosePrefillPartition(r) \in Partitions
           /\ NextAfterChoosing(r) \in Partitions
<1>1. RetainedPrefixPartition(store, r) \in Partitions \cup {NoPartition}
  BY RetainedPrefixPartitionType DEF TypeOK
<1>2. next \in Partitions
  BY DEF TypeOK
<1>3. (next + 1) % NumPartitions \in Partitions
  BY <1>2, StoreAssumption DEF Partitions
<1>. QED  BY <1>1, <1>2, <1>3 DEF ChoosePrefillPartition, NextAfterChoosing

\* partition_token_usage is a pair of naturals for every partition.
LEMMA UsageType ==
    ASSUME NEW st \in Store
    PROVE  UsageOf(st) \in [Partitions -> [decodes : Nat, prefill : Nat]]
<1>1. \A p \in Partitions : LiveDecodes(st, p) \in SUBSET Requests
  BY DEF LiveDecodes, Store
<1>. QED  BY <1>1, FiniteUniverse DEF UsageOf

\* A promise is never empty, for every request asks for a token.
LEMMA FootprintType ==
    ASSUME NEW r \in Requests
    PROVE  /\ Footprint(ContextOf(r), Target[r]) \in Nat
           /\ Footprint(ContextOf(r), Target[r]) > 0
BY WorkloadType DEF Footprint

-----------------------------------------------------------------------------
(* Each action keeps the invariant. *)

\* accept_message keeps it: the request was nowhere before.
LEMMA EnqueueInv ==
    ASSUME IInv, NEW r \in Requests, Enqueue(r)
    PROVE  IInv'
<1>1. UNCHANGED store
  BY DEF Enqueue
<1>2. TypeOK'
  <2>1. Cardinality(arrived) \in Nat
    BY FiniteUniverse DEF IInv, TypeOK
  <2>. QED  BY <2>1 DEF IInv, TypeOK, Enqueue
<1>3. OnePlace'
  <2>1. r \notin pending \cup Promised \cup AdmitsOf(store) \cup ResidentOf(store)
                   \cup finished \cup done
    BY DEF IInv, OnePlace, Enqueue
  <2>. QED  BY <1>1, <2>1, SamePlaces DEF IInv, OnePlace, Enqueue
<1>4. PhaseAgrees' /\ ProgressAgrees' /\ EmittedAgrees'
  BY <1>1, SamePlaces
     DEF IInv, PhaseAgrees, ProgressAgrees, EmittedAgrees, Enqueue
<1>. QED  BY <1>2, <1>3, <1>4 DEF IInv

\* The start of form_batch keeps it: nothing has moved.
LEMMA BeginBatchInv ==
    ASSUME IInv, BeginBatch
    PROVE  IInv'
<1>1. UNCHANGED store
  BY DEF BeginBatch
<1>2. TypeOK'
  BY UsageType DEF IInv, TypeOK, BeginBatch, StartForming
<1>3. OnePlace' /\ ProgressAgrees' /\ EmittedAgrees'
  BY <1>1, SamePlaces
     DEF IInv, OnePlace, ProgressAgrees, EmittedAgrees, BeginBatch
<1>4. PhaseAgrees'
  BY <1>1, SamePlaces DEF IInv, PhaseAgrees, BeginBatch, StartForming
<1>. QED  BY <1>2, <1>3, <1>4 DEF IInv

\* An admission keeps it: the head leaves the queue for the promises.
LEMMA AdmitHeadInv ==
    ASSUME IInv, NEW r \in Requests, AdmitHead(r)
    PROVE  IInv'
<1> DEFINE p == ChoosePrefillPartition(r)
           units == Footprint(ContextOf(r), Target[r])
           tokens == PrefillTokensToCompute(store, p, r)
<1>1. p \in Partitions /\ units \in Nat /\ units > 0 /\ tokens \in Nat
  BY ChosenType, FootprintType, PrefillTokensType DEF IInv, TypeOK
<1>2. /\ r \in pending /\ phase = "forming"
      /\ store \in Store /\ store' \in ReservedPrefill(store, r, p, units)
      /\ usage' = [usage EXCEPT ![p].prefill = @ + tokens]
      /\ next' = NextAfterChoosing(r)
      /\ pending' = pending \ {r}
      /\ UNCHANGED << arrived, ticket, phase, finished, emitted, done >>
  BY DEF AdmitHead, IsHead, IInv, TypeOK
<1> HIDE DEF p, units, tokens
<1>3. /\ store'.promised = [store.promised EXCEPT ![r] = units]
      /\ store'.placement = [store.placement EXCEPT ![r] = p]
      /\ store'.admits = store.admits /\ store'.decodes = store.decodes
      /\ store'.context = store.context /\ store'.remaining = store.remaining
  BY <1>1, <1>2, PromiseFields
<1>4. TypeOK'
  <2>1. store' \in Store
    BY <1>1, <1>2, ReservedPrefillType
  <2>2. usage' \in [Partitions -> [decodes : Nat, prefill : Nat]]
    BY <1>1, <1>2 DEF IInv, TypeOK
  <2>3. next' \in Partitions
    BY <1>2, ChosenType DEF IInv
  <2>. QED  BY <1>2, <2>1, <2>2, <2>3 DEF IInv, TypeOK
<1>5. /\ Promised' = Promised \cup {r}
      /\ AdmitsOf(store)' = AdmitsOf(store)
      /\ ResidentOf(store)' = ResidentOf(store)
  BY <1>1, <1>2, <1>3 DEF Promised, AdmitsOf, ResidentOf, Store
<1>6. OnePlace'
  <2>1. \A q \in Requests : store'.placement[q] =
                              IF q = r THEN p ELSE store.placement[q]
    BY <1>2, <1>3 DEF Store
  <2>2. p # NoPartition
    BY <1>1, StoreAssumption DEF Partitions
  <2>3. r \notin Promised \cup AdmitsOf(store) \cup ResidentOf(store)
                   \cup finished \cup done
    BY <1>2 DEF IInv, OnePlace
  <2>4. \A q \in Partitions : r \notin store.admits[q] \cup store.decodes[q]
    BY <2>3 DEF AdmitsOf, ResidentOf
  <2>5. \A q \in Partitions : store.admits[q] \cup store.decodes[q] \subseteq Requests
    BY <1>2 DEF Store
  <2>. QED  BY <1>2, <1>3, <1>5, <2>1, <2>2, <2>3, <2>4, <2>5 DEF IInv, OnePlace
<1>7. PhaseAgrees' /\ ProgressAgrees' /\ EmittedAgrees'
  BY <1>2, <1>3, <1>5 DEF IInv, PhaseAgrees, ProgressAgrees, EmittedAgrees
<1>. QED  BY <1>4, <1>6, <1>7 DEF IInv

\* The end of form_batch keeps it: every promise becomes a prefill.
LEMMA CloseBatchInv ==
    ASSUME IInv, CloseBatch
    PROVE  IInv'
<1>1. /\ phase = "forming" /\ store \in Store
      /\ store' = DrainReady(store)
      /\ phase' \in {"computing", "idle"}
      /\ phase' = "idle" => \A p \in Partitions : DrainReady(store).admits[p] = {}
      /\ UNCHANGED << arrived, pending, ticket, usage, finished, emitted, done >>
  BY DEF CloseBatch, IInv, TypeOK
<1>2. /\ store'.promised = [r \in Requests |-> 0]
      /\ store'.placement = store.placement
      /\ store'.admits = [p \in Partitions |-> store.admits[p] \cup PromisedOn(store, p)]
      /\ store'.decodes = store.decodes
      /\ store'.context = store.context /\ store'.remaining = store.remaining
  BY <1>1, DrainReadyFields
<1>3. TypeOK'
  <2>1. next' \in Partitions
    <3>1. pending \subseteq Requests
      BY DEF IInv, TypeOK
    <3>. QED  BY <3>1, ChosenType DEF CloseBatch, IInv, TypeOK
  <2>2. store' \in Store
    BY <1>1, DrainReadyType
  <2>. QED  BY <1>1, <2>1, <2>2 DEF IInv, TypeOK
<1>4. /\ Promised' = {}
      /\ AdmitsOf(store)' = AdmitsOf(store) \cup Promised
      /\ ResidentOf(store)' = ResidentOf(store)
  <2>1. Promised' = {}
    BY <1>2 DEF Promised
  <2>2. ResidentOf(store)' = ResidentOf(store)
    BY <1>2 DEF ResidentOf
  <2>3. \A r \in Promised : \E p \in Partitions : r \in PromisedOn(store, p)
    <3>1. \A r \in Promised : store.placement[r] \in Partitions
      BY <1>1 DEF IInv, OnePlace, Promised, Store
    <3>. QED  BY <3>1 DEF Promised, PromisedOn, PlacedOn
  <2>4. \A p \in Partitions : PromisedOn(store, p) \subseteq Promised
    BY DEF Promised, PromisedOn, PlacedOn
  <2>5. AdmitsOf(store)' = UNION { store.admits[p] \cup PromisedOn(store, p) : p \in Partitions }
    BY <1>2 DEF AdmitsOf
  <2>6. AdmitsOf(store)' = AdmitsOf(store) \cup Promised
    BY <2>3, <2>4, <2>5 DEF AdmitsOf
  <2>. QED  BY <2>1, <2>2, <2>6
<1>5. OnePlace'
  <2>1. \A p \in Partitions : \A r \in PromisedOn(store, p) : store.placement[r] = p
    BY DEF PromisedOn, PlacedOn
  <2>. QED  BY <1>1, <1>2, <1>4, <2>1 DEF IInv, OnePlace
<1>6. PhaseAgrees'
  <2>1. phase' # "computing" => AdmitsOf(store)' = {}
    BY <1>1 DEF AdmitsOf
  <2>. QED  BY <1>1, <1>4, <2>1 DEF IInv, PhaseAgrees
<1>7. ProgressAgrees' /\ EmittedAgrees'
  BY <1>1, <1>2, <1>4 DEF IInv, ProgressAgrees, EmittedAgrees
<1>. QED  BY <1>3, <1>5, <1>6, <1>7 DEF IInv

\* A release keeps it: the request leaves the store and is reported.
LEMMA ReleaseFinishedInv ==
    ASSUME IInv, NEW r \in Requests, ReleaseFinished(r)
    PROVE  IInv'
<1> DEFINE p == store.placement[r]
<1>1. /\ phase = "finishing" /\ r \in finished /\ store \in Store
      /\ store' \in ReleasedRetainingPrefix(store, r, p)
      /\ finished' = finished \ {r} /\ done' = done \cup {r}
      /\ \/ finished' = {} /\ phase' = "forming" /\ usage' = UsageOf(store')
         \/ finished' # {} /\ phase' = phase /\ usage' = usage
      /\ UNCHANGED << arrived, pending, ticket, next, emitted >>
  BY DEF ReleaseFinished, StartForming, IInv, TypeOK
<1>2. p \in Partitions /\ p # NoPartition
  BY <1>1, StoreAssumption DEF IInv, OnePlace, Store, Partitions
<1> HIDE DEF p
<1>3. /\ store'.placement = [store.placement EXCEPT ![r] = NoPartition]
      /\ store'.promised = [store.promised EXCEPT ![r] = 0]
      /\ store'.admits = store.admits
      /\ store'.decodes = [store.decodes EXCEPT ![p] = store.decodes[p] \ {r}]
      /\ \A q \in Requests \ {r} : /\ store'.context[q] = store.context[q]
                                   /\ store'.remaining[q] = store.remaining[q]
  BY <1>1, <1>2, ReleasedRetainingPrefixFields
<1>4. store' \in Store
  BY <1>1, <1>2, ReleasedRetainingPrefixType
<1>5. TypeOK'
  <2>1. usage' \in [Partitions -> [decodes : Nat, prefill : Nat]]
    BY <1>1, <1>4, UsageType DEF IInv, TypeOK
  <2>. QED  BY <1>1, <1>4, <2>1 DEF IInv, TypeOK
<1>6. \A q \in Partitions : r \in store.decodes[q] => q = p
  BY DEF IInv, OnePlace, p
<1>7. /\ Promised = {} /\ AdmitsOf(store) = {}
      /\ Promised' = {} /\ AdmitsOf(store)' = {}
      /\ ResidentOf(store)' = ResidentOf(store) \ {r}
  <2>1. Promised = {} /\ AdmitsOf(store) = {}
    BY <1>1 DEF IInv, PhaseAgrees
  <2>2. Promised' = {}
    BY <1>1, <1>3, <2>1 DEF Promised, Store
  <2>3. AdmitsOf(store)' = {}
    BY <1>3, <2>1 DEF AdmitsOf
  <2>4. \A q \in Partitions : store'.decodes[q] = store.decodes[q] \ {r}
    BY <1>1, <1>2, <1>3, <1>6 DEF Store
  <2>5. ResidentOf(store)' = ResidentOf(store) \ {r}
    BY <2>4 DEF ResidentOf
  <2>. QED  BY <2>1, <2>2, <2>3, <2>5
<1>8. OnePlace'
  <2>1. \A q \in Requests : store'.placement[q] =
                              IF q = r THEN NoPartition ELSE store.placement[q]
    BY <1>1, <1>3 DEF Store
  <2>2. \A q \in Partitions : /\ store'.decodes[q] = store.decodes[q] \ {r}
                              /\ store'.admits[q] = {}
    <3>1. \A q \in Partitions : store'.decodes[q] = store.decodes[q] \ {r}
      BY <1>1, <1>2, <1>3, <1>6 DEF Store
    <3>. QED  BY <1>3, <1>7, <3>1 DEF AdmitsOf
  <2>3. r \notin done
    BY <1>1 DEF IInv, OnePlace
  <2>4. /\ arrived' = pending' \cup Promised' \cup AdmitsOf(store)'
                        \cup ResidentOf(store)' \cup finished' \cup done'
        /\ pending' \cap (Promised' \cup AdmitsOf(store)' \cup ResidentOf(store)'
                           \cup finished' \cup done') = {}
        /\ done' \cap (Promised' \cup AdmitsOf(store)' \cup ResidentOf(store)'
                          \cup finished') = {}
    BY <1>1, <1>7 DEF IInv, OnePlace
  <2>5. \A q \in Requests : store'.placement[q] # NoPartition <=>
           q \in Promised' \cup AdmitsOf(store)' \cup ResidentOf(store)' \cup finished'
    BY <1>1, <1>7, <2>1 DEF IInv, OnePlace
  <2>6. \A q \in Partitions : \A x \in store'.admits[q] \cup store'.decodes[q] :
           store'.placement[x] = q
    <3>1. \A q \in Partitions : store.decodes[q] \subseteq Requests
      BY <1>1 DEF Store
    <3>. QED  BY <2>1, <2>2, <3>1 DEF IInv, OnePlace
  <2>. QED  BY <1>7, <2>4, <2>5, <2>6 DEF OnePlace
<1>9. PhaseAgrees'
  BY <1>1, <1>7 DEF IInv, PhaseAgrees
<1>10. ProgressAgrees'
  <2>1. ResidentOf(store) \subseteq Requests
    BY <1>1 DEF ResidentOf, Store
  <2>. QED  BY <1>1, <1>3, <1>7, <2>1 DEF IInv, ProgressAgrees
<1>11. EmittedAgrees'
  BY <1>1, <1>7 DEF IInv, EmittedAgrees
<1>. QED  BY <1>5, <1>8, <1>9, <1>10, <1>11 DEF IInv

\* Between iterations every resident decode has output left: a finished one is
\* released before the next batch is formed.
LEMMA AllLive ==
    ASSUME IInv, finished = {}
    PROVE  /\ UNION { LiveDecodes(store, p) : p \in Partitions } = ResidentOf(store)
           /\ ResidentOf(store) \in SUBSET Requests
<1>1. store \in Store
  BY DEF IInv, TypeOK
<1>2. \A p \in Partitions : store.decodes[p] \subseteq ResidentOf(store)
  BY DEF ResidentOf
<1>3. \A r \in ResidentOf(store) : store.remaining[r] > 0
  <2>1. ResidentOf(store) \subseteq Requests
    BY <1>1 DEF ResidentOf, Store
  <2>2. \A r \in ResidentOf(store) : /\ emitted[r] < Target[r]
                                     /\ store.remaining[r] + emitted[r] = Target[r]
    BY DEF IInv, ProgressAgrees, EmittedAgrees
  <2>3. \A r \in Requests : /\ store.remaining[r] \in Nat /\ Target[r] \in Nat
                            /\ emitted[r] \in Nat
    BY <1>1, WorkloadType DEF IInv, TypeOK, Store
  <2>. QED  BY <2>1, <2>2, <2>3
<1>4. \A p \in Partitions : LiveDecodes(store, p) = store.decodes[p]
  BY <1>2, <1>3 DEF LiveDecodes
<1>5. ResidentOf(store) \in SUBSET Requests
  BY <1>1 DEF ResidentOf, Store
<1>. QED  BY <1>4, <1>5 DEF ResidentOf

\* The end of an iteration keeps it: what was computed grows by a token each,
\* prefills with output left become decodes, the others wait for their release.
LEMMA CompleteIterationInv ==
    ASSUME IInv, CompleteIteration
    PROVE  IInv'
<1> DEFINE live == UNION { LiveDecodes(store, p) : p \in Partitions }
           fresh == AdmitsOf(store)
           tokens == [r \in Requests |->
                        IF r \in live \cup fresh THEN emitted[r] + 1 ELSE emitted[r]]
           complete == { r \in live \cup fresh : IsComplete(r, tokens[r]) }
           left == [r \in Requests |-> OutputLeft(r, tokens[r])]
           prompts == [r \in Requests |-> ContextOf(r)]
           begun == fresh \ complete
           grown == Advanced(store, live)
           joined == Committed(grown, begun, prompts, left)
<1>1. /\ phase = "computing" /\ store \in Store
      /\ emitted' = tokens /\ finished' = complete
      /\ store' = ClearPrefillAdmits(joined)
      /\ \/ complete = {} /\ phase' = "forming" /\ usage' = UsageOf(store')
         \/ complete # {} /\ phase' = "finishing" /\ usage' = usage
      /\ UNCHANGED << arrived, pending, ticket, next, done >>
  BY DEF CompleteIteration, StartForming, IInv, TypeOK
<1>2. /\ Promised = {} /\ finished = {}
      /\ \A r \in Requests : store.promised[r] = 0
  BY <1>1 DEF IInv, PhaseAgrees, Promised, Store
<1>3. live = ResidentOf(store) /\ live \in SUBSET Requests
  BY <1>2, AllLive
<1>4. fresh \in SUBSET Requests /\ fresh \cap live = {} /\ complete \in SUBSET Requests
  <2>1. fresh \in SUBSET Requests
    BY <1>1 DEF AdmitsOf, Store
  <2>2. fresh \cap live = {}
    BY <1>3 DEF IInv, OnePlace
  <2> HIDE DEF live, fresh, tokens
  <2>. QED  BY <1>3, <2>1, <2>2
<1>5. \A r \in live \cup fresh :
         /\ emitted[r] \in Nat /\ Target[r] \in Nat
         /\ tokens[r] = emitted[r] + 1 /\ tokens[r] <= Target[r]
         /\ r \in complete <=> tokens[r] = Target[r]
         /\ r \in fresh => emitted[r] = 0
  <2>1. ASSUME NEW r \in live \cup fresh
        PROVE  /\ emitted[r] \in Nat /\ Target[r] \in Nat /\ r \in Requests
               /\ emitted[r] < Target[r]
               /\ r \in fresh => emitted[r] = 0
    BY <1>2, <1>3, <1>4, WorkloadType DEF IInv, TypeOK, EmittedAgrees, OnePlace
  <2>. QED  BY <2>1 DEF IsComplete
<1> HIDE DEF live, fresh, tokens, complete
<1>6. \A r \in begun : left[r] \in Nat /\ left[r] = Target[r] - 1
  BY <1>4, <1>5 DEF OutputLeft
<1>7. grown \in Store
  <2>1. \A r \in live : store.remaining[r] > 0
    <3>1. \A r \in live : /\ store.remaining[r] \in Nat
                          /\ store.remaining[r] + emitted[r] = Target[r]
      BY <1>1, <1>3 DEF IInv, ProgressAgrees, Store
    <3>. QED  BY <1>5, <3>1
  <2>. QED  BY <1>1, <1>3, <2>1, AdvancedType
<1>8. joined \in Store
  <2>1. prompts \in [Requests -> Nat]
    BY WorkloadType
  <2> HIDE DEF grown, prompts, left
  <2>. QED  BY <1>4, <1>6, <1>7, <2>1, CommittedType
<1>9. /\ \A r \in Requests : store'.promised[r] = 0
      /\ store'.placement = store.placement
      /\ \A p \in Partitions : store'.admits[p] = {}
      /\ \A p \in Partitions : store'.decodes[p] =
            store.decodes[p] \cup (begun \cap PlacedOn(store, p))
      /\ \A r \in Requests : store'.context[r] =
            IF r \in begun THEN ContextOf(r)
            ELSE IF r \in live THEN store.context[r] + 1 ELSE store.context[r]
      /\ \A r \in Requests : store'.remaining[r] =
            IF r \in begun THEN left[r]
            ELSE IF r \in live THEN store.remaining[r] - 1 ELSE store.remaining[r]
  <2>1. /\ grown.promised = store.promised /\ grown.placement = store.placement
        /\ grown.decodes = store.decodes
        /\ grown.context = [r \in Requests |->
             IF r \in live THEN store.context[r] + 1 ELSE store.context[r]]
        /\ grown.remaining = [r \in Requests |->
             IF r \in live THEN store.remaining[r] - 1 ELSE store.remaining[r]]
    BY <1>1, <1>3, AdvancedFields
  <2> HIDE DEF grown, left
  <2>2. /\ joined.promised = [r \in Requests |-> IF r \in begun THEN 0 ELSE grown.promised[r]]
        /\ joined.placement = grown.placement
        /\ joined.decodes =
             [p \in Partitions |-> grown.decodes[p] \cup (begun \cap PlacedOn(grown, p))]
        /\ joined.context =
             [r \in Requests |-> IF r \in begun THEN prompts[r] ELSE grown.context[r]]
        /\ joined.remaining =
             [r \in Requests |-> IF r \in begun THEN left[r] ELSE grown.remaining[r]]
    BY <1>4, <1>7, CommittedFields
  <2>3. \A p \in Partitions : PlacedOn(grown, p) = PlacedOn(store, p)
    BY <2>1 DEF PlacedOn
  <2> HIDE DEF joined
  <2>4. /\ store'.promised = joined.promised /\ store'.placement = joined.placement
        /\ store'.admits = [p \in Partitions |-> {}]
        /\ store'.decodes = joined.decodes /\ store'.context = joined.context
        /\ store'.remaining = joined.remaining
    BY <1>1, <1>8, ClearPrefillAdmitsFields
  <2> HIDE DEF begun
  <2>. QED  BY <1>2, <2>1, <2>2, <2>3, <2>4
<1>10. TypeOK'
  <2>1. store' \in Store
    BY <1>1, <1>8, ClearPrefillAdmitsFields
  <2>2. usage' \in [Partitions -> [decodes : Nat, prefill : Nat]]
    BY <1>1, <2>1, UsageType DEF IInv, TypeOK
  <2>3. emitted' \in [Requests -> Nat]
    BY <1>1, <1>3, <1>4 DEF IInv, TypeOK, tokens
  <2>. QED  BY <1>1, <1>4, <2>1, <2>2, <2>3 DEF IInv, TypeOK
<1>11. /\ Promised' = {} /\ AdmitsOf(store)' = {}
       /\ ResidentOf(store)' = ResidentOf(store) \cup begun
  <2>1. Promised' = {} /\ AdmitsOf(store)' = {}
    BY <1>9 DEF Promised, AdmitsOf
  <2>2. \A r \in begun : \E p \in Partitions : r \in PlacedOn(store, p)
    BY <1>1, <1>4 DEF IInv, OnePlace, PlacedOn, fresh, AdmitsOf
  <2>3. ResidentOf(store)' = UNION { store.decodes[p] \cup (begun \cap PlacedOn(store, p))
                                       : p \in Partitions }
    BY <1>9 DEF ResidentOf
  <2> HIDE DEF begun
  <2>4. ResidentOf(store)' = ResidentOf(store) \cup begun
    BY <2>2, <2>3 DEF ResidentOf
  <2>. QED  BY <2>1, <2>4
<1>12. OnePlace'
  <2>1. complete \subseteq live \cup fresh
    BY DEF complete
  <2>2. \A p \in Partitions : \A r \in store'.admits[p] \cup store'.decodes[p] :
           store'.placement[r] = p
    BY <1>9 DEF IInv, OnePlace, PlacedOn
  <2>3. fresh = AdmitsOf(store)
    BY DEF fresh
  <2>4. /\ live \cup fresh = ResidentOf(store) \cup AdmitsOf(store)
        /\ ResidentOf(store)' \cup finished' = live \cup fresh
    BY <1>1, <1>3, <1>11, <2>1, <2>3
  <2>5. /\ arrived' = pending' \cup ResidentOf(store)' \cup finished' \cup done'
        /\ pending' \cap (ResidentOf(store)' \cup finished' \cup done') = {}
        /\ done' \cap (ResidentOf(store)' \cup finished') = {}
    BY <1>1, <1>2, <2>4 DEF IInv, OnePlace
  <2>6. \A r \in Requests : store'.placement[r] # NoPartition <=>
           r \in ResidentOf(store)' \cup finished'
    BY <1>2, <1>9, <2>4 DEF IInv, OnePlace
  <2>. QED  BY <1>11, <2>2, <2>5, <2>6 DEF OnePlace
<1>13. PhaseAgrees'
  BY <1>1, <1>11 DEF PhaseAgrees
<1>14. ProgressAgrees'
  <2>1. ASSUME NEW r \in begun
        PROVE  /\ emitted'[r] >= 1
               /\ store'.context[r] = ContextOf(r) + emitted'[r] - 1
               /\ store'.remaining[r] + emitted'[r] = Target[r]
    <3>1. r \in fresh /\ r \in Requests
      BY <1>4
    <3>2. emitted'[r] = 1
      BY <1>1, <1>5, <3>1
    <3>3. store'.context[r] = ContextOf(r) /\ store'.remaining[r] = Target[r] - 1
      BY <1>6, <1>9, <3>1
    <3>4. ContextOf(r) \in Nat /\ Target[r] \in Nat
      BY <3>1, WorkloadType
    <3>. QED  BY <3>2, <3>3, <3>4
  <2>2. ASSUME NEW r \in ResidentOf(store), r \notin begun
        PROVE  /\ emitted'[r] >= 1
               /\ store'.context[r] = ContextOf(r) + emitted'[r] - 1
               /\ store'.remaining[r] + emitted'[r] = Target[r]
    <3>1. /\ r \in live /\ r \in Requests
          /\ emitted'[r] = emitted[r] + 1 /\ emitted[r] \in Nat
          /\ store'.context[r] = store.context[r] + 1
          /\ store'.remaining[r] = store.remaining[r] - 1
          /\ ContextOf(r) \in Nat /\ store.remaining[r] \in Nat
      BY <1>1, <1>3, <1>5, <1>9, <2>2, WorkloadType DEF Store
    <3>2. /\ emitted[r] >= 1
          /\ store.context[r] = ContextOf(r) + emitted[r] - 1
          /\ store.remaining[r] + emitted[r] = Target[r]
      BY DEF IInv, ProgressAgrees
    <3>. QED  BY <3>1, <3>2
  <2>. QED  BY <1>11, <2>1, <2>2 DEF ProgressAgrees
<1>15. EmittedAgrees'
  <2>1. done \cap (live \cup fresh) = {}
    BY <1>3 DEF IInv, OnePlace, fresh
  <2>2. \A r \in Requests : emitted'[r] =
           IF r \in live \cup fresh THEN emitted[r] + 1 ELSE emitted[r]
    BY <1>1 DEF tokens
  <2>3. done \subseteq Requests /\ complete \subseteq live \cup fresh
    BY DEF IInv, TypeOK, complete
  <2>4. \A r \in finished' \cup done' : emitted'[r] = Target[r]
    BY <1>1, <1>5, <2>1, <2>2, <2>3 DEF IInv, EmittedAgrees
  <2>5. \A r \in ResidentOf(store)' \ finished' : emitted'[r] < Target[r]
    <3>1. \A r \in ResidentOf(store)' \ finished' :
             /\ r \in live \cup fresh /\ r \notin complete
             /\ emitted'[r] = tokens[r]
      BY <1>1, <1>3, <1>11
    <3>2. ASSUME NEW r \in live \cup fresh, r \notin complete
          PROVE  tokens[r] < Target[r]
      <4>1. /\ emitted[r] \in Nat /\ Target[r] \in Nat
            /\ tokens[r] = emitted[r] + 1 /\ tokens[r] <= Target[r]
            /\ tokens[r] # Target[r]
        BY <1>5, <3>2
      <4>. QED  BY <4>1
    <3>. QED  BY <3>1, <3>2
  <2>6. \A r \in Requests \ (ResidentOf(store)' \cup finished' \cup done') : emitted'[r] = 0
    BY <1>1, <1>2, <1>3, <1>11, <2>2 DEF IInv, EmittedAgrees
  <2>. QED  BY <2>4, <2>5, <2>6 DEF EmittedAgrees
<1>. QED  BY <1>10, <1>12, <1>13, <1>14, <1>15 DEF IInv

-----------------------------------------------------------------------------
(* Theorems. *)

\* Every step keeps it.
LEMMA StepInv == IInv /\ [Next]_vars => IInv'
<1>. SUFFICES ASSUME IInv, [Next]_vars PROVE IInv'
  OBVIOUS
<1>1. CASE UNCHANGED vars
  <2>1. UNCHANGED store
    BY <1>1 DEF vars
  <2>. QED  BY <1>1, <2>1, SamePlaces
            DEF IInv, TypeOK, OnePlace, PhaseAgrees, ProgressAgrees, EmittedAgrees, vars
<1>2. CASE Next
  <2>1. CASE \E r \in Requests : Enqueue(r)
    BY <2>1, EnqueueInv
  <2>2. CASE BeginBatch
    BY <2>2, BeginBatchInv
  <2>3. CASE \E r \in Requests : AdmitHead(r)
    BY <2>3, AdmitHeadInv
  <2>4. CASE CloseBatch
    BY <2>4, CloseBatchInv
  <2>5. CASE CompleteIteration
    BY <2>5, CompleteIterationInv
  <2>6. CASE \E r \in Requests : ReleaseFinished(r)
    BY <2>6, ReleaseFinishedInv
  <2>7. CASE Terminated
    BY <1>1, <2>7 DEF Terminated
  <2>. QED  BY <1>2, <2>1, <2>2, <2>3, <2>4, <2>5, <2>6, <2>7 DEF Next, Tick
<1>. QED  BY <1>1, <1>2

\* The invariant holds in every state of every worker, whatever its partitions,
\* capacity, budget, order and trace.
THEOREM Invariance == Spec => []IInv
BY InitInv, StepInv, PTL DEF Spec

\* Every variable of the worker keeps its type: no counter of tokens left goes
\* below zero in advance, and the round-robin pointer stays within the partitions.
THEOREM TypeCorrect == Spec => []TypeOK
BY Invariance, PTL DEF IInv

\* An arrived request is in exactly one place of the worker, and placed by the
\* store exactly while it is there (request_ledger.rs, kv_cache_store.rs).
THEOREM OnePlaceHolds == Spec => []OnePlace
BY Invariance, PTL DEF IInv

\* The context and the tokens left that advance and begin_decode keep for a
\* decode never part from the request record's count of emitted tokens.
THEOREM ProgressHolds == Spec => []ProgressAgrees
BY Invariance, PTL DEF IInv

\* The worker implements the safety part of the contract: no request gets a token
\* more than it asked for, and each is reported once, when it has all of them
\* (complete_iteration and its release loop).
THEOREM SafeContract == Spec => Contract!SafeSpec
<1>1. Init => Contract!Init
  BY DEF Init, Contract!Init
<1>2. IInv /\ [Next]_vars => [Contract!Next]_(Contract!vars)
  <2>. SUFFICES ASSUME IInv, [Next]_vars PROVE [Contract!Next]_(Contract!vars)
    OBVIOUS
  <2>1. ASSUME NEW r \in Requests, Enqueue(r) PROVE Contract!Release(r)
    BY <2>1 DEF Enqueue, Contract!Release
  <2>2. ASSUME CompleteIteration
        PROVE  \E S \in SUBSET Contract!InService, C \in SUBSET Contract!InService :
                  Contract!Serve(S, C)
    <3> DEFINE live == UNION { LiveDecodes(store, p) : p \in Partitions }
               S == live \cup AdmitsOf(store)
    <3>1. finished = {} /\ store \in Store
      BY <2>2 DEF IInv, PhaseAgrees, CompleteIteration, TypeOK
    <3>2. S = ResidentOf(store) \cup AdmitsOf(store)
      <4>1. live = ResidentOf(store)
        BY <3>1, AllLive
      <4> HIDE DEF live
      <4>. QED  BY <4>1
    <3>3. S \in SUBSET Contract!InService
      BY <3>2 DEF IInv, OnePlace, Contract!InService
    <3>4. \A r \in S : emitted[r] < Target[r]
      <4>1. AdmitsOf(store) \subseteq Requests
        BY <3>1 DEF AdmitsOf, Store
      <4>2. \A r \in AdmitsOf(store) : emitted[r] = 0 /\ Target[r] > 0
        BY <3>1, <4>1, WorkloadType DEF IInv, EmittedAgrees, OnePlace
      <4>. QED  BY <3>1, <3>2, <4>2 DEF IInv, EmittedAgrees
    <3>5. emitted' = [r \in Requests |-> IF r \in S THEN emitted[r] + 1 ELSE emitted[r]]
      BY <2>2, Zenon DEF CompleteIteration
    <3>6. UNCHANGED << arrived, done >>
      BY <2>2 DEF CompleteIteration
    <3> HIDE DEF S
    <3>7. emitted \in [Requests -> Nat] /\ Target \in [Requests -> Nat]
      BY WorkloadAssumption DEF IInv, TypeOK
    <3>8. emitted' \in [Requests -> Nat]
      BY <3>5, <3>7
    <3>9. \A r \in S : emitted[r] + 1 \in emitted[r] + 1 .. Target[r]
      <4>. SUFFICES ASSUME NEW r \in S PROVE emitted[r] + 1 \in emitted[r] + 1 .. Target[r]
        OBVIOUS
      <4>1. r \in Requests
        BY <3>3, <2>2 DEF Contract!InService, IInv, TypeOK
      <4>. QED  BY <3>4, <3>7, <4>1
    <3>10. Contract!Serve(S, {})
      BY <3>5, <3>6, <3>8, <3>9 DEF Contract!Serve
    <3>. QED  BY <3>3, <3>10
  <2>3. ASSUME NEW r \in Requests, ReleaseFinished(r)
        PROVE  \E S \in SUBSET Contract!InService, C \in SUBSET Contract!InService :
                  Contract!Serve(S, C)
    <3>1. r \in Contract!InService
      BY <2>3 DEF IInv, OnePlace, ReleaseFinished, Contract!InService
    <3>2. emitted[r] = Target[r] /\ UNCHANGED << emitted, arrived >>
      BY <2>3 DEF IInv, EmittedAgrees, ReleaseFinished
    <3>3. emitted' \in [Requests -> Nat]
      BY <3>2 DEF IInv, TypeOK
    <3>4. Contract!Serve({}, {r})
      BY <2>3, <3>2, <3>3 DEF ReleaseFinished, Contract!Serve
    <3>. QED  BY <3>1, <3>4
  <2>4. ASSUME UNCHANGED << arrived, emitted, done >>
        PROVE  UNCHANGED Contract!vars
    BY <2>4 DEF Contract!vars
  <2>5. CASE BeginBatch \/ CloseBatch \/ Terminated \/ UNCHANGED vars
               \/ \E r \in Requests : AdmitHead(r)
    BY <2>4, <2>5 DEF BeginBatch, CloseBatch, Terminated, AdmitHead, vars
  <2>. QED  BY <2>1, <2>2, <2>3, <2>5 DEF Next, Tick, Contract!Next
<1>. QED  BY <1>1, <1>2, Invariance, PTL DEF Spec, Contract!SafeSpec

-----------------------------------------------------------------------------
(* The worker. *)

Units == [r \in Requests |-> Footprint(ContextOf(r), Target[r])]

\* Nothing is ever handed off, and a promise is a whole footprint.
PromisesExact ==
    \A r \in Requests :
        /\ store.held[r] = 0 /\ store.heldOn[r] = NoPartition
        /\ store.promised[r] \in {0, Units[r]}

\* One partition: its totals are those of its entries, its peak covers its
\* decodes, and everything fits.
Sound(p, few) ==
    /\ store.reserved[p] = SumOver(store.promised, PlacedOn(store, p))
    /\ store.heldUnits[p] = 0
    /\ store.resident[p] = SumOver(store.context, store.decodes[p])
    /\ Cardinality(store.decodes[p]) < ExactBelow =>
          store.peak[p] >= ReachedPeak(store, store.decodes[p])
    /\ few => store.peak[p] + store.reserved[p] + CacheUnits(store, p)
                + SumOver(Units, store.admits[p]) <= Capacity

\* few: the decodes have been few enough in every state so far.
RoomInv(few) == PromisesExact /\ \A p \in Partitions : Sound(p, few)

\* The types the sums of a partition have.
LEMMA SumsType ==
    ASSUME NEW st \in Store, NEW p \in Partitions
    PROVE  /\ st.reserved[p] \in Int /\ st.resident[p] \in Int /\ st.peak[p] \in Int
           /\ st.heldUnits[p] \in Int
           /\ CacheUnits(st, p) \in Nat
           /\ ReachedPeak(st, st.decodes[p]) \in Int
           /\ \A S \in SUBSET Requests :
                 SumOver(Units, S) \in Nat /\ SumOver(st.promised, S) \in Nat
           /\ Units \in [Requests -> Nat]
           /\ Capacity \in Nat
<1>1. \A r \in Requests : Units[r] \in Nat
  BY FootprintType DEF Units
<1>2. /\ \A r \in Requests : st.promised[r] \in Nat
      /\ st.decodes[p] \in SUBSET Requests
      /\ \A s \in Sessions : st.cache[p][s] \in Nat
      /\ st.reserved[p] \in Int /\ st.resident[p] \in Int /\ st.peak[p] \in Int
      /\ st.heldUnits[p] \in Int
  BY DEF Store, Totals
<1>3. CacheUnits(st, p) \in Nat
  BY <1>2, FiniteUniverse, SumType DEF CacheUnits
<1>4. ASSUME NEW S \in SUBSET Requests
      PROVE  SumOver(Units, S) \in Nat /\ SumOver(st.promised, S) \in Nat
  <2>1. IsFiniteSet(S)
    BY FiniteUniverse
  <2>. QED  BY <1>1, <1>2, <2>1, SumType
<1>5. ReachedPeak(st, st.decodes[p]) \in Int
  BY <1>2, PeakType
<1>6. Units \in [Requests -> Nat]
  BY <1>1 DEF Units
<1>. QED  BY <1>2, <1>3, <1>4, <1>5, <1>6, StoreAssumption

\* The invariant is stronger than the two properties.
LEMMA RoomIsEnough ==
    ASSUME TypeOK, NEW few \in BOOLEAN, RoomInv(few)
    PROVE  StoreTotalsAgree /\ (few => CapacityHolds)
<1>1. ASSUME NEW p \in Partitions
      PROVE  store.heldUnits[p] = SumOver(store.held, { r \in Requests : store.heldOn[r] = p })
  <2>1. p # NoPartition
    BY StoreAssumption DEF Partitions
  <2>2. \A r \in { r \in Requests : store.heldOn[r] = p } : store.held[r] = 0
    BY DEF RoomInv, PromisesExact
  <2>3. IsFiniteSet({ r \in Requests : store.heldOn[r] = p })
    BY FiniteUniverse
  <2>4. SumOver(store.held, { r \in Requests : store.heldOn[r] = p }) = 0
    BY <2>2, <2>3, SumZero
  <2>. QED  BY <2>4 DEF RoomInv, Sound
<1>2. StoreTotalsAgree
  BY <1>1 DEF StoreTotalsAgree, TotalsAgree, RoomInv, Sound
<1>3. few => CapacityHolds
  BY DEF CapacityHolds, RoomInv, Sound, Units
<1>. QED  BY <1>2, <1>3

\* A new worker's totals are all zero.
LEMMA InitRoom ==
    ASSUME Init, NEW few \in BOOLEAN
    PROVE  RoomInv(few)
<1>1. store = EmptyStore /\ store \in Store
  BY EmptyStoreType DEF Init
<1>2. PromisesExact
  BY <1>1 DEF PromisesExact, EmptyStore
<1>3. ASSUME NEW p \in Partitions PROVE Sound(p, few)
  <2>1. /\ store.reserved[p] = 0 /\ store.heldUnits[p] = 0 /\ store.resident[p] = 0
        /\ store.peak[p] = 0 /\ store.decodes[p] = {} /\ store.admits[p] = {}
        /\ \A s \in Sessions : store.cache[p][s] = 0
        /\ \A r \in Requests : store.promised[r] = 0
    BY <1>1 DEF EmptyStore
  <2>2. IsFiniteSet(PlacedOn(store, p)) /\ PlacedOn(store, p) \subseteq Requests
    BY FiniteUniverse DEF PlacedOn
  <2>3. SumOver(store.promised, PlacedOn(store, p)) = 0
    BY <2>1, <2>2, SumZero
  <2>4. SumOver(store.context, {}) = 0 /\ SumOver(Units, {}) = 0
    BY FS_EmptySet, SumZero
  <2>5. CacheUnits(store, p) = 0
    BY <2>1, FiniteUniverse, SumZero DEF CacheUnits
  <2>6. ReachedPeak(store, {}) <= 0
    <3>1. ASSUME NEW e \in Nat PROVE UnitsAfter(store, {}, e) <= 0
      <4> DEFINE f == [r \in {} |-> store.context[r] + e]
                 D == { r \in {} : store.remaining[r] >= e }
      <4>1. D = {} /\ UnitsAfter(store, {}, e) = SumOver(f, D)
        BY DEF UnitsAfter
      <4> HIDE DEF f, D
      <4>2. SumOver(f, {}) = 0
        BY FS_EmptySet, SumZero
      <4>. QED  BY <4>1, <4>2
    <3>. QED  BY <1>1, <3>1, PeakLeast
  <2>7. ReachedPeak(store, {}) \in Int
    BY <1>1, PeakType
  <2>. QED  BY <2>1, <2>3, <2>4, <2>5, <2>6, <2>7, StoreAssumption DEF Sound
<1>. QED  BY <1>2, <1>3 DEF RoomInv

\* Steps that leave the store alone keep it.
LEMMA RoomKept ==
    ASSUME NEW few \in BOOLEAN, RoomInv(few), UNCHANGED store
    PROVE  RoomInv(few)'
BY DEF RoomInv, PromisesExact, Sound

\* An admission keeps it: fits has weighed the promise against the peak, and
\* the retained prefixes give way.
LEMMA AdmitHeadRoom ==
    ASSUME IInv, NEW few \in BOOLEAN, RoomInv(few), few => FewDecodes(store),
           NEW r \in Requests, AdmitHead(r)
    PROVE  RoomInv(few)'
<1> DEFINE p == ChoosePrefillPartition(r)
           units == Footprint(ContextOf(r), Target[r])
<1>1. /\ p \in Partitions /\ units \in Nat /\ r \in pending /\ store \in Store
      /\ store' \in ReservedPrefill(store, r, p, units) /\ phase = "forming"
      /\ Fits(store, p, units) /\ units = Units[r]
  BY ChosenType, FootprintType DEF IInv, TypeOK, AdmitHead, IsHead, Admissible, Units
<1> HIDE DEF p, units
<1>2. store' \in Store
  BY <1>1, ReservedPrefillType
<1>3. /\ store'.promised = [store.promised EXCEPT ![r] = units]
      /\ store'.placement = [store.placement EXCEPT ![r] = p]
      /\ store'.admits = store.admits /\ store'.decodes = store.decodes
      /\ store'.context = store.context /\ store'.remaining = store.remaining
  BY <1>1, PromiseFields
<1>4. /\ \A q \in Partitions : store'.reserved[q] =
            IF q = p THEN store.reserved[q] + units ELSE store.reserved[q]
      /\ store'.held = store.held /\ store'.heldOn = store.heldOn
      /\ store'.heldUnits = store.heldUnits
      /\ store'.resident = store.resident /\ store'.peak = store.peak
      /\ \A q \in Partitions : q # p => store'.cache[q] = store.cache[q]
      /\ CacheUnits(store', p) \in Nat
      /\ CacheUnits(store', p) <= SoftSlack(store', p)
  BY <1>1, ReservedPrefillTotals
<1>5. \A q \in Requests : store'.promised[q] = IF q = r THEN units ELSE store.promised[q]
  BY <1>1, <1>3 DEF Store
<1>6. PromisesExact'
  BY <1>1, <1>4, <1>5 DEF RoomInv, PromisesExact, Units
<1>7. store.placement[r] = NoPartition
  BY <1>1 DEF IInv, OnePlace
<1>8. \A q \in Partitions : store.admits[q] = {}
  BY <1>1 DEF IInv, PhaseAgrees, AdmitsOf
<1>9. \A q \in Partitions : /\ r \notin PlacedOn(store, q)
                            /\ PlacedOn(store', q) = IF q = p THEN PlacedOn(store, q) \cup {r}
                                                     ELSE PlacedOn(store, q)
  <2>1. \A q \in Partitions : q # NoPartition
    BY StoreAssumption DEF Partitions
  <2>2. \A x \in Requests : store'.placement[x] = IF x = r THEN p ELSE store.placement[x]
    BY <1>1, <1>3 DEF Store
  <2>. QED  BY <1>1, <1>7, <2>1, <2>2 DEF PlacedOn
<1>10. ASSUME NEW q \in Partitions
       PROVE  store'.reserved[q] = SumOver(store'.promised, PlacedOn(store', q))
  <2>1. /\ IsFiniteSet(PlacedOn(store, q)) /\ IsFiniteSet(PlacedOn(store', q))
        /\ PlacedOn(store, q) \subseteq Requests
        /\ \A x \in PlacedOn(store', q) : store'.promised[x] \in Int
    BY <1>2, FiniteUniverse DEF PlacedOn, Store
  <2>2. SumOver(store'.promised, PlacedOn(store, q)) = SumOver(store.promised, PlacedOn(store, q))
    BY <1>5, <1>9, <2>1, SumAgree
  <2>3. store.reserved[q] = SumOver(store.promised, PlacedOn(store, q))
        /\ store.reserved[q] \in Int
    BY <1>1, SumsType DEF RoomInv, Sound
  <2>4. CASE q = p
    <3>1. r \in PlacedOn(store', q) /\ PlacedOn(store', q) \ {r} = PlacedOn(store, q)
      BY <1>9, <2>4
    <3>2. SumOver(store'.promised, PlacedOn(store', q)) =
             store'.promised[r] + SumOver(store'.promised, PlacedOn(store', q) \ {r})
      BY <2>1, <3>1, SumRemove
    <3>3. store'.promised[r] = units
      BY <1>5
    <3>4. SumOver(store'.promised, PlacedOn(store', q)) = units + store.reserved[q]
      BY <2>2, <2>3, <3>1, <3>2, <3>3
    <3>5. store'.reserved[q] = store.reserved[q] + units
      BY <1>4, <2>4
    <3>. QED  BY <1>1, <2>3, <3>4, <3>5
  <2>5. CASE q # p
    BY <1>4, <1>9, <2>2, <2>3, <2>5
  <2>. QED  BY <2>4, <2>5
<1>11. ASSUME NEW q \in Partitions
       PROVE  Sound(q, few)'
  <2>1. /\ store.heldUnits[q] = 0
        /\ store.resident[q] = SumOver(store.context, store.decodes[q])
        /\ Cardinality(store.decodes[q]) < ExactBelow =>
              store.peak[q] >= ReachedPeak(store, store.decodes[q])
        /\ few => store.peak[q] >= ReachedPeak(store, store.decodes[q])
        /\ few => store.peak[q] + store.reserved[q] + CacheUnits(store, q)
                    + SumOver(Units, store.admits[q]) <= Capacity
    BY DEF RoomInv, Sound, FewDecodes
  <2>2. SumOver(Units, store.admits[q]) = 0
    BY <1>8, FS_EmptySet, SumZero
  <2>3. ReachedPeak(store', store'.decodes[q]) = ReachedPeak(store, store.decodes[q])
    <3>1. \A ds : ReachedPeak(store', ds) = ReachedPeak(store, ds)
      BY <1>3, PeakCongruence
    <3>. QED  BY <1>3, <3>1
  <2>4. ASSUME few
        PROVE  store'.peak[q] + store'.reserved[q] + CacheUnits(store', q) + 0 <= Capacity
    <3>1. CASE q = p
      <4>1. /\ store'.peak[q] = store.peak[q] /\ store'.heldUnits[q] = 0
            /\ store'.resident[q] = store.resident[q]
            /\ store'.reserved[q] = store.reserved[q] + units
        BY <1>4, <2>1, <3>1
      <4>2. /\ store.resident[q] + (store.reserved[q] + 0 + units) <= Capacity
            /\ store.peak[q] + (store.reserved[q] + 0 + units) <= Capacity
        BY <1>1, <2>1, <3>1 DEF Fits
      <4>3. /\ store.reserved[q] \in Int /\ store.resident[q] \in Int
            /\ store.peak[q] \in Int /\ units \in Int /\ Capacity \in Int
        BY <1>1, SumsType
      <4>4. store'.resident[q] <= store'.peak[q]
        <5>1. store.decodes[q] \in SUBSET Requests
          BY <1>1 DEF Store
        <5>2. SumOver(store.context, store.decodes[q]) <= ReachedPeak(store, store.decodes[q])
              /\ ReachedPeak(store, store.decodes[q]) \in Int
          BY <1>1, <5>1, ResidentBounded, PeakType
        <5>. QED  BY <2>1, <2>4, <4>1, <4>3, <5>2
      <4>5. store'.peak[q] + store'.reserved[q] + store'.heldUnits[q] <= Capacity
        BY <4>1, <4>2, <4>3
      <4>6. store'.peak[q] + store'.reserved[q] + store'.heldUnits[q] + SoftSlack(store', q)
              = Capacity
        BY <1>2, <4>4, <4>5, SoftSlackBound
      <4>7. CacheUnits(store', q) \in Nat /\ CacheUnits(store', q) <= SoftSlack(store', q)
            /\ SoftSlack(store', q) \in Nat
        BY <1>2, <1>4, <3>1, SoftSlackType
      <4>8. store'.peak[q] \in Int /\ store'.reserved[q] \in Int
        BY <1>2, SumsType
      <4>. QED  BY <4>1, <4>3, <4>6, <4>7, <4>8
    <3>2. CASE q # p
      <4>1. CacheUnits(store', q) = CacheUnits(store, q)
        BY <1>4, <3>2 DEF CacheUnits
      <4>2. store'.peak[q] = store.peak[q] /\ store'.reserved[q] = store.reserved[q]
        BY <1>4, <3>2
      <4>. QED  BY <2>1, <2>2, <2>4, <4>1, <4>2
    <3>. QED  BY <3>1, <3>2
  <2>. QED  BY <1>3, <1>4, <1>10, <2>1, <2>2, <2>3, <2>4 DEF Sound
<1>. QED  BY <1>6, <1>11 DEF RoomInv

\* The end of form_batch keeps it: what was reserved is now to be prefilled.
LEMMA CloseBatchRoom ==
    ASSUME IInv, NEW few \in BOOLEAN, RoomInv(few), few => FewDecodes(store),
           CloseBatch
    PROVE  RoomInv(few)'
<1>1. phase = "forming" /\ store \in Store /\ store' = DrainReady(store) /\ store' \in Store
  <2>1. phase = "forming" /\ store \in Store /\ store' = DrainReady(store)
    BY DEF CloseBatch, IInv, TypeOK
  <2>. QED  BY <2>1, DrainReadyType
<1>2. /\ store'.promised = [r \in Requests |-> 0]
      /\ store'.placement = store.placement
      /\ store'.admits = [p \in Partitions |-> store.admits[p] \cup PromisedOn(store, p)]
      /\ store'.decodes = store.decodes
      /\ store'.context = store.context /\ store'.remaining = store.remaining
  BY <1>1, DrainReadyFields
<1>3. /\ \A q \in Partitions : store'.reserved[q] =
            store.reserved[q] - SumOver(store.promised, PlacedOn(store, q))
      /\ store'.held = store.held /\ store'.heldOn = store.heldOn
      /\ store'.heldUnits = store.heldUnits
      /\ store'.resident = store.resident /\ store'.peak = store.peak
      /\ store'.cache = store.cache
  BY <1>1, DrainReadyTotals
<1>4. PromisesExact'
  BY <1>2, <1>3 DEF RoomInv, PromisesExact
<1>5. ASSUME NEW q \in Partitions
      PROVE  Sound(q, few)'
  <2>1. /\ store.reserved[q] = SumOver(store.promised, PlacedOn(store, q))
        /\ store.heldUnits[q] = 0
        /\ store.resident[q] = SumOver(store.context, store.decodes[q])
        /\ Cardinality(store.decodes[q]) < ExactBelow =>
              store.peak[q] >= ReachedPeak(store, store.decodes[q])
        /\ few => store.peak[q] >= ReachedPeak(store, store.decodes[q])
        /\ few => store.peak[q] + store.reserved[q] + CacheUnits(store, q)
                    + SumOver(Units, store.admits[q]) <= Capacity
    BY DEF RoomInv, Sound, FewDecodes
  <2>2. store.admits[q] = {} /\ store'.admits[q] = PromisedOn(store, q)
    BY <1>1, <1>2 DEF IInv, PhaseAgrees, AdmitsOf
  <2>3. SumOver(Units, store.admits[q]) = 0
    BY <2>2, FS_EmptySet, SumZero
  <2>4. ReachedPeak(store', store'.decodes[q]) = ReachedPeak(store, store.decodes[q])
    <3>1. \A ds : ReachedPeak(store', ds) = ReachedPeak(store, ds)
      BY <1>2, PeakCongruence
    <3>. QED  BY <1>2, <3>1
  <2>5. /\ PromisedOn(store, q) \in SUBSET Requests /\ PlacedOn(store, q) \in SUBSET Requests
        /\ PlacedOn(store', q) \in SUBSET Requests
        /\ PromisedOn(store, q) \cap (PlacedOn(store, q) \ PromisedOn(store, q)) = {}
        /\ PromisedOn(store, q) \cup (PlacedOn(store, q) \ PromisedOn(store, q))
             = PlacedOn(store, q)
    BY DEF PromisedOn, PlacedOn
  <2>6. \A x \in Requests : store.promised[x] \in Nat
    BY <1>1 DEF Store
  <2>7. SumOver(store.promised, PlacedOn(store, q)) = SumOver(Units, PromisedOn(store, q))
    <3> DEFINE A == PromisedOn(store, q)
               B == PlacedOn(store, q) \ PromisedOn(store, q)
    <3>1. /\ \A x \in A : store.promised[x] = Units[x]
          /\ \A x \in B : store.promised[x] = 0
      <4>1. \A x \in Requests : store.promised[x] \in {0, Units[x]}
        BY DEF RoomInv, PromisesExact
      <4>. QED  BY <2>5, <2>6, <4>1 DEF PromisedOn
    <3>2. /\ IsFiniteSet(A) /\ IsFiniteSet(B) /\ A \cap B = {}
          /\ A \cup B = PlacedOn(store, q)
          /\ \A x \in A \cup B : store.promised[x] \in Int
      <4>1. B \in SUBSET Requests
        BY <2>5
      <4>. QED  BY <2>5, <2>6, <4>1, FiniteUniverse
    <3>3. SumOver(Units, A) \in Nat
      BY <1>1, <2>5, SumsType
    <3> HIDE DEF A, B
    <3>4. SumOver(store.promised, A \cup B) = SumOver(store.promised, A) + SumOver(store.promised, B)
      BY <3>2, SumUnion
    <3>5. SumOver(store.promised, A) = SumOver(Units, A)
      BY <3>1, <3>2, SumAgree
    <3>6. SumOver(store.promised, B) = 0
      BY <3>1, <3>2, SumZero
    <3>7. SumOver(store.promised, A \cup B) = SumOver(Units, A)
      BY <3>3, <3>4, <3>5, <3>6
    <3>. QED  BY <3>2, <3>7 DEF A
  <2>8. store'.reserved[q] = 0 /\ store.reserved[q] = SumOver(Units, PromisedOn(store, q))
    BY <1>1, <1>3, <2>1, <2>7, SumsType
  <2>9. SumOver(store'.promised, PlacedOn(store', q)) = 0
    <3>1. \A x \in PlacedOn(store', q) : store'.promised[x] = 0
      BY <1>2, <2>5
    <3>2. IsFiniteSet(PlacedOn(store', q))
      BY <2>5, FiniteUniverse
    <3>. QED  BY <3>1, <3>2, SumZero
  <2>10. CacheUnits(store', q) = CacheUnits(store, q)
    BY <1>3 DEF CacheUnits
  <2>11. /\ store.peak[q] \in Int /\ store.reserved[q] \in Int
         /\ CacheUnits(store, q) \in Nat /\ Capacity \in Nat
    BY <1>1, SumsType
  <2>12. few => store'.peak[q] + store'.reserved[q] + CacheUnits(store', q)
                  + SumOver(Units, store'.admits[q]) <= Capacity
    BY <1>3, <2>1, <2>2, <2>3, <2>8, <2>10, <2>11
  <2>. QED  BY <1>2, <1>3, <2>1, <2>4, <2>8, <2>9, <2>12 DEF Sound
<1>. QED  BY <1>4, <1>5 DEF RoomInv

\* A release keeps it: the peak is that of the decodes that stay, and what the
\* request leaves behind fits beside them.
LEMMA ReleaseFinishedRoom ==
    ASSUME IInv, NEW few \in BOOLEAN, RoomInv(few), few => FewDecodes(store),
           NEW r \in Requests, ReleaseFinished(r)
    PROVE  RoomInv(few)'
<1> DEFINE p == store.placement[r]
           bare == Released(store, r, p)
<1>1. /\ phase = "finishing" /\ r \in finished /\ store \in Store
      /\ store' \in ReleasedRetainingPrefix(store, r, p)
  BY DEF ReleaseFinished, IInv, TypeOK
<1>2. p \in Partitions /\ p # NoPartition
  BY <1>1, StoreAssumption DEF IInv, OnePlace, Store, Partitions
<1>3. \A q \in Partitions : r \in store.decodes[q] => q = p
  BY DEF IInv, OnePlace, p
<1> HIDE DEF p
<1>4. /\ store'.placement = [store.placement EXCEPT ![r] = NoPartition]
      /\ store'.promised = [store.promised EXCEPT ![r] = 0]
      /\ store'.admits = store.admits
      /\ store'.decodes = [store.decodes EXCEPT ![p] = store.decodes[p] \ {r}]
      /\ \A q \in Requests \ {r} : /\ store'.context[q] = store.context[q]
                                   /\ store'.remaining[q] = store.remaining[q]
  BY <1>1, <1>2, ReleasedRetainingPrefixFields
<1>5. store' \in Store
  BY <1>1, <1>2, ReleasedRetainingPrefixType
<1>6. /\ \A x \in Requests : store.promised[x] = 0 /\ store'.promised[x] = 0
      /\ \A q \in Partitions : store.admits[q] = {} /\ store'.admits[q] = {}
      /\ store.held[r] = 0
  <2>1. \A x \in Requests : store.promised[x] = 0
    BY <1>1 DEF IInv, PhaseAgrees, Promised, Store
  <2>2. \A q \in Partitions : store.admits[q] = {}
    BY <1>1 DEF IInv, PhaseAgrees, AdmitsOf
  <2>3. \A x \in Requests : store'.promised[x] = 0
    BY <1>1, <1>4, <2>1 DEF Store
  <2>. QED  BY <1>4, <2>1, <2>2, <2>3 DEF RoomInv, PromisesExact
<1>7. bare \in Store /\ store' = [bare EXCEPT !.cache = store'.cache]
  <2>1. bare \in Store
    BY <1>1, <1>2, ReleasedType
  <2>2. store' \in Store /\ store' = [bare EXCEPT !.cache = store'.cache]
    BY <1>1, <1>2, ReleasedRetainingPrefixType
  <2>. QED  BY <2>1, <2>2
<1>8. /\ bare.reserved = store.reserved /\ bare.held = store.held
      /\ bare.heldOn = store.heldOn /\ bare.heldUnits = store.heldUnits
      /\ r \in store.decodes[p] =>
            /\ bare.resident[p] = store.resident[p] - store.context[r]
            /\ bare.peak[p] = ProjectedPeak(store, store.decodes[p] \ {r})
      /\ r \notin store.decodes[p] =>
            bare.resident[p] = store.resident[p] /\ bare.peak[p] = store.peak[p]
      /\ \A q \in Partitions : q # p =>
            bare.resident[q] = store.resident[q] /\ bare.peak[q] = store.peak[q]
  BY <1>1, <1>2, <1>6, ReleasedTotals
<1>9. HasSession(r) \/ store' = bare
  BY <1>1 DEF ReleasedRetainingPrefix
<1>10. HasSession(r) =>
          /\ \A q \in Partitions : q # p => store'.cache[q] = bare.cache[q]
          /\ CacheUnits(store', p) \in Nat
          /\ CacheUnits(store', p) <= SoftSlack(bare, p)
  <2>. SUFFICES ASSUME HasSession(r)
       PROVE  /\ \A q \in Partitions : q # p => store'.cache[q] = bare.cache[q]
              /\ CacheUnits(store', p) \in Nat
              /\ CacheUnits(store', p) <= SoftSlack(bare, p)
    OBVIOUS
  <2> DEFINE tokens == IF r \in store.decodes[p] THEN store.context[r] ELSE ContextOf(r)
  <2>1. tokens \in Nat
    BY <1>1, WorkloadType DEF Store
  <2>2. SessionOf[r] \in Sessions
    BY WorkloadType
  <2>3. store' \in Retained(bare, p, SessionOf[r], tokens)
    BY <1>1 DEF ReleasedRetainingPrefix
  <2> HIDE DEF tokens, bare
  <2>. QED  BY <1>2, <1>7, <2>1, <2>2, <2>3, RetainedTotals
<1>11. bare.cache = store.cache
  <2> DEFINE unpromised == WithoutPromises(store, {r})
  <2>1. bare = [ReleaseDecode(unpromised, r, p) EXCEPT !.placement[r] = NoPartition]
    BY <1>6 DEF Released, TakeHeld
  <2>2. unpromised \in Store /\ unpromised.cache = store.cache
    <3>1. unpromised \in Store
      BY <1>1, WithoutPromisesType
    <3>. QED  BY <1>1, <3>1 DEF WithoutPromises, Store
  <2> HIDE DEF unpromised
  <2>3. ReleaseDecode(unpromised, r, p) \in Store
    BY <1>2, <2>2, ReleaseDecodeType
  <2>4. ReleaseDecode(unpromised, r, p).cache = unpromised.cache
    BY <2>2, <2>3 DEF ReleaseDecode, Store
  <2>. QED  BY <2>1, <2>2, <2>3, <2>4 DEF Store
<1> HIDE DEF bare
<1>12. /\ store'.reserved = store.reserved /\ store'.held = store.held
       /\ store'.heldOn = store.heldOn /\ store'.heldUnits = store.heldUnits
       /\ store'.resident = bare.resident /\ store'.peak = bare.peak
  BY <1>7, <1>8 DEF Store
<1>13. PromisesExact'
  BY <1>6, <1>12 DEF RoomInv, PromisesExact
<1>14. \A q \in Partitions : /\ store'.decodes[q] = store.decodes[q] \ {r}
                             /\ store.decodes[q] \in SUBSET Requests
  BY <1>1, <1>2, <1>3, <1>4 DEF Store
<1>15. ASSUME NEW q \in Partitions
       PROVE  Sound(q, few)'
  <2>1. /\ store.reserved[q] = SumOver(store.promised, PlacedOn(store, q))
        /\ store.heldUnits[q] = 0
        /\ store.resident[q] = SumOver(store.context, store.decodes[q])
        /\ Cardinality(store.decodes[q]) < ExactBelow =>
              store.peak[q] >= ReachedPeak(store, store.decodes[q])
        /\ few => store.peak[q] >= ReachedPeak(store, store.decodes[q])
        /\ few => store.peak[q] + store.reserved[q] + CacheUnits(store, q)
                    + SumOver(Units, store.admits[q]) <= Capacity
    BY DEF RoomInv, Sound, FewDecodes
  <2>2. SumOver(Units, store.admits[q]) = 0 /\ SumOver(Units, store'.admits[q]) = 0
    BY <1>6, FS_EmptySet, SumZero
  <2>3. /\ store.peak[q] \in Int /\ store.resident[q] \in Int
        /\ CacheUnits(store, q) \in Nat /\ CacheUnits(store', q) \in Nat /\ Capacity \in Nat
        /\ ReachedPeak(store, store.decodes[q]) \in Int
        /\ ReachedPeak(store', store'.decodes[q]) \in Int
        /\ store'.peak[q] \in Int
    BY <1>1, <1>5, SumsType
  <2>4. store.reserved[q] = 0 /\ SumOver(store'.promised, PlacedOn(store', q)) = 0
    <3>1. /\ IsFiniteSet(PlacedOn(store, q)) /\ PlacedOn(store, q) \subseteq Requests
          /\ IsFiniteSet(PlacedOn(store', q)) /\ PlacedOn(store', q) \subseteq Requests
      BY FiniteUniverse DEF PlacedOn
    <3>. QED  BY <1>6, <2>1, <3>1, SumZero
  <2>5. store'.resident[q] = SumOver(store'.context, store'.decodes[q])
    <3>1. IsFiniteSet(store.decodes[q]) /\ IsFiniteSet(store'.decodes[q])
      BY <1>14, FiniteUniverse
    <3>2. SumOver(store'.context, store'.decodes[q]) = SumOver(store.context, store'.decodes[q])
      <4>1. \A x \in store'.decodes[q] : store'.context[x] = store.context[x]
        BY <1>4, <1>14
      <4>. QED  BY <3>1, <4>1, SumAgree
    <3>3. CASE r \in store.decodes[q]
      <4>1. q = p
        BY <1>3, <3>3
      <4>2. \A x \in store.decodes[q] : store.context[x] \in Int
        BY <1>1, <1>14 DEF Store
      <4>3. SumOver(store.context, store.decodes[q]) =
               store.context[r] + SumOver(store.context, store.decodes[q] \ {r})
        BY <3>1, <3>3, <4>2, SumRemove
      <4>4. SumOver(store.context, store.decodes[q] \ {r}) \in Int /\ store.context[r] \in Int
        BY <1>14, <3>1, <3>3, <4>2, SumType
      <4>5. store'.resident[q] = store.resident[q] - store.context[r]
        BY <1>8, <1>12, <3>3, <4>1
      <4>6. SumOver(store'.context, store'.decodes[q]) =
               SumOver(store.context, store.decodes[q] \ {r})
        BY <1>14, <3>2
      <4>7. store.resident[q] = store.context[r] + SumOver(store.context, store.decodes[q] \ {r})
        BY <2>1, <4>3
      <4>. QED  BY <4>4, <4>5, <4>6, <4>7
    <3>4. CASE r \notin store.decodes[q]
      <4>1. store'.decodes[q] = store.decodes[q]
        BY <1>14, <3>4
      <4>2. store'.resident[q] = store.resident[q]
        BY <1>8, <1>12, <3>4
      <4>. QED  BY <2>1, <3>2, <4>1, <4>2
    <3>. QED  BY <3>3, <3>4
  <2>6. /\ Cardinality(store'.decodes[q]) < ExactBelow =>
              store'.peak[q] >= ReachedPeak(store', store'.decodes[q])
        /\ few => store'.peak[q] <= store.peak[q]
    <3>1. \A x \in store'.decodes[q] : /\ store'.context[x] = store.context[x]
                                       /\ store'.remaining[x] = store.remaining[x]
      BY <1>4, <1>14
    <3>2. /\ store'.decodes[q] \in SUBSET store'.decodes[q]
          /\ store'.decodes[q] \in SUBSET store.decodes[q]
          /\ store'.decodes[q] \in SUBSET Requests
          /\ store.decodes[q] \in SUBSET Requests
      BY <1>14
    <3>3. ReachedPeak(store', store'.decodes[q]) <= ReachedPeak(store, store'.decodes[q])
      BY <1>1, <1>5, <3>1, <3>2, PeakOfPart
    <3>4. ReachedPeak(store, store'.decodes[q]) <= ReachedPeak(store, store.decodes[q])
      BY <1>1, <3>2, PeakOfPart
    <3>5. /\ ReachedPeak(store, store'.decodes[q]) \in Int
          /\ ProjectedPeak(store, store'.decodes[q]) \in Int
          /\ ProjectedPeak(store, store'.decodes[q]) <= ReachedPeak(store, store'.decodes[q])
          /\ Cardinality(store'.decodes[q]) < ExactBelow =>
               ProjectedPeak(store, store'.decodes[q]) = ReachedPeak(store, store'.decodes[q])
      BY <1>1, <3>2, PeakType, ProjectedIsReached, FewAreExact
    <3>6. CASE r \in store.decodes[q]
      <4>1. q = p
        BY <1>3, <3>6
      <4>2. store'.peak[q] = ProjectedPeak(store, store'.decodes[q])
        BY <1>8, <1>12, <1>14, <3>6, <4>1
      <4>. QED  BY <2>1, <2>3, <3>3, <3>4, <3>5, <4>2
    <3>7. CASE r \notin store.decodes[q]
      <4>1. store'.peak[q] = store.peak[q] /\ store'.decodes[q] = store.decodes[q]
        BY <1>8, <1>12, <1>14, <3>7
      <4>. QED  BY <2>1, <2>3, <3>3, <3>4, <3>5, <4>1
    <3>. QED  BY <3>6, <3>7
  <2>7. ASSUME few
        PROVE  store'.peak[q] + CacheUnits(store', q) <= Capacity
    <3>0. Cardinality(store'.decodes[q]) < ExactBelow
      <4>1. \A z \in Partitions : store'.decodes[z] \in SUBSET store.decodes[z]
        BY <1>14
      <4>2. FewDecodes(store')
        BY <1>1, <2>7, <4>1, FewerDecodes
      <4>. QED  BY <4>2 DEF FewDecodes
    <3>1. store.peak[q] + CacheUnits(store, q) <= Capacity
      BY <2>1, <2>2, <2>3, <2>4, <2>7
    <3>2. CASE HasSession(r) /\ q = p
      <4>1. store'.resident[q] <= store'.peak[q]
        <5>1. store'.decodes[q] \in SUBSET Requests
          BY <1>14
        <5>2. SumOver(store'.context, store'.decodes[q])
                <= ReachedPeak(store', store'.decodes[q])
              /\ SumOver(store'.context, store'.decodes[q]) \in Nat
          BY <1>5, <5>1, ResidentBounded
        <5>. QED  BY <2>3, <2>5, <2>6, <3>0, <5>2
      <4>2. /\ bare.resident[p] <= bare.peak[p] /\ bare.reserved[p] = 0
            /\ bare.heldUnits[p] = 0 /\ bare.peak[p] = store'.peak[q] /\ p = q
        BY <1>8, <1>12, <2>1, <2>4, <3>2, <4>1
      <4>3. bare.peak[p] + bare.reserved[p] + bare.heldUnits[p] <= Capacity
        BY <2>3, <2>6, <2>7, <3>1, <4>2
      <4>4. bare.peak[p] + bare.reserved[p] + bare.heldUnits[p] + SoftSlack(bare, p) = Capacity
        BY <1>2, <1>7, <4>2, <4>3, SoftSlackBound
      <4>5. SoftSlack(bare, p) \in Nat
        BY <1>2, <1>7, SoftSlackType
      <4>6. CacheUnits(store', q) <= SoftSlack(bare, p)
        BY <1>10, <3>2
      <4>. QED  BY <2>3, <4>2, <4>4, <4>5, <4>6
    <3>3. CASE ~(HasSession(r) /\ q = p)
      <4>1. store'.cache[q] = store.cache[q]
        BY <1>9, <1>10, <1>11, <3>3
      <4>2. CacheUnits(store', q) = CacheUnits(store, q)
        BY <4>1 DEF CacheUnits
      <4>. QED  BY <2>3, <2>6, <2>7, <3>1, <4>2
    <3>. QED  BY <3>2, <3>3
  <2>8. few => store'.peak[q] + store'.reserved[q] + CacheUnits(store', q)
                 + SumOver(Units, store'.admits[q]) <= Capacity
    BY <1>12, <2>2, <2>3, <2>4, <2>7
  <2>. QED  BY <1>12, <2>1, <2>4, <2>5, <2>6, <2>8 DEF Sound
<1>. QED  BY <1>13, <1>15 DEF RoomInv

\* complete_iteration in the terms of the store: every resident decode advances,
\* and some of the prefills begin to decode with the rest of their target.
LEMMA IterationSteps ==
    ASSUME IInv, CompleteIteration
    PROVE  \E begun, left :
              LET grown  == Advanced(store, ResidentOf(store))
                  joined == Committed(grown, begun, [r \in Requests |-> ContextOf(r)], left)
              IN  /\ begun \in SUBSET AdmitsOf(store)
                  /\ store' = ClearPrefillAdmits(joined)
                  /\ grown \in Store /\ joined \in Store
                  /\ \A r \in begun : left[r] = Target[r] - 1
                  /\ \A r \in ResidentOf(store) : store.remaining[r] > 0
<1> DEFINE live == UNION { LiveDecodes(store, p) : p \in Partitions }
           fresh == AdmitsOf(store)
           tokens == [r \in Requests |->
                        IF r \in live \cup fresh THEN emitted[r] + 1 ELSE emitted[r]]
           complete == { r \in live \cup fresh : IsComplete(r, tokens[r]) }
           left == [r \in Requests |-> OutputLeft(r, tokens[r])]
           prompts == [r \in Requests |-> ContextOf(r)]
           begun == fresh \ complete
           grown == Advanced(store, live)
           joined == Committed(grown, begun, prompts, left)
<1>1. phase = "computing" /\ store \in Store /\ store' = ClearPrefillAdmits(joined)
  BY DEF CompleteIteration, IInv, TypeOK
<1>2. finished = {}
  BY <1>1 DEF IInv, PhaseAgrees
<1>3. live = ResidentOf(store) /\ live \in SUBSET Requests
  BY <1>2, AllLive
<1>4. fresh \in SUBSET Requests /\ fresh \cap live = {}
  <2>1. fresh \in SUBSET Requests
    BY <1>1 DEF AdmitsOf, Store
  <2>2. fresh \cap live = {}
    BY <1>3 DEF IInv, OnePlace
  <2>. QED  BY <2>1, <2>2
<1>5. \A r \in live : store.remaining[r] > 0
  BY DEF LiveDecodes
<1>6. \A r \in fresh : emitted[r] = 0 /\ tokens[r] = 1 /\ Target[r] \in Nat
                       /\ left[r] = Target[r] - 1
  <2>1. ASSUME NEW r \in fresh
        PROVE  emitted[r] = 0 /\ r \in Requests /\ Target[r] \in Nat
    BY <1>2, <1>3, <1>4, WorkloadType DEF IInv, TypeOK, EmittedAgrees, OnePlace
  <2> HIDE DEF live, fresh
  <2>. QED  BY <2>1 DEF OutputLeft
<1> HIDE DEF live, fresh, tokens
<1>7. \A r \in begun : left[r] = Target[r] - 1 /\ left[r] \in Nat
  <2>1. \A r \in begun : r \in fresh /\ r \in Requests
    BY <1>4
  <2>2. \A r \in begun : Target[r] \in Nat /\ Target[r] > 0
    BY <2>1, WorkloadType
  <2> HIDE DEF left, begun
  <2>. QED  BY <1>6, <2>1, <2>2
<1>8. grown \in Store
  BY <1>1, <1>3, <1>5, AdvancedType
<1>9. joined \in Store
  <2>1. prompts \in [Requests -> Nat]
    BY WorkloadType
  <2> HIDE DEF grown, prompts, left, complete
  <2>. QED  BY <1>4, <1>7, <1>8, <2>1, CommittedType
<1>10. begun \in SUBSET AdmitsOf(store)
  BY DEF fresh
<1> HIDE DEF begun, left, complete
<1>11. WITNESS begun, left
<1>. QED  BY <1>1, <1>3, <1>5, <1>7, <1>8, <1>9, <1>10

\* The end of an iteration keeps it: a decode has grown by what the peak had
\* foreseen, and a prefill that joins needs no more than its promise.
LEMMA CompleteIterationRoom ==
    ASSUME IInv, NEW few \in BOOLEAN, RoomInv(few), few => FewDecodes(store),
           CompleteIteration
    PROVE  RoomInv(few)'
<1> DEFINE live == ResidentOf(store)
           prompts == [r \in Requests |-> ContextOf(r)]
           grown == Advanced(store, live)
<1>1. PICK begun, left :
         LET joined == Committed(grown, begun, prompts, left)
         IN  /\ begun \in SUBSET AdmitsOf(store)
             /\ store' = ClearPrefillAdmits(joined)
             /\ grown \in Store /\ joined \in Store
             /\ \A r \in begun : left[r] = Target[r] - 1
             /\ \A r \in live : store.remaining[r] > 0
  BY IterationSteps
<1> DEFINE joined == Committed(grown, begun, prompts, left)
           on(q) == begun \cap PlacedOn(store, q)
<1>0. begun \in SUBSET AdmitsOf(store)
  BY <1>1
<1>2. /\ phase = "computing" /\ store \in Store /\ live \in SUBSET Requests
      /\ begun \in SUBSET Requests
      /\ \A q \in Partitions : store.decodes[q] \subseteq live
  BY <1>0 DEF CompleteIteration, IInv, TypeOK, ResidentOf, AdmitsOf, Store
<1>3. begun \cap live = {}
  BY <1>0 DEF IInv, OnePlace
<1>4. /\ grown.promised = store.promised /\ grown.placement = store.placement
      /\ grown.decodes = store.decodes
      /\ grown.context = [r \in Requests |->
           IF r \in live THEN store.context[r] + 1 ELSE store.context[r]]
      /\ grown.remaining = [r \in Requests |->
           IF r \in live THEN store.remaining[r] - 1 ELSE store.remaining[r]]
      /\ \A q \in Partitions : grown.resident[q] =
           store.resident[q] + Cardinality(live \cap store.decodes[q])
      /\ grown.held = store.held /\ grown.heldOn = store.heldOn
      /\ grown.heldUnits = store.heldUnits
      /\ grown.reserved = store.reserved /\ grown.peak = store.peak
      /\ grown.cache = store.cache
  BY <1>2, AdvancedFields, AdvancedTotals
<1> HIDE DEF live, grown, prompts
<1>5. \A q \in Partitions : PlacedOn(grown, q) = PlacedOn(store, q)
  BY <1>4 DEF PlacedOn
<1>6. /\ joined.promised = [r \in Requests |-> IF r \in begun THEN 0 ELSE grown.promised[r]]
      /\ joined.placement = grown.placement
      /\ joined.decodes = [p \in Partitions |-> grown.decodes[p] \cup (begun \cap PlacedOn(grown, p))]
      /\ joined.context = [r \in Requests |-> IF r \in begun THEN prompts[r] ELSE grown.context[r]]
      /\ joined.remaining = [r \in Requests |-> IF r \in begun THEN left[r] ELSE grown.remaining[r]]
  BY <1>1, <1>2, CommittedFields
<1>7. /\ \A q \in Partitions :
            /\ joined.reserved[q] = grown.reserved[q] - SumOver(grown.promised, on(q))
            /\ joined.resident[q] = grown.resident[q] + SumOver(prompts, on(q))
            /\ on(q) = {} => joined.peak[q] = grown.peak[q]
            /\ on(q) # {} => joined.peak[q] = ProjectedPeak(joined, joined.decodes[q])
      /\ joined.held = grown.held /\ joined.heldOn = grown.heldOn
      /\ joined.heldUnits = grown.heldUnits
      /\ joined.cache = grown.cache
  BY <1>1, <1>5, CommittedTotals
<1>8. joined \in Store /\ store' = ClearPrefillAdmits(joined)
  BY <1>1
<1> HIDE DEF joined
<1>9. /\ store' \in Store
      /\ store'.promised = joined.promised /\ store'.placement = joined.placement
      /\ store'.admits = [p \in Partitions |-> {}]
      /\ store'.decodes = joined.decodes /\ store'.context = joined.context
      /\ store'.remaining = joined.remaining
      /\ store'.reserved = joined.reserved /\ store'.resident = joined.resident
      /\ store'.peak = joined.peak /\ store'.held = joined.held
      /\ store'.heldOn = joined.heldOn /\ store'.heldUnits = joined.heldUnits
      /\ store'.cache = joined.cache
  <2>1. /\ store' \in Store
        /\ store'.promised = joined.promised /\ store'.placement = joined.placement
        /\ store'.admits = [p \in Partitions |-> {}]
        /\ store'.decodes = joined.decodes /\ store'.context = joined.context
        /\ store'.remaining = joined.remaining
    BY <1>8, ClearPrefillAdmitsFields
  <2>2. /\ store'.reserved = joined.reserved /\ store'.resident = joined.resident
        /\ store'.peak = joined.peak /\ store'.held = joined.held
        /\ store'.heldOn = joined.heldOn /\ store'.heldUnits = joined.heldUnits
        /\ store'.cache = joined.cache
    BY <1>8 DEF ClearPrefillAdmits, Store
  <2>. QED  BY <2>1, <2>2
<1>10. \A r \in Requests : store.promised[r] = 0 /\ store'.promised[r] = 0
  <2>1. \A r \in Requests : store.promised[r] = 0
    BY <1>2 DEF IInv, PhaseAgrees, Promised, Store
  <2>. QED  BY <1>4, <1>6, <1>9, <2>1
<1>11. PromisesExact'
  BY <1>4, <1>7, <1>9, <1>10 DEF RoomInv, PromisesExact
<1>12. \A r \in live : /\ store'.context[r] = store.context[r] + 1
                       /\ store'.remaining[r] = store.remaining[r] - 1
                       /\ store.remaining[r] > 0
  BY <1>1, <1>2, <1>3, <1>4, <1>6, <1>9
<1>13. \A r \in begun : /\ store'.context[r] = prompts[r] /\ prompts[r] = ContextOf(r)
                        /\ store'.remaining[r] = Target[r] - 1
  BY <1>1, <1>2, <1>6, <1>9 DEF prompts
<1>14. \A q \in Partitions :
          /\ store'.decodes[q] = store.decodes[q] \cup on(q)
          /\ store.decodes[q] \cap on(q) = {}
          /\ on(q) \in SUBSET store.admits[q]
          /\ on(q) \in SUBSET Requests
          /\ store.decodes[q] \in SUBSET Requests /\ store.admits[q] \in SUBSET Requests
  <2>1. ASSUME NEW q \in Partitions PROVE on(q) \in SUBSET store.admits[q]
    BY <1>0 DEF PlacedOn, AdmitsOf, IInv, OnePlace
  <2>. QED  BY <1>2, <1>3, <1>4, <1>5, <1>6, <1>9, <2>1 DEF Store
<1> HIDE DEF on
<1>15. ASSUME NEW q \in Partitions
       PROVE  Sound(q, few)'
  <2>1. /\ store.reserved[q] = SumOver(store.promised, PlacedOn(store, q))
        /\ store.heldUnits[q] = 0
        /\ store.resident[q] = SumOver(store.context, store.decodes[q])
        /\ Cardinality(store.decodes[q]) < ExactBelow =>
              store.peak[q] >= ReachedPeak(store, store.decodes[q])
        /\ few => store.peak[q] >= ReachedPeak(store, store.decodes[q])
        /\ few => store.peak[q] + store.reserved[q] + CacheUnits(store, q)
                    + SumOver(Units, store.admits[q]) <= Capacity
    BY DEF RoomInv, Sound, FewDecodes
  <2>2. /\ IsFiniteSet(store.decodes[q]) /\ IsFiniteSet(on(q)) /\ IsFiniteSet(store.admits[q])
        /\ IsFiniteSet(store'.decodes[q])
        /\ IsFiniteSet(PlacedOn(store, q)) /\ PlacedOn(store, q) \subseteq Requests
        /\ IsFiniteSet(PlacedOn(store', q)) /\ PlacedOn(store', q) \subseteq Requests
    <3>1. store'.decodes[q] \in SUBSET Requests
      BY <1>14
    <3>. QED  BY <1>14, <3>1, FiniteUniverse DEF PlacedOn
  <2>3. /\ store.peak[q] \in Int /\ store.resident[q] \in Int /\ store.reserved[q] \in Int
        /\ CacheUnits(store, q) \in Nat /\ Capacity \in Nat
        /\ ReachedPeak(store, store.decodes[q]) \in Int
        /\ ReachedPeak(store', store'.decodes[q]) \in Int
        /\ SumOver(Units, store.admits[q]) \in Nat /\ SumOver(Units, on(q)) \in Nat
        /\ store'.peak[q] \in Int
    BY <1>2, <1>9, <1>14, SumsType
  <2>4. /\ store.reserved[q] = 0 /\ store'.reserved[q] = 0
        /\ SumOver(store'.promised, PlacedOn(store', q)) = 0
    <3>1. /\ SumOver(store.promised, PlacedOn(store, q)) = 0
          /\ SumOver(store'.promised, PlacedOn(store', q)) = 0
          /\ SumOver(store.promised, on(q)) = 0
      BY <1>10, <1>14, <2>2, SumZero
    <3>2. store'.reserved[q] = store.reserved[q] - SumOver(store.promised, on(q))
      BY <1>4, <1>7, <1>9
    <3>. QED  BY <2>1, <3>1, <3>2
  <2>5. store'.resident[q] = SumOver(store'.context, store'.decodes[q])
    <3> DEFINE ones == [r \in Requests |-> 1]
    <3>1. \A r \in store.decodes[q] : /\ store.context[r] \in Int /\ ones[r] = 1
                                      /\ store'.context[r] = store.context[r] + ones[r]
      BY <1>2, <1>12, <1>14 DEF Store
    <3>2. \A r \in store.decodes[q] \cup on(q) : store'.context[r] \in Int
      BY <1>9, <1>14 DEF Store
    <3> HIDE DEF ones
    <3>3. SumOver(ones, store.decodes[q]) = Cardinality(store.decodes[q])
      BY <2>2, <3>1, SumOnes
    <3>4. SumOver(store'.context, store.decodes[q]) =
             SumOver(store.context, store.decodes[q]) + SumOver(ones, store.decodes[q])
      BY <2>2, <3>1, SumAdd
    <3>5. SumOver(store'.context, on(q)) = SumOver(prompts, on(q))
      <4>1. \A r \in on(q) : store'.context[r] = prompts[r]
        BY <1>13 DEF on
      <4>. QED  BY <2>2, <4>1, SumAgree
    <3>6. SumOver(store'.context, store.decodes[q] \cup on(q)) =
             SumOver(store'.context, store.decodes[q]) + SumOver(store'.context, on(q))
      BY <1>14, <2>2, <3>2, SumUnion
    <3>7. live \cap store.decodes[q] = store.decodes[q]
      BY <1>2
    <3>8. store'.resident[q] = store.resident[q] + Cardinality(store.decodes[q])
                                 + SumOver(prompts, on(q))
      BY <1>4, <1>7, <1>9, <3>7
    <3>. QED  BY <1>14, <2>1, <3>3, <3>4, <3>5, <3>6, <3>8
  <2>6. ReachedPeak(store', store.decodes[q]) <= ReachedPeak(store, store.decodes[q])
        /\ ReachedPeak(store', store.decodes[q]) \in Int
    <3>1. \A r \in store.decodes[q] : /\ store.remaining[r] > 0
                                      /\ store'.context[r] = store.context[r] + 1
                                      /\ store'.remaining[r] = store.remaining[r] - 1
      BY <1>2, <1>12
    <3>. QED  BY <1>2, <1>9, <1>14, <3>1, PeakAfterStep, PeakType
  <2>7. /\ Cardinality(store'.decodes[q]) < ExactBelow =>
              store'.peak[q] >= ReachedPeak(store', store'.decodes[q])
        /\ few => store'.peak[q] <= store.peak[q] + SumOver(Units, on(q))
    <3>1. CASE on(q) = {}
      <4>1. store'.decodes[q] = store.decodes[q] /\ store'.peak[q] = store.peak[q]
        <5>1. store'.decodes[q] = store.decodes[q] \cup on(q)
          BY <1>14
        <5>2. store'.decodes[q] = store.decodes[q]
          BY <3>1, <5>1
        <5>3. joined.peak[q] = grown.peak[q]
          BY <1>7, <3>1
        <5>4. store'.peak[q] = store.peak[q]
          BY <1>4, <1>9, <5>3
        <5>. QED  BY <5>2, <5>4
      <4>. QED  BY <2>1, <2>3, <2>6, <4>1
    <3>2. CASE on(q) # {}
      <4>1. /\ store'.peak[q] <= ReachedPeak(store', store'.decodes[q])
            /\ Cardinality(store'.decodes[q]) < ExactBelow =>
                 store'.peak[q] = ReachedPeak(store', store'.decodes[q])
        <5>1. \A ds : ProjectedPeak(store', ds) = ProjectedPeak(joined, ds)
          BY <1>9, PeakCongruence
        <5>2. store'.peak[q] = ProjectedPeak(store', store'.decodes[q])
          BY <1>7, <1>9, <3>2, <5>1
        <5>3. store'.decodes[q] \in SUBSET Requests
          BY <1>14
        <5>. QED  BY <1>9, <5>2, <5>3, ProjectedIsReached, FewAreExact
      <4>2. \A r \in on(q) : /\ Units[r] \in Nat
                             /\ store'.context[r] + store'.remaining[r] <= Units[r]
        <5>1. ASSUME NEW r \in on(q)
              PROVE  /\ Units[r] \in Nat
                     /\ store'.context[r] + store'.remaining[r] <= Units[r]
          <6>1. r \in begun /\ r \in Requests
            BY <1>14 DEF on
          <6>2. ContextOf(r) \in Nat /\ Target[r] \in Nat
            BY <6>1, WorkloadType
          <6>3. Units[r] = ContextOf(r) + Target[r]
            BY <6>1 DEF Units, Footprint
          <6>. QED  BY <1>13, <6>1, <6>2, <6>3
        <5>. QED  BY <5>1
      <4>3. ReachedPeak(store', store.decodes[q] \cup on(q))
              <= ReachedPeak(store', store.decodes[q]) + SumOver(Units, on(q))
        BY <1>9, <1>14, <4>2, PeakOfJoined
      <4>4. store'.peak[q] <= ReachedPeak(store', store.decodes[q]) + SumOver(Units, on(q))
        <5>1. store'.decodes[q] = store.decodes[q] \cup on(q)
          BY <1>14
        <5>2. ReachedPeak(store', store'.decodes[q])
                <= ReachedPeak(store', store.decodes[q]) + SumOver(Units, on(q))
          BY <4>3, <5>1
        <5>. QED  BY <2>3, <2>6, <4>1, <5>2
      <4>. QED  BY <2>1, <2>3, <2>6, <4>1, <4>4
    <3>. QED  BY <3>1, <3>2
  <2>8. SumOver(Units, on(q)) <= SumOver(Units, store.admits[q])
    <3>1. \A r \in store.admits[q] : Units[r] \in Nat
      BY <1>14, FootprintType DEF Units
    <3>. QED  BY <1>14, <2>2, <3>1, SumSubset
  <2>9. SumOver(Units, store'.admits[q]) = 0
    BY <1>9, FS_EmptySet, SumZero
  <2>10. CacheUnits(store', q) = CacheUnits(store, q)
    BY <1>4, <1>7, <1>9 DEF CacheUnits
  <2>11. few => store'.peak[q] + store'.reserved[q] + CacheUnits(store', q)
                  + SumOver(Units, store'.admits[q]) <= Capacity
    BY <2>1, <2>3, <2>4, <2>7, <2>8, <2>9, <2>10
  <2>12. store'.heldUnits[q] = 0
    BY <1>4, <1>7, <1>9, <2>1
  <2>. QED  BY <2>4, <2>5, <2>7, <2>11, <2>12 DEF Sound
<1>. QED  BY <1>11, <1>15 DEF RoomInv

-----------------------------------------------------------------------------
(* Theorems. *)

\* Every step keeps it.
LEMMA StepRoom ==
    ASSUME IInv, NEW few \in BOOLEAN, RoomInv(few), few => FewDecodes(store), [Next]_vars
    PROVE  RoomInv(few)'
<1>1. CASE UNCHANGED vars
  BY <1>1, RoomKept DEF vars
<1>2. CASE \E r \in Requests : Enqueue(r)
  BY <1>2, RoomKept DEF Enqueue
<1>3. CASE BeginBatch
  BY <1>3, RoomKept DEF BeginBatch
<1>4. CASE \E r \in Requests : AdmitHead(r)
  BY <1>4, AdmitHeadRoom
<1>5. CASE CloseBatch
  BY <1>5, CloseBatchRoom
<1>6. CASE CompleteIteration
  BY <1>6, CompleteIterationRoom
<1>7. CASE \E r \in Requests : ReleaseFinished(r)
  BY <1>7, ReleaseFinishedRoom
<1>8. CASE Terminated
  BY <1>1, <1>8 DEF Terminated
<1>. QED  BY <1>1, <1>2, <1>3, <1>4, <1>5, <1>6, <1>7, <1>8 DEF Next, Tick

\* The totals that every insert and remove updates (request_ledger.rs,
\* resident_partition.rs) are the sums they stand for, and the cached peak of a
\* partition with fewer than twelve decodes is never below what they will reach.
THEOREM TotalsHold == Spec => []StoreTotalsAgree
<1>1. Init => RoomInv(FALSE)
  BY InitRoom
<1>2. IInv /\ RoomInv(FALSE) /\ [Next]_vars => (IInv /\ RoomInv(FALSE))'
  BY StepInv, StepRoom
<1>3. IInv /\ RoomInv(FALSE) => StoreTotalsAgree
  BY RoomIsEnough DEF IInv
<1>. QED  BY <1>1, <1>2, <1>3, InitInv, PTL DEF Spec

\* "Advancing never checks capacity itself" and need not, as long as no partition
\* has twelve decodes: what was admitted, what the decodes will grow to and the
\* retained prefixes fit every partition always.
THEOREM CapacityCorrect == Spec => ([]FewDecodes(store) => []CapacityHolds)
<1>1. Init => RoomInv(TRUE)
  BY InitRoom
<1>2. FewDecodes(store) /\ IInv /\ RoomInv(TRUE) /\ [Next]_vars => (IInv /\ RoomInv(TRUE))'
  BY StepInv, StepRoom
<1>3. IInv /\ RoomInv(TRUE) => CapacityHolds
  BY RoomIsEnough DEF IInv
<1>. QED  BY <1>1, <1>2, <1>3, InitInv, PTL DEF Spec

-----------------------------------------------------------------------------
(* The copies of a session. *)

\* The rounds of a session arrive along its chain.
RoundsInOrder == RoundsOrdered(arrived, done)

\* The copies of a session are counted, and what is retained is of a round that
\* is done.
CopiesAgree ==
    /\ SingleCopy
    /\ \A p \in Partitions : \A s \in Sessions : store.cache[p][s] > 0 =>
          \E r \in done : SessionOf[r] = s

SessionInv == RoundsInOrder /\ CopiesAgree

-----------------------------------------------------------------------------
(* The retained tier under the operations of the store. *)

\* The steps of an iteration leave the retained tier alone.
LEMMA IterationCache ==
    ASSUME NEW st \in Store, NEW live, NEW S, NEW tokens, NEW left
    PROVE  /\ DrainReady(st).cache = st.cache
           /\ ClearPrefillAdmits(Committed(Advanced(st, live), S, tokens, left)).cache
                = st.cache
           /\ ClearPrefillAdmits(Committed(Advanced(st, live), S, tokens, left)).placement
                = st.placement
<1>1. DrainReady(st).cache = st.cache
  BY DEF DrainReady, WithoutPromises, Store
<1>2. /\ Advanced(st, live).cache = st.cache
      /\ Advanced(st, live).placement = st.placement
      /\ DOMAIN Advanced(st, live) = DOMAIN st
  BY DEF Advanced, Store
<1> DEFINE grown == Advanced(st, live)
<1> HIDE DEF grown
<1>3. ASSUME DOMAIN grown = DOMAIN st
      PROVE  /\ Committed(grown, S, tokens, left).cache = grown.cache
             /\ Committed(grown, S, tokens, left).placement = grown.placement
             /\ DOMAIN Committed(grown, S, tokens, left) = DOMAIN st
  BY <1>3 DEF Committed, WithoutPromises, Store
<1>4. \A c : DOMAIN c = DOMAIN st =>
         ClearPrefillAdmits(c).cache = c.cache /\ ClearPrefillAdmits(c).placement = c.placement
  BY DEF ClearPrefillAdmits, Store
<1>. QED  BY <1>1, <1>2, <1>3, <1>4 DEF grown

-----------------------------------------------------------------------------
(* The order of arrival. *)

\* A session of which another round is done is entered by a later round.
LEMMA LaterRound ==
    ASSUME IInv, RoundsInOrder, NEW r \in arrived, r \notin done,
           NEW d \in done, SameSession(d, r)
    PROVE  Before[r] # NoRequest
<1>. SUFFICES ASSUME Before[r] = NoRequest PROVE FALSE
  OBVIOUS
<1>1. d \in arrived /\ d \in Requests /\ r \in Requests /\ d # r /\ done \subseteq Requests
  BY DEF IInv, OnePlace, TypeOK
<1>2. Before[d] # NoRequest
  BY <1>1, ChainAssumption DEF SameSession, HasSession
<1>3. PICK f \in done : SameSession(f, d) /\ Before[f] = NoRequest
  BY <1>1, <1>2 DEF RoundsInOrder, RoundsOrdered, SameSession, HasSession
<1>4. f \in Requests /\ f # r /\ SameSession(f, r)
  BY <1>1, <1>3 DEF SameSession, HasSession
<1>. QED  BY <1>1, <1>3, <1>4, ChainAssumption DEF SameSession, HasSession

\* accept_message keeps the order: the contract releases a round after the one
\* before it.
LEMMA EnqueueOrder ==
    ASSUME IInv, RoundsInOrder, NEW r \in Requests, Enqueue(r)
    PROVE  RoundsInOrder'
<1>1. /\ r \notin arrived /\ arrived' = arrived \cup {r} /\ done' = done
      /\ Before[r] \in done \cup {NoRequest}
      /\ done \subseteq arrived /\ arrived \subseteq Requests
  BY DEF Enqueue, IInv, OnePlace, TypeOK
<1>2. RoundsOrdered(arrived \cup {r}, done)
  <2>1. arrived \in SUBSET Requests /\ done \in SUBSET arrived /\ RoundsOrdered(arrived, done)
    BY <1>1 DEF RoundsInOrder
  <2>. QED  BY <1>1, <2>1, OrderExtends
<1>. QED  BY <1>1, <1>2 DEF RoundsInOrder

\* Every other step keeps it: nothing arrives, and what is done stays done.
LEMMA OrderKept ==
    ASSUME RoundsInOrder, arrived' = arrived, done \subseteq done'
    PROVE  RoundsInOrder'
BY DEF RoundsInOrder, RoundsOrdered

-----------------------------------------------------------------------------
(* The copies. *)

\* The copies of a session and the rounds of it in the store, that SingleCopy
\* counts.
Copies(st, s) == { p \in Partitions : st.cache[p][s] > 0 }
Active(st, s) == { r \in Requests : SessionOf[r] = s /\ st.placement[r] # NoPartition }

\* What is counted can be counted.
LEMMA CountsType ==
    ASSUME NEW st \in Store, NEW s \in Sessions
    PROVE  /\ Copies(st, s) \in SUBSET Partitions /\ Active(st, s) \in SUBSET Requests
           /\ IsFiniteSet(Copies(st, s)) /\ IsFiniteSet(Active(st, s))
           /\ Cardinality(Copies(st, s)) \in Nat /\ Cardinality(Active(st, s)) \in Nat
<1>1. Copies(st, s) \in SUBSET Partitions /\ Active(st, s) \in SUBSET Requests
  BY DEF Copies, Active
<1>2. IsFiniteSet(Copies(st, s)) /\ IsFiniteSet(Active(st, s))
  BY <1>1, FiniteUniverse, FS_Subset
<1>. QED  BY <1>1, <1>2, FS_CardinalityType

\* Rounds that were started blank stay counted.
LEMMA BlankStays ==
    ASSUME IInv, NEW s \in Sessions, (arrived \ pending) \subseteq (arrived' \ pending'),
           arrived' \subseteq Requests
    PROVE  /\ StartedBlank(s) \subseteq StartedBlank(s)'
           /\ IsFiniteSet(StartedBlank(s)) /\ IsFiniteSet(StartedBlank(s)')
           /\ Cardinality(StartedBlank(s)) \in Nat /\ Cardinality(StartedBlank(s)') \in Nat
           /\ Cardinality(StartedBlank(s)) <= Cardinality(StartedBlank(s)')
<1>1. StartedBlank(s) \subseteq StartedBlank(s)'
  BY DEF StartedBlank
<1>2. StartedBlank(s) \subseteq Requests /\ StartedBlank(s)' \subseteq Requests
  BY DEF StartedBlank, IInv, TypeOK
<1>3. IsFiniteSet(StartedBlank(s)) /\ IsFiniteSet(StartedBlank(s)')
  BY <1>2, FiniteUniverse
<1>. QED  BY <1>1, <1>3, FS_Subset, FS_CardinalityType

\* A round of a session that is retained somewhere is a later one.
LEMMA RetainedIsFollowed ==
    ASSUME IInv, SessionInv, NEW r \in pending, HasSession(r),
           NEW p \in Partitions, store.cache[p][SessionOf[r]] > 0
    PROVE  Before[r] # NoRequest
<1>1. /\ r \in Requests /\ SessionOf[r] \in Sessions /\ r \in arrived /\ r \notin done
  BY WorkloadType DEF IInv, TypeOK, OnePlace, HasSession
<1>2. PICK d \in done : SessionOf[d] = SessionOf[r]
  BY <1>1 DEF SessionInv, CopiesAgree
<1>. QED  BY <1>1, <1>2, LaterRound DEF SessionInv, SameSession

\* No partition retains more of the declared prefix than the chosen one.
LEMMA SentToLongest ==
    ASSUME IInv, NEW r \in Requests, HasSession(r)
    PROVE  \A p \in Partitions :
              Peek(store, p, r) <= Peek(store, ChoosePrefillPartition(r), r)
<1>1. store \in Store
  BY DEF IInv, TypeOK
<1>2. ChoosePrefillPartition(r) \in Partitions
  BY ChosenType DEF IInv
<1>3. \A p \in Partitions : Peek(store, p, r) \in Nat
  BY <1>1, PeekType
<1>4. CASE \A p \in Partitions : Peek(store, p, r) = 0
  BY <1>2, <1>4
<1>5. ASSUME NEW q \in Partitions, Peek(store, q, r) # 0
      PROVE  \A p \in Partitions :
                Peek(store, p, r) <= Peek(store, ChoosePrefillPartition(r), r)
  <2> DEFINE owner == RetainedPrefixPartition(store, r)
  <2>1. owner \in Partitions /\ \A p \in Partitions : Peek(store, p, r) <= Peek(store, owner, r)
    BY <1>1, <1>5, RetainedPrefixPartitionType
  <2>2. owner # NoPartition
    BY <2>1, StoreAssumption DEF Partitions
  <2> HIDE DEF owner
  <2>3. ChoosePrefillPartition(r) = owner
    BY <2>2 DEF ChoosePrefillPartition, owner
  <2>. QED  BY <2>1, <2>3
<1>. QED  BY <1>4, <1>5

\* A round that declares a prefix is sent to a copy, if there is one.
LEMMA SentToCopy ==
    ASSUME IInv, NEW r \in Requests, HasSession(r), Declared[r] > 0,
           NEW p \in Partitions, store.cache[p][SessionOf[r]] > 0
    PROVE  ChoosePrefillPartition(r) \in Copies(store, SessionOf[r])
<1> DEFINE s == SessionOf[r]
           c == ChoosePrefillPartition(r)
<1>1. /\ s \in Sessions /\ store \in Store /\ c \in Partitions /\ Declared[r] \in Nat
  BY ChosenType, WorkloadType DEF IInv, TypeOK, HasSession
<1>2. Peek(store, p, r) <= Peek(store, c, r)
  BY SentToLongest
<1>3. store.cache[p][s] \in Nat /\ store.cache[c][s] \in Nat
  BY <1>1 DEF Store
<1> HIDE DEF c
<1>4. Peek(store, p, r) > 0 /\ Peek(store, c, r) <= store.cache[c][s]
      /\ Peek(store, p, r) \in Nat /\ Peek(store, c, r) \in Nat
  BY <1>1, <1>3 DEF Peek, Smaller
<1>5. store.cache[c][s] > 0
  BY <1>2, <1>3, <1>4
<1>. QED  BY <1>1, <1>5 DEF Copies, c

\* A round that the store places has arrived and is not done.
LEMMA PlacedIsActive ==
    ASSUME IInv, NEW r \in Requests, store.placement[r] # NoPartition
    PROVE  r \in arrived /\ r \notin done /\ r \notin pending
BY DEF IInv, OnePlace

\* reserve_prefill_context places its request, and a release its own.
LEMMA Placements ==
    ASSUME NEW st \in Store, NEW r \in Requests, NEW p \in Partitions
    PROVE  /\ \A units \in Nat : \A new \in ReservedPrefill(st, r, p, units) :
                 \A q \in Requests :
                    new.placement[q] = IF q = r THEN p ELSE st.placement[q]
           /\ \A new \in ReleasedRetainingPrefix(st, r, p) : \A q \in Requests :
                 new.placement[q] = IF q = r THEN NoPartition ELSE st.placement[q]
<1>1. ASSUME NEW units \in Nat, NEW new \in ReservedPrefill(st, r, p, units),
             NEW q \in Requests
      PROVE  new.placement[q] = IF q = r THEN p ELSE st.placement[q]
  <2>1. /\ new.promised = [st.promised EXCEPT ![r] = units]
        /\ new.placement = [st.placement EXCEPT ![r] = p]
        /\ new.admits = st.admits /\ new.decodes = st.decodes
        /\ new.context = st.context /\ new.remaining = st.remaining
    BY <1>1, PromiseFields
  <2>. QED  BY <2>1 DEF Store
<1>2. ASSUME NEW new \in ReleasedRetainingPrefix(st, r, p), NEW q \in Requests
      PROVE  new.placement[q] = IF q = r THEN NoPartition ELSE st.placement[q]
  <2>1. /\ new.placement = [st.placement EXCEPT ![r] = NoPartition]
        /\ new.promised = [st.promised EXCEPT ![r] = 0]
        /\ new.admits = st.admits
        /\ new.decodes = [st.decodes EXCEPT ![p] = st.decodes[p] \ {r}]
        /\ \A x \in Requests \ {r} : /\ new.context[x] = st.context[x]
                                     /\ new.remaining[x] = st.remaining[x]
    BY <1>2, ReleasedRetainingPrefixFields
  <2>. QED  BY <2>1 DEF Store
<1>. QED  BY <1>1, <1>2

\* Of the rounds of a session one at most is undone, so one at most is placed.
LEMMA OneActive ==
    ASSUME IInv, SessionInv, NEW r \in arrived, r \notin done, HasSession(r),
           NEW q \in Active(store, SessionOf[r])
    PROVE  q = r
<1>1. q \in Requests /\ SessionOf[q] = SessionOf[r] /\ store.placement[q] # NoPartition
  BY DEF Active
<1>2. q \in arrived /\ q \notin done
  BY <1>1, PlacedIsActive
<1>3. arrived \in SUBSET Requests /\ RoundsOrdered(arrived, done)
  BY DEF IInv, TypeOK, SessionInv, RoundsInOrder
<1>4. SameSession(q, r)
  BY <1>1 DEF SameSession
<1>. QED  BY <1>2, <1>3, <1>4, OneUndone

\* Steps that leave the retained tier and the placements alone keep the copies.
LEMMA CopiesKept ==
    ASSUME IInv, CopiesAgree, done \subseteq done',
           (arrived \ pending) \subseteq (arrived' \ pending'), arrived' \subseteq Requests,
           store'.cache = store.cache, store'.placement = store.placement
    PROVE  CopiesAgree'
<1>1. \A p \in Partitions : \A s \in Sessions : store'.cache[p][s] > 0 =>
          \E r \in done' : SessionOf[r] = s
  BY DEF CopiesAgree
<1>2. ASSUME NEW s \in Sessions
      PROVE  Cardinality(Copies(store', s)) + Cardinality(Active(store', s))
               <= 1 + Cardinality(StartedBlank(s)')
  <2>1. Copies(store', s) = Copies(store, s) /\ Active(store', s) = Active(store, s)
    BY DEF Copies, Active
  <2>2. Cardinality(Copies(store, s)) + Cardinality(Active(store, s))
           <= 1 + Cardinality(StartedBlank(s))
    BY DEF CopiesAgree, SingleCopy, Copies, Active
  <2>3. store \in Store
    BY DEF IInv, TypeOK
  <2>. QED  BY <2>1, <2>2, <2>3, BlankStays, CountsType
<1>3. SingleCopy'
  BY <1>2 DEF SingleCopy, Copies, Active
<1>. QED  BY <1>1, <1>3 DEF CopiesAgree

\* An admission keeps them: it takes a copy of its session with it, or the round
\* did not look for one and is counted.
LEMMA AdmitHeadCopies ==
    ASSUME IInv, SessionInv, NEW r \in Requests, AdmitHead(r)
    PROVE  CopiesAgree'
<1> DEFINE p == ChoosePrefillPartition(r)
           units == Footprint(ContextOf(r), Target[r])
<1>1. /\ p \in Partitions /\ units \in Nat /\ r \in pending /\ store \in Store
      /\ store' \in ReservedPrefill(store, r, p, units)
      /\ done' = done /\ arrived' = arrived /\ pending' = pending \ {r}
  BY ChosenType, FootprintType DEF IInv, TypeOK, AdmitHead, IsHead
<1>2. r \in arrived /\ r \notin done /\ arrived \subseteq Requests /\ store.placement[r] = NoPartition
  BY <1>1 DEF IInv, OnePlace, TypeOK
<1>3. ASSUME HasSession(r), Declared[r] > 0, NEW q \in Copies(store, SessionOf[r])
      PROVE  p \in Copies(store, SessionOf[r])
  BY <1>3, SentToCopy DEF Copies
<1> HIDE DEF p, units
<1>4. store' \in Store
  BY <1>1, ReservedPrefillType
<1>5. /\ OnlyEvicted(store'.cache, store.cache)
      /\ HasSession(r) => store'.cache[p][SessionOf[r]] = 0
  BY <1>1, ReservedPrefillEvicts
<1>6. \A q \in Requests : store'.placement[q] = IF q = r THEN p ELSE store.placement[q]
  BY <1>1, Placements
<1>7. \A q \in Partitions : \A s \in Sessions :
         store.cache[q][s] \in Nat /\ store'.cache[q][s] \in {0, store.cache[q][s]}
  BY <1>1, <1>5 DEF OnlyEvicted, Store
<1>8. \A x \in Partitions : \A s \in Sessions : store'.cache[x][s] > 0 =>
          \E q \in done' : SessionOf[q] = s
  BY <1>1, <1>7 DEF SessionInv, CopiesAgree
<1>9. ASSUME NEW s \in Sessions
      PROVE  Cardinality(Copies(store', s)) + Cardinality(Active(store', s))
               <= 1 + Cardinality(StartedBlank(s)')
  <2>1. /\ Copies(store, s) \in SUBSET Partitions
        /\ IsFiniteSet(Copies(store, s)) /\ IsFiniteSet(Active(store, s))
        /\ Cardinality(Copies(store, s)) \in Nat /\ Cardinality(Active(store, s)) \in Nat
        /\ Cardinality(Copies(store', s)) \in Nat /\ Cardinality(Active(store', s)) \in Nat
    BY <1>1, <1>4, CountsType
  <2>2. /\ Copies(store', s) \subseteq Copies(store, s)
        /\ Cardinality(Copies(store', s)) <= Cardinality(Copies(store, s))
    <3>1. Copies(store', s) \subseteq Copies(store, s)
      BY <1>7 DEF Copies
    <3>. QED  BY <2>1, <3>1, FS_Subset
  <2>3. Cardinality(Copies(store, s)) + Cardinality(Active(store, s))
           <= 1 + Cardinality(StartedBlank(s))
    BY DEF SessionInv, CopiesAgree, SingleCopy, Copies, Active
  <2>4. /\ IsFiniteSet(StartedBlank(s)) /\ Cardinality(StartedBlank(s)) \in Nat
        /\ Cardinality(StartedBlank(s)') \in Nat
        /\ Cardinality(StartedBlank(s)) <= Cardinality(StartedBlank(s)')
    BY <1>1, <1>2, BlankStays
  <2>5. CASE s # SessionOf[r]
    <3>1. Active(store', s) = Active(store, s)
      BY <1>6, <2>5 DEF Active
    <3>. QED  BY <2>1, <2>2, <2>3, <2>4, <3>1
  <2>6. CASE s = SessionOf[r]
    <3>1. HasSession(r)
      BY <2>6, WorkloadAssumption DEF HasSession
    <3>2. Active(store, s) = {}
      BY <1>2, <2>6, <3>1, OneActive DEF Active
    <3>3. Active(store', s) = {r}
      <4>1. p # NoPartition
        BY <1>1, StoreAssumption DEF Partitions
      <4>. QED  BY <1>6, <2>6, <3>2, <4>1 DEF Active
    <3>4. Cardinality(Active(store', s)) = 1 /\ Cardinality(Active(store, s)) = 0
      BY <3>2, <3>3, FS_EmptySet, FS_Singleton
    <3>5. CASE Copies(store, s) = {}
      <4>1. Cardinality(Copies(store, s)) = 0
        BY <3>5, FS_EmptySet
      <4>. QED  BY <2>1, <2>2, <2>4, <3>4, <4>1
    <3>6. ASSUME NEW q \in Copies(store, s), Declared[r] > 0
          PROVE  Cardinality(Copies(store', s)) + Cardinality(Active(store', s))
                   <= 1 + Cardinality(StartedBlank(s)')
      <4>1. p \in Copies(store, s)
        BY <1>3, <2>6, <3>1, <3>6
      <4>2. Copies(store', s) \subseteq Copies(store, s) \ {p}
        BY <1>5, <2>2, <2>6, <3>1 DEF Copies
      <4>3. /\ IsFiniteSet(Copies(store, s) \ {p})
            /\ Cardinality(Copies(store, s) \ {p}) = Cardinality(Copies(store, s)) - 1
        BY <2>1, <4>1, FS_RemoveElement
      <4>4. Cardinality(Copies(store', s)) <= Cardinality(Copies(store, s)) - 1
        BY <4>2, <4>3, FS_Subset
      <4>. QED  BY <2>1, <2>3, <2>4, <3>4, <4>4
    <3>7. ASSUME NEW q \in Copies(store, s), ~(Declared[r] > 0)
          PROVE  Cardinality(Copies(store', s)) + Cardinality(Active(store', s))
                   <= 1 + Cardinality(StartedBlank(s)')
      <4>1. Before[r] # NoRequest /\ Declared[r] = 0
        <5>1. q \in Partitions /\ store.cache[q][SessionOf[r]] > 0
          BY <2>6 DEF Copies
        <5>. QED  BY <1>1, <3>1, <3>7, <5>1, RetainedIsFollowed, WorkloadType
      <4>2. StartedBlank(s)' = StartedBlank(s) \cup {r} /\ r \notin StartedBlank(s)
        BY <1>1, <1>2, <2>6, <4>1 DEF StartedBlank
      <4>3. Cardinality(StartedBlank(s)') = Cardinality(StartedBlank(s)) + 1
        BY <2>4, <4>2, FS_AddElement
      <4>. QED  BY <2>1, <2>2, <2>3, <2>4, <3>4, <4>3
    <3>. QED  BY <3>5, <3>6, <3>7
  <2>. QED  BY <2>5, <2>6
<1>10. SingleCopy'
  BY <1>9 DEF SingleCopy, Copies, Active
<1>. QED  BY <1>8, <1>10 DEF CopiesAgree

\* A release keeps them: the round becomes the copy it leaves behind, and is done.
LEMMA ReleaseFinishedCopies ==
    ASSUME IInv, SessionInv, NEW r \in Requests, ReleaseFinished(r)
    PROVE  CopiesAgree'
<1> DEFINE p == store.placement[r]
<1>1. /\ r \in finished /\ store \in Store
      /\ store' \in ReleasedRetainingPrefix(store, r, p)
      /\ done' = done \cup {r} /\ arrived' = arrived /\ pending' = pending
      /\ arrived \subseteq Requests
  BY DEF ReleaseFinished, IInv, TypeOK
<1>2. p \in Partitions /\ p # NoPartition
  BY <1>1, StoreAssumption DEF IInv, OnePlace, Store, Partitions
<1> HIDE DEF p
<1>3. store' \in Store
  BY <1>1, <1>2, ReleasedRetainingPrefixType
<1>4. \A q \in Partitions : \A s \in Sessions :
         \/ store'.cache[q][s] \in {0, store.cache[q][s]}
         \/ HasSession(r) /\ q = p /\ s = SessionOf[r]
  BY <1>1, <1>2, ReleasedRetainingEvicts
<1>5. \A q \in Requests : store'.placement[q] =
         IF q = r THEN NoPartition ELSE store.placement[q]
  BY <1>1, <1>2, Placements
<1>6. \A q \in Partitions : \A s \in Sessions : store.cache[q][s] \in Nat
  BY <1>1 DEF Store
<1>7. \A x \in Partitions : \A s \in Sessions : store'.cache[x][s] > 0 =>
          \E q \in done' : SessionOf[q] = s
  BY <1>1, <1>4, <1>6 DEF SessionInv, CopiesAgree
<1>8. ASSUME NEW s \in Sessions
      PROVE  Cardinality(Copies(store', s)) + Cardinality(Active(store', s))
               <= 1 + Cardinality(StartedBlank(s)')
  <2>1. /\ IsFiniteSet(Copies(store, s)) /\ IsFiniteSet(Active(store, s))
        /\ Cardinality(Copies(store, s)) \in Nat /\ Cardinality(Active(store, s)) \in Nat
        /\ Cardinality(Copies(store', s)) \in Nat /\ Cardinality(Active(store', s)) \in Nat
    BY <1>1, <1>3, CountsType
  <2>2. Cardinality(Copies(store, s)) + Cardinality(Active(store, s))
           <= 1 + Cardinality(StartedBlank(s))
    BY DEF SessionInv, CopiesAgree, SingleCopy, Copies, Active
  <2>3. /\ Cardinality(StartedBlank(s)) \in Nat /\ Cardinality(StartedBlank(s)') \in Nat
        /\ Cardinality(StartedBlank(s)) <= Cardinality(StartedBlank(s)')
    BY <1>1, BlankStays
  <2>4. CASE s # SessionOf[r]
    <3>1. Active(store', s) = Active(store, s)
      BY <1>5, <2>4 DEF Active
    <3>2. Copies(store', s) \subseteq Copies(store, s)
      BY <1>4, <1>6, <2>4 DEF Copies
    <3>3. Cardinality(Copies(store', s)) <= Cardinality(Copies(store, s))
      BY <2>1, <3>2, FS_Subset
    <3>. QED  BY <2>1, <2>2, <2>3, <3>1, <3>3
  <2>5. CASE s = SessionOf[r]
    <3>1. Active(store', s) = Active(store, s) \ {r} /\ r \in Active(store, s)
      BY <1>2, <1>5, <2>5 DEF Active, p
    <3>2. Cardinality(Active(store', s)) = Cardinality(Active(store, s)) - 1
      BY <2>1, <3>1, FS_RemoveElement
    <3>3. Copies(store', s) \subseteq Copies(store, s) \cup {p}
      BY <1>4, <1>6 DEF Copies
    <3>4. /\ IsFiniteSet(Copies(store, s) \cup {p})
          /\ Cardinality(Copies(store, s) \cup {p}) <= Cardinality(Copies(store, s)) + 1
          /\ Cardinality(Copies(store, s) \cup {p}) \in Nat
      <4>1. /\ IsFiniteSet(Copies(store, s) \cup {p})
            /\ Cardinality(Copies(store, s) \cup {p}) =
                 IF p \in Copies(store, s) THEN Cardinality(Copies(store, s))
                                          ELSE Cardinality(Copies(store, s)) + 1
        BY <2>1, FS_AddElement
      <4>. QED  BY <2>1, <4>1
    <3>5. Cardinality(Copies(store', s)) <= Cardinality(Copies(store, s) \cup {p})
      BY <3>3, <3>4, FS_Subset
    <3>. QED  BY <2>1, <2>2, <2>3, <3>2, <3>4, <3>5
  <2>. QED  BY <2>4, <2>5
<1>9. SingleCopy'
  BY <1>8 DEF SingleCopy, Copies, Active
<1>. QED  BY <1>7, <1>9 DEF CopiesAgree

\* The first state has no copy, and nothing has arrived.
LEMMA InitSession == Init => SessionInv
<1>. SUFFICES ASSUME Init PROVE SessionInv
  OBVIOUS
<1>1. /\ arrived = {} /\ done = {}
      /\ \A p \in Partitions : \A s \in Sessions : store.cache[p][s] = 0
      /\ \A r \in Requests : store.placement[r] = NoPartition
  BY DEF Init, EmptyStore
<1>2. RoundsInOrder
  BY <1>1 DEF RoundsInOrder, RoundsOrdered
<1>3. ASSUME NEW s \in Sessions
      PROVE  Cardinality(Copies(store, s)) + Cardinality(Active(store, s))
               <= 1 + Cardinality(StartedBlank(s))
  <2>1. Copies(store, s) = {} /\ Active(store, s) = {} /\ StartedBlank(s) = {}
    BY <1>1 DEF Copies, Active, StartedBlank
  <2>2. Cardinality({}) = 0
    BY FS_EmptySet
  <2>. QED  BY <2>1, <2>2
<1>4. SingleCopy
  BY <1>3 DEF SingleCopy, Copies, Active
<1>. QED  BY <1>1, <1>2, <1>4 DEF SessionInv, CopiesAgree

\* Every step keeps the order and the copies.
LEMMA StepSession ==
    ASSUME IInv, SessionInv, [Next]_vars
    PROVE  SessionInv'
<1>0. arrived \subseteq Requests
  BY DEF IInv, TypeOK
<1>1. CASE UNCHANGED vars
  <2>1. UNCHANGED << arrived, pending, store, done >>
    BY <1>1 DEF vars
  <2>. QED  BY <1>0, <2>1, OrderKept, CopiesKept DEF SessionInv
<1>2. ASSUME NEW r \in Requests, Enqueue(r)
      PROVE  SessionInv'
  <2>1. /\ UNCHANGED << store, done >> /\ arrived' \subseteq Requests
        /\ (arrived \ pending) \subseteq (arrived' \ pending')
    BY <1>2 DEF Enqueue, IInv, OnePlace, TypeOK
  <2>. QED  BY <1>0, <1>2, <2>1, EnqueueOrder, CopiesKept DEF SessionInv
<1>3. CASE BeginBatch
  <2>1. UNCHANGED << arrived, pending, store, done >>
    BY <1>3 DEF BeginBatch
  <2>. QED  BY <1>0, <2>1, OrderKept, CopiesKept DEF SessionInv
<1>4. ASSUME NEW r \in Requests, AdmitHead(r)
      PROVE  SessionInv'
  <2>1. UNCHANGED << arrived, done >>
    BY <1>4 DEF AdmitHead
  <2>. QED  BY <1>4, <2>1, OrderKept, AdmitHeadCopies DEF SessionInv
<1>5. CASE CloseBatch
  <2>1. UNCHANGED << arrived, pending, done >> /\ store' = DrainReady(store) /\ store \in Store
    BY <1>5 DEF CloseBatch, IInv, TypeOK
  <2>2. store'.cache = store.cache /\ store'.placement = store.placement
    BY <2>1, IterationCache, DrainReadyFields
  <2>. QED  BY <1>0, <2>1, <2>2, OrderKept, CopiesKept DEF SessionInv
<1>6. CASE CompleteIteration
  <2>1. UNCHANGED << arrived, pending, done >> /\ store \in Store
    BY <1>6 DEF CompleteIteration, IInv, TypeOK
  <2>2. PICK live, S, tokens, left :
           store' = ClearPrefillAdmits(Committed(Advanced(store, live), S, tokens, left))
    BY <1>6 DEF CompleteIteration
  <2>3. store'.cache = store.cache /\ store'.placement = store.placement
    BY <2>1, <2>2, IterationCache
  <2>. QED  BY <1>0, <2>1, <2>3, OrderKept, CopiesKept DEF SessionInv
<1>7. ASSUME NEW r \in Requests, ReleaseFinished(r)
      PROVE  SessionInv'
  <2>1. arrived' = arrived /\ done \subseteq done'
    BY <1>7 DEF ReleaseFinished
  <2>. QED  BY <1>7, <2>1, OrderKept, ReleaseFinishedCopies DEF SessionInv
<1>8. CASE Terminated
  BY <1>1, <1>8 DEF Terminated
<1>. QED  BY <1>1, <1>2, <1>3, <1>4, <1>5, <1>6, <1>7, <1>8 DEF Next, Tick

-----------------------------------------------------------------------------
(* Theorems. *)

\* The order and the copies hold in every state of every worker.
LEMMA SessionInvariance == Spec => [](IInv /\ SessionInv)
<1>1. IInv /\ SessionInv /\ [Next]_vars => (IInv /\ SessionInv)'
  BY StepInv, StepSession
<1>. QED  BY <1>1, InitInv, InitSession, PTL DEF Spec

\* A session's KV exists once, on whichever partition its last round left it or
\* its current one runs (reserve_prefill_context, release_retaining_prefix), and
\* once more for every later round that was started without a declared prefix.
THEOREM SingleCopyHolds == Spec => []SingleCopy
<1>1. SessionInv => SingleCopy
  BY DEF SessionInv, CopiesAgree
<1>. QED  BY <1>1, SessionInvariance, PTL

\* Retained KV is a hard affinity (local_prefill_decode_admission.rs): no step
\* places a round elsewhere than where the copy of its session is retained, or,
\* once rounds without a declared prefix may have left several, where less of
\* its own prefix is.
THEOREM AffinityCorrect == Spec => AffinityHolds
<1>1. ASSUME IInv, SessionInv, [Next]_vars,
             NEW r \in Requests, HasSession(r), store.placement[r] = NoPartition,
             store'.placement[r] # NoPartition,
             NEW p \in Partitions, store.cache[p][SessionOf[r]] > 0
      PROVE  \/ p = store'.placement[r]
             \/ /\ StartedBlank(SessionOf[r])' # {}
                /\ Peek(store, p, r) <= Peek(store, store'.placement[r], r)
  <2>1. store \in Store
    BY <1>1 DEF IInv, TypeOK
  <2>2. store' # store
    BY <1>1
  <2>3. ASSUME NEW q \in Requests, AdmitHead(q)
        PROVE  \/ p = store'.placement[r]
               \/ /\ StartedBlank(SessionOf[r])' # {}
                  /\ Peek(store, p, r) <= Peek(store, store'.placement[r], r)
    <3> DEFINE c == ChoosePrefillPartition(q)
               units == Footprint(ContextOf(q), Target[q])
               s == SessionOf[r]
    <3>1. /\ c \in Partitions /\ units \in Nat /\ q \in pending
          /\ store' \in ReservedPrefill(store, q, c, units)
          /\ arrived' = arrived /\ pending' = pending \ {q}
      BY <1>1, <2>3, ChosenType, FootprintType DEF IInv, TypeOK, AdmitHead, IsHead
    <3> HIDE DEF c, units
    <3>2. store'.placement[r] = IF r = q THEN c ELSE store.placement[r]
      BY <2>1, <3>1, Placements
    <3>3. q = r /\ store'.placement[r] = c
      BY <1>1, <3>2
    <3>4. s \in Sessions /\ p \in Copies(store, s)
      BY <1>1, WorkloadType DEF HasSession, Copies
    <3>5. Peek(store, p, r) <= Peek(store, c, r)
      BY <1>1, <3>3, SentToLongest DEF c
    <3>6. CASE StartedBlank(s)' # {}
      BY <3>3, <3>5, <3>6
    <3>7. CASE StartedBlank(s)' = {}
      <4>1. r \in arrived /\ arrived \subseteq Requests
        BY <1>1, <3>1, <3>3 DEF IInv, OnePlace, TypeOK
      <4>2. StartedBlank(s) = {}
        BY <3>1, <3>7 DEF StartedBlank
      <4>3. Before[r] # NoRequest
        BY <1>1, <3>1, <3>3, RetainedIsFollowed
      <4>4. Declared[r] > 0
        <5>1. Declared[r] # 0
          BY <3>1, <3>3, <3>7, <4>1, <4>3 DEF StartedBlank
        <5>. QED  BY <5>1, WorkloadType
      <4>5. c \in Copies(store, s)
        BY <1>1, <3>3, <4>4, SentToCopy DEF c
      <4>6. Cardinality(Copies(store, s)) + Cardinality(Active(store, s))
               <= 1 + Cardinality(StartedBlank(s))
        BY <1>1, <3>4 DEF SessionInv, CopiesAgree, SingleCopy, Copies, Active
      <4>7. /\ IsFiniteSet(Copies(store, s)) /\ Cardinality(Copies(store, s)) \in Nat
            /\ Cardinality(Active(store, s)) \in Nat
        BY <2>1, <3>4, CountsType
      <4>8. Cardinality(Copies(store, s)) = 0 \/ Cardinality(Copies(store, s)) = 1
        <5>1. Cardinality({}) = 0
          BY FS_EmptySet
        <5>. QED  BY <4>2, <4>6, <4>7, <5>1
      <4>9. \E x : Copies(store, s) = {x}
        BY <3>4, <4>7, <4>8, FS_EmptySet, FS_Singleton
      <4>. QED  BY <3>3, <3>4, <4>5, <4>9
    <3>. QED  BY <3>6, <3>7
  <2>4. CASE CloseBatch
    BY <1>1, <2>1, <2>4, DrainReadyFields DEF CloseBatch
  <2>5. CASE CompleteIteration
    <3>1. PICK live, S, tokens, left :
             store' = ClearPrefillAdmits(Committed(Advanced(store, live), S, tokens, left))
      BY <2>5 DEF CompleteIteration
    <3>. QED  BY <1>1, <2>1, <3>1, IterationCache
  <2>6. ASSUME NEW q \in Requests, ReleaseFinished(q)
        PROVE  FALSE
    <3>1. /\ q \in finished
          /\ store' \in ReleasedRetainingPrefix(store, q, store.placement[q])
      BY <2>6 DEF ReleaseFinished
    <3>2. store.placement[q] \in Partitions
      BY <1>1, <2>1, <3>1 DEF IInv, OnePlace, Store
    <3>3. store'.placement[r] = IF r = q THEN NoPartition ELSE store.placement[r]
      BY <2>1, <3>1, <3>2, Placements
    <3>. QED  BY <1>1, <3>3
  <2>. QED  BY <1>1, <2>2, <2>3, <2>4, <2>5, <2>6
            DEF Next, Tick, Enqueue, BeginBatch, Terminated, vars
<1>2. IInv /\ SessionInv /\ [Next]_vars =>
        [ \A r \in Requests :
            (HasSession(r) /\ store.placement[r] = NoPartition
               /\ store'.placement[r] # NoPartition)
            => \A p \in Partitions : store.cache[p][SessionOf[r]] > 0
                  => \/ p = store'.placement[r]
                     \/ /\ StartedBlank(SessionOf[r])' # {}
                        /\ Peek(store, p, r) <= Peek(store, store'.placement[r], r) ]_vars
  BY <1>1
<1>. QED  BY <1>2, SessionInvariance, PTL DEF Spec, AffinityHolds

=============================================================================
