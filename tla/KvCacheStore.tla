---------------------------- MODULE KvCacheStore ----------------------------
(***************************************************************************)
(* The KV owner of one worker (worker/kv/kv_cache_store.rs with its        *)
(* RequestLedger, ResidentPartitionState and PrefixCache).  A store is a   *)
(* record and every method is an operator from a store to the store it     *)
(* leaves; a method that may evict retained prefixes maps to the SET of    *)
(* stores the replacement policies can leave.                              *)
(*                                                                         *)
(* Units are tokens: the accounting of a layout with one per-token part,   *)
(* where a context of n tokens is charged n units and every token is a     *)
(* resume position.                                                        *)
(***************************************************************************)
EXTENDS Workload, FiniteSums

CONSTANTS
    NumPartitions,  \* attention partitions of the worker
    Capacity,       \* KV units of one partition
    MaxRetained,    \* ceiling of the retained-prefix tier, 0 = disabled
    NoPartition     \* placement of a request the store does not place

ASSUME StoreAssumption ==
    /\ NumPartitions \in Nat \ {0}
    /\ Capacity \in Nat
    /\ MaxRetained \in 0..Capacity
    /\ NoPartition \notin Nat

Partitions == 0 .. NumPartitions - 1

EmptyStore ==
    [ promised  |-> [r \in Requests |-> 0],            \* 0: no promise
      placement |-> [r \in Requests |-> NoPartition],
      reserved  |-> [p \in Partitions |-> 0],          \* reserved_by_partition
      held      |-> [r \in Requests |-> 0],            \* tokens awaiting a pull
      heldOn    |-> [r \in Requests |-> NoPartition],
      heldUnits |-> [p \in Partitions |-> 0],          \* held_by_partition
      admits    |-> [p \in Partitions |-> {}],         \* prefill_admits
      decodes   |-> [p \in Partitions |-> {}],
      context   |-> [r \in Requests |-> 0],            \* current_kv
      remaining |-> [r \in Requests |-> 0],            \* remaining_decode
      resident  |-> [p \in Partitions |-> 0],          \* resident_units
      peak      |-> [p \in Partitions |-> 0],          \* cached_peak
      cache     |-> [p \in Partitions |-> [s \in Sessions |-> 0]] ]

\* The running totals are integers here; TotalsAgree gives their values.
Totals == [Partitions -> Int]

Store ==
    [ promised  : [Requests -> Nat],
      placement : [Requests -> Partitions \cup {NoPartition}],
      reserved  : Totals,
      held      : [Requests -> Nat],
      heldOn    : [Requests -> Partitions \cup {NoPartition}],
      heldUnits : Totals,
      admits    : [Partitions -> SUBSET Requests],
      decodes   : [Partitions -> SUBSET Requests],
      context   : [Requests -> Nat],
      remaining : [Requests -> Nat],
      resident  : Totals,
      peak      : Totals,
      cache     : [Partitions -> [Sessions -> Nat]] ]

Smaller(a, b) == IF a <= b THEN a ELSE b
Larger(a, b)  == IF a >= b THEN a ELSE b
SaturatingSub(a, b) == IF a >= b THEN a - b ELSE 0

-----------------------------------------------------------------------------
(* Derived views. *)

PlacedOn(st, p)     == { r \in Requests : st.placement[r] = p }
PromisedOn(st, p)   == { r \in PlacedOn(st, p) : st.promised[r] > 0 }
LiveDecodes(st, p)  == { r \in st.decodes[p] : st.remaining[r] > 0 }
ResidentOf(st)      == UNION { st.decodes[p] : p \in Partitions }
AdmitsOf(st)        == UNION { st.admits[p] : p \in Partitions }
CacheUnits(st, p)   == SumOver(st.cache[p], Sessions)

Footprint(context, future) == context + future

\* What a set of decodes is charged after e steps: what has fewer steps left is
\* gone by then, the rest has grown by e tokens.
UnitsAfter(st, ds, e) ==
    SumOver([r \in ds |-> st.context[r] + e], { r \in ds : st.remaining[r] >= e })

\* The steps after which a decode of the set exits.
Exits(st, ds) == { st.remaining[r] : r \in ds }

\* sample_indices, of n decodes in the order of their exits: all of them below
\* eight, else the first eight, one in every eighth, and the last.
SampleIndices(n) ==
    IF n < 8 THEN 0 .. n - 1
             ELSE 0 .. 7 \cup { (k * n) \div 8 : k \in 1..7 } \cup { n - 1 }

\* The exits at those indices of the sorted decodes.
SampledExits(st, ds) ==
    { e \in Exits(st, ds) : \E i \in SampleIndices(Cardinality(ds)) :
        /\ Cardinality({ r \in ds : st.remaining[r] < e }) <= i
        /\ i < Cardinality({ r \in ds : st.remaining[r] <= e }) }

\* The highest charge after any of these steps.
HighestAfter(st, ds, steps) == Max({ UnitsAfter(st, ds, e) : e \in steps })

\* projected_peak: the highest charge now or at a sampled exit.
ProjectedPeak(st, ds) == HighestAfter(st, ds, {0} \cup SampledExits(st, ds))

\* The highest charge that the decodes will reach: it only falls at an exit.
ReachedPeak(st, ds) == HighestAfter(st, ds, {0} \cup Exits(st, ds))

\* Below this number of decodes the sample leaves no exit out.
ExactBelow == 12
FewDecodes(st) == \A p \in Partitions : Cardinality(st.decodes[p]) < ExactBelow

Fits(st, p, units) ==
    LET reserved == st.reserved[p] + st.heldUnits[p] + units
    IN  /\ st.resident[p] + reserved <= Capacity
        /\ st.peak[p] + reserved <= Capacity

NonCachePeak(st, p) ==
    Larger(st.resident[p], st.peak[p]) + st.reserved[p] + st.heldUnits[p]

SoftSlack(st, p) == SaturatingSub(Capacity, NonCachePeak(st, p))

-----------------------------------------------------------------------------
(* The retained-prefix tier. *)

Keeping(entries, S) == [s \in Sessions |-> IF s \in S THEN entries[s] ELSE 0]

\* shrink_to evicts whole entries, in the order of the policy, until the rest
\* fits: everything stays, or the last victim did not fit.
Shrunk(entries, limit) ==
    LET cap     == Smaller(MaxRetained, limit)
        present == { s \in Sessions : entries[s] > 0 }
        Over(S) == SumOver(Keeping(entries, S), Sessions) > cap
    IN  { Keeping(entries, S) : S \in { T \in SUBSET present :
             /\ ~Over(T)
             /\ T = present \/ \E v \in present \ T : Over(T \cup {v}) } }

Peek(st, p, r) == Smaller(st.cache[p][SessionOf[r]], Declared[r])

\* The first partition with the longest resident part of the declared prefix.
RetainedPrefixPartition(st, r) ==
    IF ~HasSession(r) \/ \A p \in Partitions : Peek(st, p, r) = 0
    THEN NoPartition
    ELSE CHOOSE p \in Partitions : \A q \in Partitions :
            \/ Peek(st, q, r) < Peek(st, p, r)
            \/ Peek(st, q, r) = Peek(st, p, r) /\ p <= q

\* A pinned prefix is a hit wherever the request runs.
PrefixHit(st, p, r) == IF HasSession(r) THEN Peek(st, p, r) ELSE Declared[r]

\* ResolvedPrefillContext::new: a fully resident prompt still computes a token.
PrefillTokensToCompute(st, p, r) ==
    LET missing == Declared[r] - PrefixHit(st, p, r)
    IN  IF Fresh[r] = 0 /\ missing = 0 /\ Declared[r] > 0
        THEN 1 ELSE Fresh[r] + missing

\* insert: replace the session's entry, evict until the longest prefix that
\* fits the limit has room, and keep that prefix.
Retained(st, p, s, tokens) ==
    LET cap  == Smaller(MaxRetained, SoftSlack(st, p))
        kept == Smaller(tokens, cap)
        rest == [st.cache[p] EXCEPT ![s] = 0]
    IN  { [st EXCEPT !.cache[p] = [entries EXCEPT ![s] = kept]] :
             entries \in Shrunk(rest, cap - kept) }

-----------------------------------------------------------------------------
(* Lifecycle of a request's KV. *)

Promise(st, r, p, units) ==
    [st EXCEPT !.promised[r]  = units,
               !.placement[r] = p,
               !.reserved[p]  = @ + units]

\* As WithoutPromises, were the partition's total not updated with the entry.
PromisesForgottenTotalKept(st, S) ==
    [st EXCEPT
        !.promised = [r \in Requests |-> IF r \in S THEN 0 ELSE st.promised[r]]]

\* forget_promise: drop the promises of a set of requests.
WithoutPromises(st, S) ==
    [st EXCEPT
        !.promised = [r \in Requests |-> IF r \in S THEN 0 ELSE st.promised[r]],
        !.reserved = [p \in Partitions |->
            st.reserved[p] - SumOver(st.promised, S \cap PlacedOn(st, p))]]

\* As Reserved, were the retained prefixes not trimmed.
ReservedUntrimmed(st, r, p, units) == { Promise(st, r, p, units) }

\* reserve with a full-footprint basis: the promise is made first, then the
\* retained prefixes give way to it.
Reserved(st, r, p, units) ==
    LET promised == Promise(st, r, p, units)
    IN  { [promised EXCEPT !.cache[p] = entries] :
             entries \in Shrunk(st.cache[p], SoftSlack(promised, p)) }

\* As ReservedPrefill, were the hit to leave the session's entry in place.
ReservedLeavingEntry(st, r, p, units) == Reserved(st, r, p, units)

\* reserve_prefill_context: the hit consumes the session's whole entry.
ReservedPrefill(st, r, p, units) ==
    IF HasSession(r)
    THEN Reserved([st EXCEPT !.cache[p][SessionOf[r]] = 0], r, p, units)
    ELSE Reserved(st, r, p, units)

\* drain_ready: every promise becomes a prefill of the next iteration.
DrainReady(st) ==
    [WithoutPromises(st, Requests) EXCEPT
        !.admits = [p \in Partitions |-> st.admits[p] \cup PromisedOn(st, p)]]

\* advance: each of these live decodes grows by one token.
Advanced(st, live) ==
    [st EXCEPT
        !.context   = [r \in Requests |->
            IF r \in live THEN st.context[r] + 1 ELSE st.context[r]],
        !.remaining = [r \in Requests |->
            IF r \in live THEN st.remaining[r] - 1 ELSE st.remaining[r]],
        !.resident  = [p \in Partitions |->
            st.resident[p] + Cardinality(live \cap st.decodes[p])]]

\* commit_resident of a set of prefilled requests, each on the partition that
\* placed it: the promise is dropped and the decode begins (begin_decode).
Committed(st, S, tokens, left) ==
    LET on(p) == S \cap PlacedOn(st, p)
        begun == [WithoutPromises(st, S) EXCEPT
            !.decodes   = [p \in Partitions |-> st.decodes[p] \cup on(p)],
            !.context   = [r \in Requests |->
                IF r \in S THEN tokens[r] ELSE st.context[r]],
            !.remaining = [r \in Requests |->
                IF r \in S THEN left[r] ELSE st.remaining[r]],
            !.resident  = [p \in Partitions |->
                st.resident[p] + SumOver(tokens, on(p))]]
    IN  [begun EXCEPT !.peak = [p \in Partitions |->
            IF on(p) = {} THEN st.peak[p]
                          ELSE ProjectedPeak(begun, begun.decodes[p])]]

ClearPrefillAdmits(st) == [st EXCEPT !.admits = [p \in Partitions |-> {}]]

\* release_decode recomputes the peak only when the request was resident.
ReleaseDecode(st, r, p) ==
    IF r \notin st.decodes[p] THEN st
    ELSE LET left == st.decodes[p] \ {r}
         IN  [st EXCEPT !.decodes[p]   = left,
                        !.context[r]   = 0,
                        !.remaining[r] = 0,
                        !.resident[p]  = @ - st.context[r],
                        !.peak[p]      = ProjectedPeak(st, left)]

\* take_held: the KV a handoff kept behind.
TakeHeld(st, r) ==
    IF st.held[r] = 0 THEN st
    ELSE [st EXCEPT !.held[r] = 0,
                    !.heldOn[r] = NoPartition,
                    !.heldUnits[st.heldOn[r]] = SaturatingSub(@, st.held[r])]

\* As Released, were the placement kept.
ReleasedStillPlaced(st, r, p) ==
    ReleaseDecode(WithoutPromises(TakeHeld(st, r), {r}), r, p)

\* release: drop whatever the store knows of the request.
Released(st, r, p) ==
    LET bare == ReleaseDecode(WithoutPromises(TakeHeld(st, r), {r}), r, p)
    IN  [bare EXCEPT !.placement[r] = NoPartition]

\* The decodes that have all their tokens are released one after another.
ReleasedEach(st, S) ==
    FoldSet(LAMBDA r, s : Released(s, r, st.placement[r]), st, S)

\* release_retaining_prefix: a session's KV stays behind as a prefix, the
\* context of its decode or, when it never decoded, its prompt.
ReleasedRetainingPrefix(st, r, p) ==
    LET tokens == IF r \in st.decodes[p] THEN st.context[r] ELSE ContextOf(r)
    IN  IF HasSession(r)
        THEN Retained(Released(st, r, p), p, SessionOf[r], tokens)
        ELSE { Released(st, r, p) }

\* hold: prefilled KV stays resident until its pull is acknowledged.
Hold(st, r, p, tokens) ==
    [st EXCEPT !.placement[r] = NoPartition,
               !.held[r]      = tokens,
               !.heldOn[r]    = p,
               !.heldUnits[p] = @ + tokens]

\* As HandoffCompleted, were the acknowledgement dropped.
AcknowledgementDropped(st, r) == { st }

\* complete_handoff: the pull is acknowledged, a second one changes nothing.
HandoffCompleted(st, r) ==
    IF st.held[r] = 0 THEN { st }
    ELSE IF HasSession(r)
         THEN Retained(TakeHeld(st, r), st.heldOn[r], SessionOf[r], st.held[r])
         ELSE { TakeHeld(st, r) }

-----------------------------------------------------------------------------
(* Bounded-future reservations: a request reserves a bounded part of its     *)
(* growth, and the decodes claim every step before it runs.                  *)

\* As NextStepUnits, were every decode to grow by a single token.
SingleTokenUnits(st, p, width) == Cardinality(LiveDecodes(st, p))

\* next_decode_allocation_units, one-token pages: a decode advances by the
\* query width or by what it has left.
NextStepUnits(st, p, width) ==
    SumOver([r \in Requests |-> Smaller(st.remaining[r], width)], LiveDecodes(st, p))

\* bounded_future_decode_units without its ratio.
FutureUnits(st, p, most) ==
    SumOver([r \in Requests |-> Smaller(st.remaining[r], most)], LiveDecodes(st, p))

\* Resident, promised and held.
ProtectedUnits(st, p) == st.resident[p] + st.reserved[p] + st.heldUnits[p]

BoundedFootprint(context, left, most) == context + Smaller(left, most) + 1

\* fits_bounded_future, strictly below the capacity; width 0 leaves the next
\* decode step out.  The ratio is the fraction part / of.
FitsBounded(st, p, units, most, ratio, width) ==
    LET protected == ProtectedUnits(st, p) + units
    IN  /\ protected * ratio.of + FutureUnits(st, p, most) * ratio.part
             < Capacity * ratio.of
        /\ protected + NextStepUnits(st, p, width) < Capacity

\* reserve with a bounded-future basis: the prefixes give way to what is
\* protected, not to what the decodes will still claim.
ReservedBounded(st, r, p, units) ==
    LET taken == IF HasSession(r)
                 THEN [st EXCEPT !.cache[p][SessionOf[r]] = 0] ELSE st
        promised == Promise(taken, r, p, units)
    IN  { [promised EXCEPT !.cache[p] = entries] : entries \in
            Shrunk(taken.cache[p],
                   SaturatingSub(Capacity, ProtectedUnits(promised, p))) }

\* prepare_next_decode evicts prefixes for the next step ...
TrimmedForStep(st, p, width) ==
    { [st EXCEPT !.cache[p] = entries] : entries \in
        Shrunk(st.cache[p], SaturatingSub(Capacity,
            ProtectedUnits(st, p) + NextStepUnits(st, p, width))) }

\* ... and returns the units that are missing all the same.
Shortfall(st, p, width) ==
    SaturatingSub(NextStepUnits(st, p, width),
        SaturatingSub(Capacity, ProtectedUnits(st, p) + CacheUnits(st, p)))

\* advance of a RequestSubset per distance: steps[r] tokens each.
AdvancedBy(st, steps) ==
    LET live == DOMAIN steps
    IN  [st EXCEPT
            !.context   = [r \in Requests |->
                IF r \in live THEN st.context[r] + steps[r] ELSE st.context[r]],
            !.remaining = [r \in Requests |->
                IF r \in live THEN st.remaining[r] - steps[r] ELSE st.remaining[r]],
            !.resident  = [p \in Partitions |->
                st.resident[p] + SumOver(steps, live \cap st.decodes[p])]]

-----------------------------------------------------------------------------
(* Invariants of a store, for the workers that own one. *)

\* The running totals the capacity checks read (request_ledger.rs keeps them
\* "updated by every insert and remove") equal the entries they sum, and
\* cached_peak is never below what the resident decodes will still reach, as
\* long as they are few enough for every exit to be sampled.
TotalsAgree(st) == \A p \in Partitions :
    /\ st.reserved[p]  = SumOver(st.promised, PlacedOn(st, p))
    /\ st.heldUnits[p] = SumOver(st.held, { r \in Requests : st.heldOn[r] = p })
    /\ st.resident[p]  = SumOver(st.context, st.decodes[p])
    /\ Cardinality(st.decodes[p]) < ExactBelow =>
          st.peak[p] >= ReachedPeak(st, st.decodes[p])

=============================================================================
