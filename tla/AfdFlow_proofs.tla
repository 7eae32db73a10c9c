---------------------------- MODULE AfdFlow_proofs ----------------------------
(***************************************************************************)
(* The lockstep of the attention and FFN workers for any number of them,   *)
(* of slots, of layers and of requests: a slot has one task at most, whose *)
(* result finds every worker where it expects it; a request is in one      *)
(* place; the barriers are those of LayerBarrier; the flow serves by the   *)
(* contract.                                                               *)
(***************************************************************************)
EXTENDS AfdFlow, FiniteSums_proofs

\* The lemmas about a store, for that of an attention worker.
KF == INSTANCE KvCacheStore_proofs WITH
    NumPartitions <- 1, Capacity <- KvCapacity, MaxRetained <- KvRetained

-----------------------------------------------------------------------------
(* The lemmas are about KF!X, the flow is written with Kv!X: each is the same *)
(* operator.                                                                  *)

\* What the lemmas assume of a store holds of this one.
LEMMA StoreAssumptions == KF!StoreAssumption /\ KF!WorkloadAssumption /\ KF!ChainAssumption
<1>1. 1 \in Nat \ {0}
  OBVIOUS
<1>2. KF!StoreAssumption
  BY AfdAssumption, <1>1 DEF KF!StoreAssumption
<1>3. KF!WorkloadAssumption
  <2>1. \A S : KF!IsFiniteSet(S) = IsFiniteSet(S)
    BY DEF KF!IsFiniteSet, IsFiniteSet
  <2>. QED  BY <2>1, WorkloadAssumption
<1>. QED  BY <1>2, <1>3, ChainAssumption

\* Shared parts of a store.
LEMMA StoreParts ==
    /\ Kv!Partitions = {0} /\ KF!Partitions = {0}
    /\ Kv!Store = KF!Store
    /\ Kv!EmptyStore = KF!EmptyStore
    /\ \A f, S : Kv!SumOver(f, S) = KF!SumOver(f, S)
    /\ \A r : KF!ContextOf(r) = ContextOf(r) /\ Kv!ContextOf(r) = ContextOf(r)
    /\ \A r : Kv!HasSession(r) <=> KF!HasSession(r)
<1>1. Kv!Partitions = {0} /\ KF!Partitions = {0}
  BY DEF Kv!Partitions, KF!Partitions
<1>2. Kv!Totals = KF!Totals /\ Kv!Partitions = KF!Partitions
  BY DEF Kv!Totals, KF!Totals, Kv!Partitions, KF!Partitions
<1>3. Kv!Store = KF!Store
  BY <1>2 DEF Kv!Store, KF!Store
<1>4. Kv!EmptyStore = KF!EmptyStore
  BY <1>2 DEF Kv!EmptyStore, KF!EmptyStore
<1>5. \A f, S : Kv!SumOver(f, S) = KF!SumOver(f, S)
  BY DEF Kv!SumOver, KF!SumOver, Kv!MapThenSumSet, KF!MapThenSumSet,
         Kv!MapThenFoldSet, KF!MapThenFoldSet
<1>6. \A r : KF!ContextOf(r) = ContextOf(r) /\ Kv!ContextOf(r) = ContextOf(r)
  BY DEF KF!ContextOf, Kv!ContextOf, ContextOf
<1>7. \A r : Kv!HasSession(r) <=> KF!HasSession(r)
  BY DEF KF!HasSession, Kv!HasSession
<1>. QED  BY <1>1, <1>3, <1>4, <1>5, <1>6, <1>7

\* The retained tier.
LEMMA StoreTier ==
    /\ \A a, b : Kv!Smaller(a, b) = KF!Smaller(a, b)
    /\ \A st, p : Kv!SoftSlack(st, p) = KF!SoftSlack(st, p)
    /\ \A entries, limit : Kv!Shrunk(entries, limit) = KF!Shrunk(entries, limit)
    /\ \A st, p, s, tokens : Kv!Retained(st, p, s, tokens) = KF!Retained(st, p, s, tokens)
<1>1. \A a, b : Kv!Smaller(a, b) = KF!Smaller(a, b)
  BY DEF Kv!Smaller, KF!Smaller
<1>2. \A st, p : Kv!SoftSlack(st, p) = KF!SoftSlack(st, p)
  BY DEF Kv!SoftSlack, KF!SoftSlack, Kv!NonCachePeak, KF!NonCachePeak,
         Kv!Larger, KF!Larger, Kv!SaturatingSub, KF!SaturatingSub
<1>3. \A entries, limit : Kv!Shrunk(entries, limit) = KF!Shrunk(entries, limit)
  <2>1. \A entries, S : Kv!Keeping(entries, S) = KF!Keeping(entries, S)
    BY DEF Kv!Keeping, KF!Keeping
  <2>. QED  BY <1>1, <2>1, StoreParts DEF Kv!Shrunk, KF!Shrunk
<1>4. \A st, p, s, tokens : Kv!Retained(st, p, s, tokens) = KF!Retained(st, p, s, tokens)
  BY <1>1, <1>2, <1>3 DEF Kv!Retained, KF!Retained
<1>. QED  BY <1>1, <1>2, <1>3, <1>4

\* The life of a request's KV.
LEMMA StoreOps ==
    /\ \A st, r, p, units : Kv!ReservedPrefill(st, r, p, units) = KF!ReservedPrefill(st, r, p, units)
    /\ \A st, S, tokens, left : Kv!Committed(st, S, tokens, left) = KF!Committed(st, S, tokens, left)
    /\ \A st, live : Kv!Advanced(st, live) = KF!Advanced(st, live)
    /\ \A st, r, p : Kv!ReleasedRetainingPrefix(st, r, p) = KF!ReleasedRetainingPrefix(st, r, p)
<1>1. \A st, r, p, units : Kv!Reserved(st, r, p, units) = KF!Reserved(st, r, p, units)
  <2>1. \A st, r, p, units : Kv!Promise(st, r, p, units) = KF!Promise(st, r, p, units)
    BY DEF Kv!Promise, KF!Promise
  <2>. QED  BY <2>1, StoreTier DEF Kv!Reserved, KF!Reserved
<1>2. \A st, r, p, units : Kv!ReservedPrefill(st, r, p, units) = KF!ReservedPrefill(st, r, p, units)
  BY <1>1, StoreParts DEF Kv!ReservedPrefill, KF!ReservedPrefill
<1>3. \A st, p : Kv!PlacedOn(st, p) = KF!PlacedOn(st, p)
  BY DEF Kv!PlacedOn, KF!PlacedOn
<1>4. \A st, S : Kv!WithoutPromises(st, S) = KF!WithoutPromises(st, S)
  BY <1>3, StoreParts DEF Kv!WithoutPromises, KF!WithoutPromises
<1>5. \A st, S, tokens, left : Kv!Committed(st, S, tokens, left) = KF!Committed(st, S, tokens, left)
  BY DEF Kv!Committed, KF!Committed, Kv!WithoutPromises, KF!WithoutPromises,
         Kv!PlacedOn, KF!PlacedOn, Kv!Partitions, KF!Partitions,
         Kv!ProjectedPeak, KF!ProjectedPeak, Kv!HighestAfter, KF!HighestAfter,
         Kv!UnitsAfter, KF!UnitsAfter, Kv!SampledExits, KF!SampledExits, Kv!Exits, KF!Exits,
         Kv!SampleIndices, KF!SampleIndices, Kv!Cardinality, KF!Cardinality, Kv!Max, KF!Max, Kv!SumOver, KF!SumOver,
         Kv!MapThenSumSet, KF!MapThenSumSet, Kv!MapThenFoldSet, KF!MapThenFoldSet
<1>6. \A st, live : Kv!Advanced(st, live) = KF!Advanced(st, live)
  <2>1. \A S : Kv!Cardinality(S) = KF!Cardinality(S)
    BY DEF Kv!Cardinality, KF!Cardinality
  <2>. QED  BY <2>1, StoreParts DEF Kv!Advanced, KF!Advanced
<1>7. \A st, r : Kv!TakeHeld(st, r) = KF!TakeHeld(st, r)
  BY DEF Kv!TakeHeld, KF!TakeHeld, Kv!SaturatingSub, KF!SaturatingSub
<1>8. \A st, r, p : Kv!ReleaseDecode(st, r, p) = KF!ReleaseDecode(st, r, p)
  BY DEF Kv!ReleaseDecode, KF!ReleaseDecode, Kv!ProjectedPeak, KF!ProjectedPeak, Kv!HighestAfter, KF!HighestAfter,
         Kv!UnitsAfter, KF!UnitsAfter, Kv!SampledExits, KF!SampledExits, Kv!Exits, KF!Exits,
         Kv!SampleIndices, KF!SampleIndices, Kv!Cardinality, KF!Cardinality,
         Kv!Max, KF!Max, Kv!SumOver, KF!SumOver, Kv!MapThenSumSet, KF!MapThenSumSet,
         Kv!MapThenFoldSet, KF!MapThenFoldSet
<1>9. \A st, r, p : Kv!Released(st, r, p) = KF!Released(st, r, p)
  BY <1>4, <1>7, <1>8 DEF Kv!Released, KF!Released
<1>10. \A st, r, p : Kv!ReleasedRetainingPrefix(st, r, p) = KF!ReleasedRetainingPrefix(st, r, p)
  BY <1>9, StoreParts, StoreTier DEF Kv!ReleasedRetainingPrefix, KF!ReleasedRetainingPrefix
<1>. QED  BY <1>2, <1>5, <1>6, <1>10

-----------------------------------------------------------------------------
(* Choices the flow makes.                                                   *)

\* The first of the places 0 .. n with the least value.
LEMMA FirstLeast ==
    ASSUME NEW n \in Nat, NEW f, \A x \in 0 .. n : f[x] \in Int
    PROVE  \E x \in 0 .. n : \A y \in 0 .. n :
              f[x] < f[y] \/ (f[x] = f[y] /\ x <= y)
<1> DEFINE Best(m, x) == \A y \in 0 .. m : f[x] < f[y] \/ (f[x] = f[y] /\ x <= y)
           G == { m \in Nat : m <= n => \E x \in 0 .. m : Best(m, x) }
<1>1. 0 \in G
  <2>1. Best(0, 0)
    OBVIOUS
  <2>. QED  BY <2>1
<1>2. ASSUME NEW m \in Nat, m \in G PROVE m + 1 \in G
  <2>1. SUFFICES ASSUME m + 1 <= n PROVE \E x \in 0 .. m + 1 : Best(m + 1, x)
    OBVIOUS
  <2>2. PICK x \in 0 .. m : Best(m, x)
    BY <1>2, <2>1
  <2>3. f[x] \in Int /\ f[m + 1] \in Int
    BY <2>1
  <2>4. CASE f[m + 1] < f[x]
    <3>1. ASSUME NEW y \in 0 .. m + 1
          PROVE  f[m + 1] < f[y] \/ (f[m + 1] = f[y] /\ m + 1 <= y)
      <4>1. CASE y = m + 1
        BY <4>1
      <4>2. CASE y \in 0 .. m
        <5>1. f[y] \in Int /\ f[x] <= f[y]
          BY <2>1, <2>2, <4>2
        <5>. QED  BY <2>3, <2>4, <5>1
      <4>. QED  BY <4>1, <4>2
    <3>. QED  BY <3>1
  <2>5. CASE ~(f[m + 1] < f[x])
    <3>1. ASSUME NEW y \in 0 .. m + 1
          PROVE  f[x] < f[y] \/ (f[x] = f[y] /\ x <= y)
      <4>1. CASE y = m + 1
        BY <2>3, <2>5, <4>1
      <4>2. CASE y \in 0 .. m
        BY <2>2, <4>2
      <4>. QED  BY <4>1, <4>2
    <3>. QED  BY <3>1
  <2>. QED  BY <2>4, <2>5
<1> HIDE DEF G
<1>3. n \in G
  BY <1>1, <1>2, NatSetInduction
<1>. QED  BY <1>3 DEF G

\* Workers, slots and requests: finite sets, none of the first two empty.
LEMMA Universe ==
    /\ IsFiniteSet(Attn) /\ Cardinality(Attn) = NumAttn /\ 0 \in Attn
    /\ NumAttn \in Nat \ {0}
    /\ IsFiniteSet(Slots) /\ Slots \subseteq Nat /\ Attn \subseteq Nat
    /\ Ffn \subseteq Nat /\ -1 \notin Ffn /\ -1 \notin Attn
    /\ Last \in Nat /\ Start = -1 /\ Last # Start /\ 0 \in 0 .. Last
    /\ IsFiniteSet(Requests)
<1>1. NumAttn \in Nat \ {0} /\ NumFfn \in Nat \ {0} /\ NumSlots \in Nat \ {0}
      /\ NumLayers \in Nat \ {0}
  BY AfdAssumption
<1>2. IsFiniteSet(0 .. NumAttn - 1) /\ Cardinality(0 .. NumAttn - 1) = NumAttn
  <2>1. 0 \in Int /\ NumAttn - 1 \in Int /\ ~(0 > NumAttn - 1)
        /\ (NumAttn - 1) - 0 + 1 = NumAttn
    BY <1>1
  <2>. QED  BY <2>1, FS_Interval
<1>3. IsFiniteSet(0 .. NumSlots - 1)
  <2>1. 0 \in Int /\ NumSlots - 1 \in Int
    BY <1>1
  <2>. QED  BY <2>1, FS_Interval
<1>4. Slots \subseteq Nat /\ Attn \subseteq Nat /\ Ffn \subseteq Nat /\ 0 \in Attn
  BY <1>1 DEF Slots, Attn, Ffn
<1>5. -1 \notin Ffn /\ -1 \notin Attn
  BY <1>1 DEF Attn, Ffn
<1>6. Last \in Nat /\ Start = -1 /\ Last # Start /\ 0 \in 0 .. Last
  BY <1>1 DEF Last, Start
<1>. QED  BY <1>1, <1>2, <1>3, <1>4, <1>5, <1>6, WorkloadAssumption DEF Attn, Slots

\* An ascending sequence of a set of slots has every one of them, once.
LEMMA AscendingIs ==
    ASSUME NEW S \in SUBSET Slots, NEW q, q = Ascending(S),
           NEW n, n = Cardinality(S)
    PROVE  /\ n \in Nat /\ q \in [1 .. n -> S]
           /\ \A i, j \in 1 .. n : q[i] = q[j] => i = j
           /\ \A x \in S : \E i \in 1 .. n : q[i] = x
<1> DEFINE Up(p, m, T) == p \in [1 .. m -> T] /\ \A i, j \in 1 .. m : i < j => p[i] < p[j]
           G == { T \in SUBSET S : \E p : Up(p, Cardinality(T), T) }
<1>0. IsFiniteSet(S) /\ S \subseteq Nat
  BY Universe, FS_Subset
<1>1. ASSUME NEW T \in SUBSET S, \A x \in T : T \ {x} \in G PROVE T \in G
  <2>0. IsFiniteSet(T)
    BY <1>0, FS_Subset
  <2>1. CASE T = {}
    <3>1. Cardinality(T) = 0
      BY <2>1, FS_EmptySet
    <3>2. Up([i \in 1 .. 0 |-> i], 0, T)
      OBVIOUS
    <3>. QED  BY <3>1, <3>2
  <2>2. CASE T # {}
    <3>1. PICK top \in T : \A v \in T : top >= v
      <4>1. \A v \in T : v \in Int
        BY <1>0
      <4>. QED  BY <2>0, <2>2, <4>1, MaxExists
    <3> DEFINE R == T \ {top}
               m == Cardinality(R)
    <3>2. m \in Nat /\ Cardinality(T) = m + 1
      <4>1. IsFiniteSet(R) /\ m = Cardinality(T) - 1
        BY <2>0, FS_RemoveElement
      <4>2. m \in Nat /\ Cardinality(T) \in Nat
        BY <2>0, <4>1, FS_CardinalityType
      <4>. QED  BY <4>1, <4>2
    <3>3. PICK p : Up(p, m, R)
      BY <1>1
    <3> DEFINE p2 == [i \in 1 .. m + 1 |-> IF i = m + 1 THEN top ELSE p[i]]
    <3> HIDE DEF m
    <3>4. p2 \in [1 .. m + 1 -> T]
      BY <3>2, <3>3
    <3>5. ASSUME NEW i \in 1 .. m + 1, NEW j \in 1 .. m + 1, i < j PROVE p2[i] < p2[j]
      <4>1. i \in 1 .. m /\ p2[i] = p[i] /\ p[i] \in R
        BY <3>2, <3>3, <3>5
      <4>2. CASE j = m + 1
        <5>1. p2[j] = top
          BY <4>2
        <5>2. p[i] \in T /\ p[i] # top
          BY <4>1
        <5>3. top >= p[i]
          BY <3>1, <5>2
        <5>4. \A x \in T : x \in Int
          BY <1>0
        <5>. QED  BY <3>1, <4>1, <5>1, <5>2, <5>3, <5>4
      <4>3. CASE j # m + 1
        BY <3>2, <3>3, <3>5, <4>1, <4>3
      <4>. QED  BY <4>2, <4>3
    <3>6. Up(p2, m + 1, T)
      BY <3>4, <3>5
    <3>. QED  BY <3>2, <3>6
  <2>. QED  BY <2>1, <2>2
<1>2. S \in G
  <2> HIDE DEF G
  <2>1. \A T \in SUBSET S : T \in G
    BY <1>0, <1>1, SubsetInduction
  <2>. QED  BY <2>1
<1>3. n \in Nat
  BY <1>0, FS_CardinalityType
<1>4. q \in [1 .. n -> S] /\ \A i, j \in 1 .. n : i < j => q[i] < q[j]
  <2>1. \E p \in [1 .. n -> S] : \A i, j \in 1 .. n : i < j => p[i] < p[j]
    BY <1>2
  <2>. QED  BY <2>1 DEF Ascending
<1>5. \A i, j \in 1 .. n : q[i] = q[j] => i = j
  <2>1. SUFFICES ASSUME NEW i \in 1 .. n, NEW j \in 1 .. n, q[i] = q[j] PROVE i = j
    OBVIOUS
  <2>2. q[i] \in Nat /\ q[j] \in Nat
    BY <1>0, <1>4
  <2>3. ~(i < j) /\ ~(j < i)
    BY <1>4, <2>1, <2>2
  <2>. QED  BY <1>3, <2>3
<1>6. q \in Surjection(1 .. n, S)
  <2>1. q \in Injection(1 .. n, S)
    BY <1>4, <1>5 DEF Injection, IsInjective
  <2>2. Cardinality(1 .. n) = n
    <3>1. 1 \in Int /\ n \in Int /\ (1 > n => n = 0) /\ n - 1 + 1 = n
      BY <1>3
    <3>. QED  BY <3>1, FS_Interval
  <2>. QED  BY <1>0, <2>1, <2>2, FS_Injection
<1>. QED  BY <1>3, <1>4, <1>5, <1>6 DEF Surjection

-----------------------------------------------------------------------------
(* The lockstep of one slot, seen as a record: its cell on every attention  *)
(* worker, the controller's barriers, the workers whose report of it is not *)
(* aggregated yet, and its tasks with the FFN pool.                         *)

View(s) == [cells |-> [w \in Attn |-> slots[w][s]], sched |-> sched[s],
            unheard |-> Unheard(s), tasks |-> InFlightTasks(s)]

\* Who has been heard: at the boundary before layer 0, and of a layer.
Announced(x) == { w \in Attn : x.cells[w].announced } \ x.unheard
Computed(x)  == { w \in Attn : x.cells[w].state = "AwaitFlush" } \ x.unheard

BatchOf(x, W) == UNION { x.cells[w].members : w \in W }

\* A cell between two iterations, waiting for the result of a layer, in a layer.
AtRest(cell) == cell.layer = 0 /\ cell.state = "Wait" /\ ~cell.notified
Expects(cell, layer) ==
    IF layer = Last THEN cell.state = "AwaitFlush" /\ cell.layer = Last
    ELSE /\ cell.state = "Wait" /\ cell.layer = layer + 1
         /\ ~cell.notified /\ cell.announced
InLayer(cell, layer) == cell.layer = layer /\ cell.notified /\ cell.announced

\* No worker is in an iteration: some have announced theirs.
Gathering(x) ==
    /\ ~x.sched.inFlight
    /\ \A w \in Attn : AtRest(x.cells[w])
    /\ x.sched.barrier = EmptyBarrier
    /\ x.sched.start.count = Cardinality(Announced(x))
    /\ x.sched.start.reqs = BatchOf(x, Announced(x))
    /\ Announced(x) # Attn

\* All are in one layer: some have computed theirs.
Marching(x) ==
    /\ x.sched.inFlight
    /\ \E layer \in 0 .. Last : \A w \in Attn : InLayer(x.cells[w], layer)
    /\ x.sched.start = EmptyStart
    /\ x.sched.barrier.count = Cardinality(Computed(x))
    /\ x.sched.barrier.reqs = BatchOf(x, Computed(x))
    /\ Computed(x) # Attn

\* The layer's task is with the FFN pool, and all wait for its result.
Serving(x, task, gone) ==
    /\ x.sched.inFlight
    /\ \A w \in Attn : Expects(x.cells[w], task.layer)
    /\ x.sched.start = EmptyStart
    /\ x.sched.barrier = EmptyBarrier
    /\ x.unheard = {}
    /\ BatchOf(x, Attn) = task.reqs \ gone

\* A slot has a task, and one only, while it is being served.
LockstepOf(x, gone) ==
    /\ \A p, q \in x.tasks : p = q
    /\ \A p \in x.tasks : Serving(x, p.task, gone)
    /\ x.tasks = {} => Gathering(x) \/ Marching(x)

Lockstep == \A s \in Slots : LockstepOf(View(s), done)

\* What the attention workers report is so, and reported once.
ReportTrue(e, cell, flying) ==
    /\ e.reqs = cell.members
    /\ IF flying THEN e.layer = cell.layer /\ cell.state = "AwaitFlush"
       ELSE e.layer = Start /\ cell.announced

ReportsTrue ==
    tick.stage = "attn" =>
        /\ \A i, j \in 1 .. Len(tick.events) :
              (tick.events[i].worker = tick.events[j].worker
                  /\ tick.events[i].slot = tick.events[j].slot) => i = j
        /\ \A i \in 1 .. Len(tick.events) :
              LET e == tick.events[i]
              IN  ReportTrue(e, slots[e.worker][e.slot], sched[e.slot].inFlight)

\* A worker computes one slot at a time.
OneComputes ==
    \A w \in Attn, s, t \in Slots :
        (slots[w][s].state = "Compute" /\ slots[w][t].state = "Compute") => s = t

\* Nothing of a batch is completed before its Terminal is delivered, and the event
\* of a Terminal says which requests of the batch have all their tokens.
Uncompleted ==
    \A s \in Slots : \A p \in InFlightTasks(s) :
        (p.at[1] # -1 \/ p.task.layer # Last) => p.task.reqs \cap done = {}

LeavingTrue ==
    tick.stage = "ffn" => \A i \in 1 .. Len(tick.events) :
        tick.events[i].leaving =
            IF tick.events[i].layer = Last
            THEN { r \in tick.events[i].reqs \ done : IsComplete(r, emitted) } ELSE {}

BatchesAgree == Uncompleted /\ LeavingTrue

-----------------------------------------------------------------------------
(* Where a request is, and what is known of its tokens.                     *)

InService == Arrived \ done

Seated(w, s) == slots[w][s].members \cup slots[w][s].joining

Places ==
    /\ done \subseteq Arrived
    /\ \A w \in Attn : \A r \in queue[w] :
          r \in InService /\ home[r] = w /\ \A s \in Slots : r \notin Seated(w, s)
    /\ \A w \in Attn, s \in Slots : \A r \in Seated(w, s) :
          r \in InService /\ home[r] = w
    /\ \A w \in Attn, s, t \in Slots : s # t => Seated(w, s) \cap Seated(w, t) = {}
    /\ \A w \in Attn, s \in Slots : slots[w][s].members \cap slots[w][s].joining = {}
    /\ \A r \in InService : \E w \in Attn :
          r \in queue[w] \/ \E s \in Slots : r \in Seated(w, s)

\* A store places the requests that sit in a slot of its worker.
StoresAgree ==
    \A w \in Attn, r \in Requests :
        /\ kv[w].placement[r] = 0 <=> \E s \in Slots : r \in Seated(w, s)
        /\ r \in kv[w].decodes[0] => kv[w].placement[r] = 0

\* The Terminal of a slot has been computed but not delivered.
Delivered(s) ==
    tick.stage = "ffn" /\ \E i \in 1 .. Len(tick.events) :
        tick.events[i].slot = s /\ tick.events[i].layer = Last

LayersDone(cell) == cell.layer = Last /\ cell.state = "AwaitFlush"

\* A member with e tokens is prefilled in its first iteration and is a resident
\* decode from then on; the store and the record differ from the end of the last
\* layer to the Terminal.
MemberAgrees(st, r, e, computed, emittedToo) ==
    IF r \in st.decodes[0]
    THEN /\ st.promised[r] = 0
         /\ st.context[r] + st.remaining[r] = ContextOf(r) + Target[r]
         /\ st.remaining[r] = Target[r] - e + (IF computed /\ ~emittedToo THEN 0 ELSE 1)
         /\ IF emittedToo THEN e <= Target[r] ELSE e < Target[r]
    ELSE e = 0 /\ st.promised[r] = FootprintOf(r) /\ ~computed

\* One that waits for the next iteration has nothing yet.
JoiningAgrees(st, r, e) ==
    e = 0 /\ r \notin st.decodes[0] /\ st.promised[r] = FootprintOf(r)

TokensAgree ==
    /\ \A r \in Requests \ Arrived : emitted[r] = 0
    /\ \A r \in done : emitted[r] = Target[r]
    /\ \A w \in Attn : \A r \in queue[w] : emitted[r] = 0
    /\ \A w \in Attn, s \in Slots :
          /\ \A r \in slots[w][s].joining : JoiningAgrees(kv[w], r, emitted[r])
          /\ \A r \in slots[w][s].members :
                MemberAgrees(kv[w], r, emitted[r], LayersDone(slots[w][s]), Delivered(s))

IInv ==
    /\ TypeOK /\ Lockstep /\ ReportsTrue /\ OneComputes /\ BatchesAgree
    /\ Places /\ StoresAgree /\ TokensAgree

-----------------------------------------------------------------------------
(* What a step can do to the lockstep of a slot, and to its barrier.        *)

Cell == [members : SUBSET Requests, joining : SUBSET Requests, layer : 0 .. Last,
         announced : BOOLEAN, state : States, notified : BOOLEAN, bytes : BOOLEAN]
Sched == [inFlight : BOOLEAN, start : [count : Nat, reqs : SUBSET Requests],
          barrier : [layer : 0 .. Last, count : Nat, reqs : SUBSET Requests,
                     weighted : SUBSET Attn],
          share : SUBSET Attn]

IsView(x) ==
    /\ x.cells \in [Attn -> Cell] /\ x.sched \in Sched /\ x.unheard \subseteq Attn
    /\ \A p \in x.tasks : p.task.layer \in Start .. Last

\* The barrier of LayerBarrier: the layer collected, and who was heard.
CollectedOf(x) ==
    IF x.tasks # {} THEN (CHOOSE p \in x.tasks : TRUE).task.layer
    ELSE IF x.sched.inFlight THEN x.cells[0].layer ELSE Start

HeardIn(x) ==
    IF x.tasks # {} THEN Attn
    ELSE IF x.sched.inFlight THEN Computed(x) ELSE Announced(x)

SameBarrier(x, y) ==
    /\ CollectedOf(y) = CollectedOf(x) /\ HeardIn(y) = HeardIn(x)
    /\ (y.tasks # {}) = (x.tasks # {})

Hears(x, y) ==
    /\ x.tasks = {}
    /\ \E w \in Attn : w \notin HeardIn(x) /\ HeardIn(y) = HeardIn(x) \cup {w}
    /\ (y.tasks # {}) = (HeardIn(y) = Attn)
    /\ CollectedOf(y) = CollectedOf(x)

Finishes(x, y) ==
    /\ x.tasks # {} /\ y.tasks = {} /\ HeardIn(y) = {}
    /\ CollectedOf(y) = IF CollectedOf(x) = Last THEN Start ELSE CollectedOf(x) + 1

BarrierStep(x, y) == SameBarrier(x, y) \/ Hears(x, y) \/ Finishes(x, y)

\* The batch of a task, its slot and its layer stay the same while it moves.
SameTask(t, u) == t.slot = u.slot /\ t.layer = u.layer /\ t.reqs = u.reqs

SameTasks(T, U) ==
    /\ T = {} <=> U = {}
    /\ \A q \in U : \E p \in T : SameTask(p.task, q.task)
    /\ (\A p, q \in T : p = q) => \A p, q \in U : p = q

\* A cell as the lockstep sees it.
SameCell(c, d) ==
    /\ d.members = c.members /\ d.layer = c.layer
    /\ d.announced = c.announced /\ d.notified = c.notified
    /\ (d.state = "AwaitFlush") = (c.state = "AwaitFlush")
    /\ (c.state = "Wait" /\ ~c.notified) => d.state = "Wait"

\* A set of workers and one more: the last one makes it the whole pool.
LEMMA OneMore ==
    ASSUME NEW H \in SUBSET Attn, NEW w \in Attn, w \notin H
    PROVE  /\ Cardinality(H) \in Nat
           /\ Cardinality(H \cup {w}) = Cardinality(H) + 1
           /\ (Cardinality(H) + 1 = NumAttn) <=> (H \cup {w} = Attn)
<1>1. IsFiniteSet(H) /\ IsFiniteSet(H \cup {w}) /\ H \cup {w} \in SUBSET Attn
  BY Universe, FS_Subset
<1>2. Cardinality(H) \in Nat
  BY <1>1, FS_CardinalityType
<1>3. Cardinality(H \cup {w}) = Cardinality(H) + 1
  BY <1>1, FS_AddElement
<1>4. (Cardinality(H \cup {w}) = NumAttn) => (H \cup {w} = Attn)
  BY <1>1, Universe, FS_Subset
<1>. QED  BY <1>2, <1>3, <1>4, Universe

\* Nobody has been heard of nothing.
LEMMA NoneHeard == Cardinality({}) = 0 /\ {} # Attn
  BY Universe, FS_EmptySet

\* A step that leaves the slot alone, but for where its task is.
LEMMA KeptSlot ==
    ASSUME NEW x, NEW y, NEW gone, NEW gone2, LockstepOf(x, gone),
           y.sched = x.sched, y.unheard = x.unheard, SameTasks(x.tasks, y.tasks),
           \A w \in Attn : SameCell(x.cells[w], y.cells[w]),
           gone \subseteq gone2, BatchOf(x, Attn) \cap gone2 = {}
    PROVE  LockstepOf(y, gone2) /\ SameBarrier(x, y)
<1>1. /\ Announced(y) = Announced(x) /\ Computed(y) = Computed(x)
      /\ \A W \in SUBSET Attn : BatchOf(y, W) = BatchOf(x, W)
  <2>1. Announced(y) = Announced(x) /\ Computed(y) = Computed(x)
    BY DEF Announced, Computed, SameCell
  <2>2. ASSUME NEW W \in SUBSET Attn PROVE BatchOf(y, W) = BatchOf(x, W)
    <3>1. \A w \in W : y.cells[w].members = x.cells[w].members
      BY DEF SameCell
    <3>. QED  BY <3>1 DEF BatchOf
  <2>. QED  BY <2>1, <2>2
<1>2. \A p, q \in y.tasks : p = q
  BY DEF LockstepOf, SameTasks
<1>3. ASSUME NEW q \in y.tasks PROVE Serving(y, q.task, gone2)
  <2>1. PICK p \in x.tasks : SameTask(p.task, q.task)
    BY DEF SameTasks
  <2>2. Serving(x, p.task, gone) /\ p.task.layer = q.task.layer /\ p.task.reqs = q.task.reqs
    BY <2>1 DEF LockstepOf, SameTask
  <2>3. \A w \in Attn : Expects(y.cells[w], q.task.layer)
    BY <2>2 DEF Serving, Expects, SameCell
  <2>4. BatchOf(y, Attn) = q.task.reqs \ gone2
    BY <1>1, <2>2 DEF Serving
  <2>. QED  BY <2>2, <2>3, <2>4 DEF Serving
<1>4. Announced(x) \in SUBSET Attn /\ Computed(x) \in SUBSET Attn
  BY DEF Announced, Computed
<1>5. Gathering(x) => Gathering(y)
  <2>1. \A w \in Attn : AtRest(x.cells[w]) => AtRest(y.cells[w])
    BY DEF AtRest, SameCell
  <2>. QED  BY <1>1, <1>4, <2>1 DEF Gathering
<1>6. Marching(x) => Marching(y)
  <2>1. \A w \in Attn, layer \in 0 .. Last :
           InLayer(x.cells[w], layer) => InLayer(y.cells[w], layer)
    BY DEF InLayer, SameCell
  <2>. QED  BY <1>1, <1>4, <2>1 DEF Marching
<1>7. LockstepOf(y, gone2)
  BY <1>2, <1>3, <1>5, <1>6 DEF LockstepOf, SameTasks
<1>8. HeardIn(y) = HeardIn(x) /\ (y.tasks # {}) = (x.tasks # {})
  BY <1>1 DEF HeardIn, SameTasks
<1>9. CollectedOf(y) = CollectedOf(x)
  <2>1. CASE y.tasks = {}
    BY <2>1, Universe DEF CollectedOf, SameTasks, SameCell
  <2>2. CASE y.tasks # {}
    <3>1. PICK q \in y.tasks : TRUE
      BY <2>2
    <3>2. PICK p \in x.tasks : SameTask(p.task, q.task)
      BY DEF SameTasks
    <3>3. (CHOOSE u \in y.tasks : TRUE) = q /\ (CHOOSE u \in x.tasks : TRUE) = p
      BY <1>2, <3>1, <3>2 DEF LockstepOf
    <3>. QED  BY <2>2, <3>1, <3>2, <3>3 DEF CollectedOf, SameTask
  <2>. QED  BY <2>1, <2>2
<1>. QED  BY <1>7, <1>8, <1>9 DEF SameBarrier

\* A worker's pass changes the slot and reports it: it announced a boundary it
\* had not announced, or it computed the layer.
LEMMA ReportedSlot ==
    ASSUME NEW x, NEW y, NEW gone, LockstepOf(x, gone), NEW w \in Attn, IsView(x),
           y.sched = x.sched, y.unheard = x.unheard \cup {w}, y.tasks = x.tasks,
           \A v \in Attn \ {w} : y.cells[v] = x.cells[v],
           y.cells[w].layer = x.cells[w].layer,
           y.cells[w].notified = x.cells[w].notified,
           \/ /\ x.cells[w].layer = 0 /\ x.cells[w].state = "Wait"
              /\ ~x.cells[w].announced
              /\ ~x.cells[w].notified => y.cells[w].state = "Wait"
           \/ /\ x.cells[w].state = "Compute" /\ y.cells[w].state = "AwaitFlush"
              /\ y.cells[w].announced = x.cells[w].announced
    PROVE  /\ LockstepOf(y, gone) /\ SameBarrier(x, y) /\ x.tasks = {}
           /\ x.sched.inFlight = (x.cells[w].state = "Compute")
<1>1. x.tasks = {}
  <2>1. SUFFICES ASSUME NEW p \in x.tasks PROVE FALSE
    OBVIOUS
  <2>2. Expects(x.cells[w], p.task.layer)
    BY DEF LockstepOf, Serving
  <2>. QED  BY <2>2 DEF Expects
<1>2. \A H \in SUBSET (Attn \ {w}) : BatchOf(y, H) = BatchOf(x, H)
  <2>1. \A H \in SUBSET (Attn \ {w}) : \A v \in H : y.cells[v].members = x.cells[v].members
    OBVIOUS
  <2>. QED  BY <2>1 DEF BatchOf
<1>3. CASE /\ x.cells[w].layer = 0 /\ x.cells[w].state = "Wait"
           /\ ~x.cells[w].announced
           /\ ~x.cells[w].notified => y.cells[w].state = "Wait"
  <2>1. Gathering(x)
    BY <1>1, <1>3 DEF LockstepOf, Marching, InLayer
  <2>2. Announced(y) = Announced(x) /\ Announced(x) \in SUBSET (Attn \ {w})
    BY <1>3 DEF Announced
  <2>3. \A v \in Attn : AtRest(y.cells[v])
    BY <1>3, <2>1 DEF Gathering, AtRest
  <2>4. Gathering(y)
    BY <1>2, <2>1, <2>2, <2>3 DEF Gathering
  <2>5. LockstepOf(y, gone)
    BY <1>1, <2>4 DEF LockstepOf
  <2>6. SameBarrier(x, y)
    BY <1>1, <2>1, <2>2, <2>4 DEF SameBarrier, HeardIn, CollectedOf, Gathering
  <2>. QED  BY <1>1, <1>3, <2>1, <2>5, <2>6 DEF Gathering, IsView, Sched
<1>4. CASE /\ x.cells[w].state = "Compute" /\ y.cells[w].state = "AwaitFlush"
           /\ y.cells[w].announced = x.cells[w].announced
  <2>1. Marching(x)
    BY <1>1, <1>4 DEF LockstepOf, Gathering, AtRest
  <2>2. Computed(y) = Computed(x) /\ Computed(x) \in SUBSET (Attn \ {w})
    BY <1>4 DEF Computed
  <2>3. PICK layer \in 0 .. Last : \A v \in Attn : InLayer(x.cells[v], layer)
    BY <2>1 DEF Marching
  <2>4. \A v \in Attn : InLayer(y.cells[v], layer)
    BY <1>4, <2>3 DEF InLayer
  <2>5. Marching(y)
    BY <1>2, <2>1, <2>2, <2>3, <2>4 DEF Marching
  <2>6. LockstepOf(y, gone)
    BY <1>1, <2>5 DEF LockstepOf
  <2>7. SameBarrier(x, y)
    BY <1>1, <2>1, <2>2, <2>3, <2>4, Universe DEF SameBarrier, HeardIn, CollectedOf, Marching, InLayer
  <2>. QED  BY <1>1, <1>4, <2>1, <2>6, <2>7 DEF Marching, IsView, Sched
<1>. QED  BY <1>3, <1>4

\* Before its iterations start the slot has no task.
LEMMA NotInFlight ==
    ASSUME NEW x, NEW gone, LockstepOf(x, gone), ~x.sched.inFlight
    PROVE  x.tasks = {} /\ Gathering(x)
BY DEF LockstepOf, Serving, Marching

\* A report of a computed layer is of the layer all march in.
LEMMA ReportsLayer ==
    ASSUME NEW x, NEW gone, LockstepOf(x, gone), NEW w \in x.unheard, x.unheard \subseteq Attn,
           x.sched.inFlight
    PROVE  /\ x.tasks = {} /\ Marching(x)
           /\ \A v \in Attn : InLayer(x.cells[v], x.cells[w].layer)
<1>1. x.tasks = {}
  BY DEF LockstepOf, Serving
<1>2. Marching(x)
  BY <1>1 DEF LockstepOf, Gathering
<1>. QED  BY <1>1, <1>2 DEF Marching, InLayer

\* on_iter_start counts a worker: the last of them makes the Bootstrap.
LEMMA HeardStart ==
    ASSUME NEW x, NEW y, NEW gone, LockstepOf(x, gone), IsView(x), ~x.sched.inFlight,
           NEW w \in x.unheard, x.cells[w].announced,
           y.cells = x.cells, y.unheard = x.unheard \ {w},
           NEW b, b.count = x.sched.start.count + 1,
           b.reqs = x.sched.start.reqs \cup x.cells[w].members,
           BatchOf(x, Attn) \cap gone = {},
           \/ /\ b.count # NumAttn /\ y.tasks = x.tasks
              /\ ~y.sched.inFlight /\ y.sched.barrier = x.sched.barrier
              /\ y.sched.start.count = b.count /\ y.sched.start.reqs = b.reqs
           \/ /\ b.count = NumAttn
              /\ y.sched.inFlight /\ y.sched.start = EmptyStart /\ y.sched.barrier = EmptyBarrier
              /\ \E p : y.tasks = {p} /\ p.task.layer = Start /\ p.task.reqs = b.reqs
    PROVE  LockstepOf(y, gone) /\ Hears(x, y) /\ (b.count = NumAttn => y.unheard = {})
           /\ b.reqs \subseteq BatchOf(x, Attn)
<1>1. x.tasks = {} /\ Gathering(x)
  BY NotInFlight
<1>2. w \in Attn /\ x.unheard \subseteq Attn
  BY DEF IsView
<1> DEFINE H == Announced(x)
<1>3. H \in SUBSET Attn /\ w \notin H
  BY DEF Announced
<1>4. Cardinality(H) \in Nat /\ Cardinality(H \cup {w}) = Cardinality(H) + 1
      /\ ((Cardinality(H) + 1 = NumAttn) <=> (H \cup {w} = Attn))
  BY <1>2, <1>3, OneMore
<1>5. Announced(y) = H \cup {w}
  BY <1>2 DEF Announced
<1>6. b.count = Cardinality(H) + 1
  BY <1>1 DEF Gathering
<1>7. b.reqs = BatchOf(x, H \cup {w})
  <2>1. x.sched.start.reqs = BatchOf(x, H)
    BY <1>1 DEF Gathering
  <2>2. BatchOf(x, H \cup {w}) = BatchOf(x, H) \cup x.cells[w].members
    BY DEF BatchOf
  <2>. QED  BY <2>1, <2>2
<1>8. \A W : BatchOf(y, W) = BatchOf(x, W)
  BY DEF BatchOf
<1>9. b.reqs \subseteq BatchOf(x, Attn)
  BY <1>2, <1>3, <1>7 DEF BatchOf
<1> HIDE DEF H
<1>10. CASE /\ b.count # NumAttn /\ y.tasks = x.tasks
            /\ ~y.sched.inFlight /\ y.sched.barrier = x.sched.barrier
            /\ y.sched.start.count = b.count /\ y.sched.start.reqs = b.reqs
  <2>1. H \cup {w} # Attn
    BY <1>4, <1>6, <1>10
  <2>2. Gathering(y)
    BY <1>1, <1>4, <1>5, <1>6, <1>7, <1>8, <1>10, <2>1 DEF Gathering
  <2>3. LockstepOf(y, gone)
    BY <1>1, <1>10, <2>2 DEF LockstepOf
  <2>4. HeardIn(x) = H /\ HeardIn(y) = H \cup {w}
    BY <1>1, <1>5, <1>10 DEF HeardIn, H
  <2>5. CollectedOf(x) = Start /\ CollectedOf(y) = Start
    BY <1>1, <1>10 DEF CollectedOf
  <2>6. Hears(x, y)
    BY <1>1, <1>2, <1>3, <1>10, <2>1, <2>4, <2>5 DEF Hears
  <2>. QED  BY <1>9, <1>10, <2>3, <2>6
<1>11. CASE /\ b.count = NumAttn
            /\ y.sched.inFlight /\ y.sched.start = EmptyStart /\ y.sched.barrier = EmptyBarrier
            /\ \E p : y.tasks = {p} /\ p.task.layer = Start /\ p.task.reqs = b.reqs
  <2>1. H \cup {w} = Attn
    BY <1>4, <1>6, <1>11
  <2>2. PICK p : y.tasks = {p} /\ p.task.layer = Start /\ p.task.reqs = b.reqs
    BY <1>11
  <2>3. \A v \in Attn : y.cells[v].announced /\ v \notin y.unheard
    BY <1>5, <2>1 DEF Announced
  <2>4. y.unheard = {}
    BY <1>2, <2>3
  <2>5. \A v \in Attn : Expects(y.cells[v], Start)
    BY <1>1, <2>3, Universe DEF Gathering, AtRest, Expects
  <2>6. BatchOf(y, Attn) = b.reqs \ gone
    BY <1>7, <1>8, <2>1
  <2>7. LockstepOf(y, gone)
    BY <1>11, <2>2, <2>4, <2>5, <2>6 DEF LockstepOf, Serving
  <2>8. HeardIn(x) = H /\ HeardIn(y) = Attn
    BY <1>1, <2>2 DEF HeardIn, H, Gathering
  <2>9. CollectedOf(x) = Start /\ CollectedOf(y) = Start
    <3>1. (CHOOSE u \in y.tasks : TRUE) = p
      BY <2>2
    <3>. QED  BY <1>1, <2>2, <3>1 DEF CollectedOf, Gathering
  <2>10. Hears(x, y)
    BY <1>1, <1>2, <1>3, <2>1, <2>2, <2>8, <2>9 DEF Hears
  <2>. QED  BY <1>9, <2>4, <2>7, <2>10
<1>. QED  BY <1>10, <1>11

\* advance_slot_layer before the last layer.
FlushedCell(c, d) ==
    /\ d.members = c.members /\ d.announced = c.announced /\ d.layer = c.layer + 1
    /\ d.state = "Wait" /\ ~d.notified

\* on_layer_output counts a worker: the last of them makes the layer's task.
LEMMA HeardLayer ==
    ASSUME NEW x, NEW y, NEW gone, LockstepOf(x, gone), IsView(x), x.sched.inFlight,
           NEW w \in x.unheard, x.cells[w].state = "AwaitFlush",
           NEW layer, layer = x.cells[w].layer,
           y.unheard = x.unheard \ {w},
           NEW b, b.count = x.sched.barrier.count + 1,
           b.reqs = x.sched.barrier.reqs \cup x.cells[w].members,
           BatchOf(x, Attn) \cap gone = {},
           y.sched.inFlight, y.sched.start = x.sched.start,
           \/ /\ b.count # NumAttn /\ y.tasks = x.tasks /\ y.cells = x.cells
              /\ y.sched.barrier.count = b.count /\ y.sched.barrier.reqs = b.reqs
           \/ /\ b.count = NumAttn /\ y.sched.barrier = EmptyBarrier
              /\ IF layer = Last THEN y.cells = x.cells
                 ELSE \A v \in Attn :
                        (x.cells[v].state = "AwaitFlush" /\ x.cells[v].layer = layer)
                            => FlushedCell(x.cells[v], y.cells[v])
              /\ \E p : y.tasks = {p} /\ p.task.layer = layer /\ p.task.reqs = b.reqs
    PROVE  LockstepOf(y, gone) /\ Hears(x, y) /\ (b.count = NumAttn => y.unheard = {})
           /\ b.reqs \subseteq BatchOf(x, Attn)
<1>1. /\ x.tasks = {} /\ Marching(x) /\ \A v \in Attn : InLayer(x.cells[v], layer)
  BY ReportsLayer DEF IsView
<1>2. w \in Attn /\ x.unheard \subseteq Attn /\ layer \in 0 .. Last
  BY DEF IsView, Cell
<1> DEFINE H == Computed(x)
<1>3. H \in SUBSET Attn /\ w \notin H
  BY DEF Computed
<1>4. Cardinality(H) \in Nat /\ Cardinality(H \cup {w}) = Cardinality(H) + 1
      /\ ((Cardinality(H) + 1 = NumAttn) <=> (H \cup {w} = Attn))
  BY <1>2, <1>3, OneMore
<1>5. H \cup {w} = { v \in Attn : x.cells[v].state = "AwaitFlush" } \ y.unheard
  BY <1>2 DEF Computed
<1>6. b.count = Cardinality(H) + 1
  BY <1>1 DEF Marching
<1>7. b.reqs = BatchOf(x, H \cup {w})
  <2>1. x.sched.barrier.reqs = BatchOf(x, H)
    BY <1>1 DEF Marching
  <2>2. BatchOf(x, H \cup {w}) = BatchOf(x, H) \cup x.cells[w].members
    BY DEF BatchOf
  <2>. QED  BY <2>1, <2>2
<1>8. b.reqs \subseteq BatchOf(x, Attn)
  BY <1>2, <1>3, <1>7 DEF BatchOf
<1>9. HeardIn(x) = H /\ CollectedOf(x) = layer
  BY <1>1, Universe DEF HeardIn, CollectedOf, InLayer
<1> HIDE DEF H
<1>10. CASE /\ b.count # NumAttn /\ y.tasks = x.tasks /\ y.cells = x.cells
            /\ y.sched.barrier.count = b.count /\ y.sched.barrier.reqs = b.reqs
  <2>1. H \cup {w} # Attn
    BY <1>4, <1>6, <1>10
  <2>2. Computed(y) = H \cup {w} /\ \A W : BatchOf(y, W) = BatchOf(x, W)
    BY <1>5, <1>10 DEF Computed, BatchOf
  <2>3. Marching(y)
    BY <1>1, <1>2, <1>4, <1>6, <1>7, <1>10, <2>1, <2>2 DEF Marching
  <2>4. LockstepOf(y, gone)
    BY <1>1, <1>10, <2>3 DEF LockstepOf
  <2>5. HeardIn(y) = H \cup {w} /\ CollectedOf(y) = layer
    BY <1>1, <1>10, <2>2, Universe DEF HeardIn, CollectedOf, InLayer
  <2>6. Hears(x, y)
    BY <1>1, <1>2, <1>3, <1>9, <1>10, <2>1, <2>5 DEF Hears
  <2>. QED  BY <1>8, <1>10, <2>4, <2>6
<1>11. CASE /\ b.count = NumAttn /\ y.sched.barrier = EmptyBarrier
            /\ IF layer = Last THEN y.cells = x.cells
               ELSE \A v \in Attn :
                      (x.cells[v].state = "AwaitFlush" /\ x.cells[v].layer = layer)
                          => FlushedCell(x.cells[v], y.cells[v])
            /\ \E p : y.tasks = {p} /\ p.task.layer = layer /\ p.task.reqs = b.reqs
  <2>1. H \cup {w} = Attn
    BY <1>4, <1>6, <1>11
  <2>2. PICK p : y.tasks = {p} /\ p.task.layer = layer /\ p.task.reqs = b.reqs
    BY <1>11
  <2>3. \A v \in Attn : x.cells[v].state = "AwaitFlush" /\ v \notin y.unheard
    BY <1>5, <2>1
  <2>4. y.unheard = {}
    BY <1>2, <2>3
  <2>5. /\ \A v \in Attn : Expects(y.cells[v], layer)
        /\ \A v \in Attn : y.cells[v].members = x.cells[v].members
    <3>1. CASE layer = Last
      BY <1>1, <1>11, <2>3, <3>1 DEF Expects, InLayer
    <3>2. CASE layer # Last
      <4>1. \A v \in Attn : FlushedCell(x.cells[v], y.cells[v])
        BY <1>1, <1>11, <2>3, <3>2 DEF InLayer
      <4>. QED  BY <1>1, <3>2, <4>1 DEF Expects, FlushedCell, InLayer
    <3>. QED  BY <3>1, <3>2
  <2>6. BatchOf(y, Attn) = b.reqs \ gone
    <3>1. BatchOf(y, Attn) = BatchOf(x, Attn)
      BY <2>5 DEF BatchOf
    <3>. QED  BY <1>7, <2>1, <3>1
  <2>7. LockstepOf(y, gone)
    <3>1. x.sched.start = EmptyStart
      BY <1>1 DEF Marching
    <3>. QED  BY <1>11, <2>2, <2>4, <2>5, <2>6, <3>1 DEF LockstepOf, Serving
  <2>8. HeardIn(y) = Attn /\ CollectedOf(y) = layer
    <3>1. (CHOOSE u \in y.tasks : TRUE) = p
      BY <2>2
    <3>. QED  BY <2>2, <3>1 DEF CollectedOf, HeardIn
  <2>9. Hears(x, y)
    BY <1>1, <1>2, <1>3, <1>9, <2>1, <2>2, <2>8 DEF Hears
  <2>. QED  BY <1>8, <2>4, <2>7, <2>9
<1>. QED  BY <1>10, <1>11

\* The result of a layer before the last reaches every worker: the next begins.
LEMMA ScatteredSlot ==
    ASSUME NEW x, NEW y, NEW gone, LockstepOf(x, gone), IsView(x),
           NEW p \in x.tasks, p.task.layer # Last,
           y.tasks = {}, y.sched = x.sched, y.unheard = {},
           \A w \in Attn : /\ y.cells[w].members = x.cells[w].members
                           /\ y.cells[w].layer = x.cells[w].layer
                           /\ y.cells[w].announced = x.cells[w].announced
                           /\ y.cells[w].state = x.cells[w].state
                           /\ (x.cells[w].layer = p.task.layer + 1 /\ x.cells[w].state = "Wait")
                                 => y.cells[w].notified
    PROVE  LockstepOf(y, gone) /\ Finishes(x, y)
<1>1. Serving(x, p.task, gone) /\ x.tasks = {p}
  BY DEF LockstepOf
<1> DEFINE layer == p.task.layer + 1
<1>2. layer \in 0 .. Last /\ p.task.layer \in Start .. Last
  BY Universe DEF IsView
<1>3. \A w \in Attn : x.cells[w].layer = layer /\ x.cells[w].state = "Wait" /\ x.cells[w].announced
  BY <1>1 DEF Serving, Expects
<1>4. \A w \in Attn : InLayer(y.cells[w], layer) /\ y.cells[w].state = "Wait"
  BY <1>3 DEF InLayer
<1>5. Computed(y) = {}
  BY <1>4 DEF Computed
<1>6. Marching(y)
  BY <1>1, <1>2, <1>4, <1>5, NoneHeard DEF Marching, Serving, BatchOf, EmptyBarrier
<1>7. LockstepOf(y, gone)
  BY <1>6 DEF LockstepOf
<1>8. HeardIn(y) = {} /\ CollectedOf(y) = layer
  BY <1>4, <1>5, <1>6, Universe DEF HeardIn, CollectedOf, Marching, InLayer
<1>9. CollectedOf(x) = p.task.layer
  <2>1. (CHOOSE u \in x.tasks : TRUE) = p
    BY <1>1
  <2>. QED  BY <2>1 DEF CollectedOf
<1>. QED  BY <1>7, <1>8, <1>9 DEF Finishes

\* The Terminal's iteration is over: the slot is free.
LEMMA FinishedSlot ==
    ASSUME NEW x, NEW y, NEW gone, LockstepOf(x, gone), IsView(x),
           NEW p \in x.tasks, p.task.layer = Last,
           y.tasks = {}, y.unheard = {},
           ~y.sched.inFlight, y.sched.start = x.sched.start, y.sched.barrier = EmptyBarrier,
           \A w \in Attn : (x.cells[w].state = "AwaitFlush" /\ x.cells[w].layer = Last)
                               => AtRest(y.cells[w]) /\ ~y.cells[w].announced
    PROVE  LockstepOf(y, gone) /\ Finishes(x, y)
<1>1. Serving(x, p.task, gone) /\ x.tasks = {p}
  BY DEF LockstepOf
<1>2. \A w \in Attn : AtRest(y.cells[w]) /\ ~y.cells[w].announced
  BY <1>1 DEF Serving, Expects
<1>3. Announced(y) = {}
  BY <1>2 DEF Announced
<1>4. Gathering(y)
  BY <1>1, <1>2, <1>3, NoneHeard DEF Gathering, Serving, BatchOf, EmptyStart
<1>5. LockstepOf(y, gone)
  BY <1>4 DEF LockstepOf
<1>6. HeardIn(y) = {} /\ CollectedOf(y) = Start
  BY <1>3 DEF HeardIn, CollectedOf
<1>7. CollectedOf(x) = Last
  <2>1. (CHOOSE u \in x.tasks : TRUE) = p
    BY <1>1
  <2>. QED  BY <2>1 DEF CollectedOf
<1>. QED  BY <1>5, <1>6, <1>7 DEF Finishes

\* A completed request leaves its slot before the iteration is over.
RequestLeft(x, y, r) ==
    /\ \E p \in x.tasks : p.task.layer = Last
    /\ y.sched = x.sched /\ y.unheard = x.unheard /\ SameTasks(x.tasks, y.tasks)
    /\ \A w \in Attn : /\ y.cells[w].members = x.cells[w].members \ {r}
                       /\ y.cells[w].layer = x.cells[w].layer
                       /\ y.cells[w].state = x.cells[w].state

\* Its batch is that of the task without the request.
LEMMA ReleasedSlot ==
    ASSUME NEW x, NEW y, NEW gone, LockstepOf(x, gone), NEW r, NEW gone2, gone2 = gone \cup {r},
           RequestLeft(x, y, r)
    PROVE  LockstepOf(y, gone2) /\ SameBarrier(x, y)
<1>0. PICK p \in x.tasks : p.task.layer = Last
  BY DEF RequestLeft
<1>10. /\ y.sched = x.sched /\ y.unheard = x.unheard /\ SameTasks(x.tasks, y.tasks)
      /\ \A w \in Attn : /\ y.cells[w].members = x.cells[w].members \ {r}
                         /\ y.cells[w].layer = x.cells[w].layer
                         /\ y.cells[w].state = x.cells[w].state
  BY DEF RequestLeft
<1>1. Serving(x, p.task, gone) /\ x.tasks = {p}
  BY DEF LockstepOf
<1>2. \A q, u \in y.tasks : q = u
  BY <1>1, <1>10 DEF SameTasks
<1>3. PICK q \in y.tasks : SameTask(p.task, q.task)
  BY <1>1, <1>10 DEF SameTasks
<1>4. y.tasks = {q}
  BY <1>2
<1>5. \A w \in Attn : Expects(y.cells[w], Last)
  BY <1>0, <1>1, <1>10 DEF Serving, Expects
<1>6. BatchOf(y, Attn) = q.task.reqs \ gone2
  <2>1. BatchOf(y, Attn) = BatchOf(x, Attn) \ {r}
    BY <1>10 DEF BatchOf
  <2>. QED  BY <1>1, <1>3, <2>1 DEF Serving, SameTask
<1>7. Serving(y, q.task, gone2)
  BY <1>0, <1>1, <1>3, <1>5, <1>6, <1>10 DEF Serving, SameTask
<1>8. LockstepOf(y, gone2)
  BY <1>4, <1>7 DEF LockstepOf
<1>9. SameBarrier(x, y)
  <2>1. (CHOOSE u \in x.tasks : TRUE) = p /\ (CHOOSE u \in y.tasks : TRUE) = q
    BY <1>1, <1>4
  <2>. QED  BY <1>0, <1>1, <1>3, <1>4, <1>10, <2>1 DEF SameBarrier, CollectedOf, HeardIn, SameTask
<1>. QED  BY <1>8, <1>9

-----------------------------------------------------------------------------
(* Where the tasks are: with an FFN worker f at <<f, i>>, i > 0 in its queue, *)
(* 0 pulled, -1 computed, or at <<-1, i>>, an event not delivered yet.        *)

Core(t) == [slot |-> t.slot, layer |-> t.layer, reqs |-> t.reqs]

Spots == (Ffn \cup {-1}) \X Int

TaskAt(F, E, x) ==
    IF x[1] = -1 THEN IF x[2] \in 1 .. Len(E) THEN Core(E[x[2]]) ELSE NoTask
    ELSE IF x[2] = 0 THEN F[x[1]].pulling
    ELSE IF x[2] = -1 THEN F[x[1]].computing
    ELSE IF x[2] \in 1 .. Len(F[x[1]].incoming) THEN F[x[1]].incoming[x[2]]
    ELSE NoTask

\* InFlightTasks of the workers F and the events E.
Flight(F, E, s) == CarriedBy(F, s) \cup Tells(E, s)

Carrying(F, E) ==
    /\ \A f \in Ffn : /\ F[f].incoming \in Seq(Tasks)
                      /\ F[f].pulling \in Tasks \cup {NoTask}
                      /\ F[f].computing \in Tasks \cup {NoTask}
    /\ E \in Seq(FfnEvents)

NowDelivered(t) == IF t.stage = "ffn" THEN t.events ELSE << >>

\* The tasks of the state, and of the next one.
LEMMA InFlightIs ==
    /\ \A s : InFlightTasks(s) = Flight(ffn, NowDelivered(tick), s)
    /\ \A s : InFlightTasks(s)' = Flight(ffn', NowDelivered(tick'), s)
<1>1. /\ Len(<< >>) = 0 /\ 1 .. 0 = {}
  OBVIOUS
<1>2. \A s : InFlightTasks(s) = Flight(ffn, NowDelivered(tick), s)
  <2>1. CASE tick.stage = "ffn"
    BY <2>1 DEF InFlightTasks, Flight, Tells, NowDelivered
  <2>2. CASE tick.stage # "ffn"
    BY <1>1, <2>2 DEF InFlightTasks, Flight, Tells, NowDelivered
  <2>. QED  BY <2>1, <2>2
<1>3. \A s : InFlightTasks(s)' = Flight(ffn', NowDelivered(tick'), s)
  <2>1. CASE tick'.stage = "ffn"
    BY <2>1 DEF InFlightTasks, Flight, Tells, NowDelivered
  <2>2. CASE tick'.stage # "ffn"
    BY <1>1, <2>2 DEF InFlightTasks, Flight, Tells, NowDelivered
  <2>. QED  BY <2>1, <2>2
<1>. QED  BY <1>2, <1>3

\* A task in flight is the task of a spot.
LEMMA FlightSpots ==
    ASSUME NEW F, NEW E, Carrying(F, E), NEW s
    PROVE  /\ \A p \in Flight(F, E, s) :
                 /\ p.at \in Spots /\ TaskAt(F, E, p.at) # NoTask
                 /\ SameTask(TaskAt(F, E, p.at), p.task) /\ p.task.slot = s
                 /\ p.task.layer \in Start .. Last
           /\ \A x \in Spots :
                 (TaskAt(F, E, x) # NoTask /\ TaskAt(F, E, x).slot = s)
                     => \E p \in Flight(F, E, s) : p.at = x
           /\ \A p, q \in Flight(F, E, s) : p.at = q.at => p = q
<1>0. Ffn \subseteq Nat /\ NoTask \notin Tasks /\ -1 \notin Ffn
  BY Universe, AfdAssumption
<1> DEFINE Queued(p, f, i) == /\ i \in 1 .. Len(F[f].incoming) /\ F[f].incoming[i] # NoTask
                              /\ F[f].incoming[i].slot = s
                              /\ p = [at |-> << f, i >>, task |-> F[f].incoming[i]]
           Pulled(p, f) == /\ F[f].pulling # NoTask /\ F[f].pulling.slot = s
                           /\ p = [at |-> << f, 0 >>, task |-> F[f].pulling]
           Run(p, f) == /\ F[f].computing # NoTask /\ F[f].computing.slot = s
                        /\ p = [at |-> << f, -1 >>, task |-> F[f].computing]
           Event(p, i) == /\ i \in 1 .. Len(E) /\ E[i].slot = s
                          /\ p = [at |-> << -1, i >>, task |-> E[i]]
<1>1. ASSUME NEW p PROVE p \in Flight(F, E, s) <=>
          \/ \E f \in Ffn : \/ \E i \in 1 .. Len(F[f].incoming) : Queued(p, f, i)
                            \/ Pulled(p, f) \/ Run(p, f)
          \/ \E i \in 1 .. Len(E) : Event(p, i)
  <2>1. \A f : p \in Carries(F[f], f, s)
                  <=> (\E i \in 1 .. Len(F[f].incoming) : Queued(p, f, i)) \/ Pulled(p, f) \/ Run(p, f)
    BY DEF Carries, Carried
  <2>2. p \in Tells(E, s) <=> \E i \in 1 .. Len(E) : Event(p, i)
    BY DEF Tells
  <2> HIDE DEF Queued, Pulled, Run, Event
  <2>3. p \in Flight(F, E, s) <=> (\E f \in Ffn : p \in Carries(F[f], f, s)) \/ p \in Tells(E, s)
    <3>1. ASSUME NEW f \in Ffn, p \in Carries(F[f], f, s) PROVE p \in CarriedBy(F, s)
      BY <3>1 DEF CarriedBy
    <3>2. ASSUME p \in CarriedBy(F, s) PROVE \E f \in Ffn : p \in Carries(F[f], f, s)
      BY <3>2 DEF CarriedBy
    <3>. QED  BY <3>1, <3>2 DEF Flight
  <2>. QED  BY <2>1, <2>2, <2>3
<1>2. \A f \in Ffn : /\ \A i \in 1 .. Len(F[f].incoming) : F[f].incoming[i] \in Tasks
                     /\ Len(F[f].incoming) \in Nat
                     /\ F[f].pulling \in Tasks \cup {NoTask}
                     /\ F[f].computing \in Tasks \cup {NoTask}
  BY DEF Carrying
<1>3. Len(E) \in Nat /\ \A i \in 1 .. Len(E) : Core(E[i]) \in Tasks /\ E[i] \in FfnEvents
  <2>1. Len(E) \in Nat /\ \A i \in 1 .. Len(E) : E[i] \in FfnEvents
    BY DEF Carrying
  <2>2. \A e \in FfnEvents : Core(e) \in Tasks
    BY DEF FfnEvents, Tasks, Core
  <2>. QED  BY <2>1, <2>2
<1>4. ASSUME NEW p \in Flight(F, E, s)
      PROVE  /\ p.at \in Spots /\ TaskAt(F, E, p.at) # NoTask
             /\ SameTask(TaskAt(F, E, p.at), p.task) /\ p.task.slot = s
             /\ p.task.layer \in Start .. Last
  <2>1. ASSUME NEW f \in Ffn, NEW i \in 1 .. Len(F[f].incoming), Queued(p, f, i)
        PROVE  /\ p.at \in Spots /\ TaskAt(F, E, p.at) = F[f].incoming[i]
               /\ p.task = F[f].incoming[i] /\ p.task \in Tasks /\ p.task.slot = s
    <3>1. i \in Int /\ i # 0 /\ i # -1 /\ f # -1
      BY <1>0, <1>2
    <3>. QED  BY <1>2, <2>1, <3>1 DEF Spots, TaskAt
  <2>2. ASSUME NEW f \in Ffn, Pulled(p, f)
        PROVE  /\ p.at \in Spots /\ TaskAt(F, E, p.at) = F[f].pulling
               /\ p.task = F[f].pulling /\ p.task \in Tasks /\ p.task.slot = s
    BY <1>0, <1>2, <2>2 DEF Spots, TaskAt
  <2>3. ASSUME NEW f \in Ffn, Run(p, f)
        PROVE  /\ p.at \in Spots /\ TaskAt(F, E, p.at) = F[f].computing
               /\ p.task = F[f].computing /\ p.task \in Tasks /\ p.task.slot = s
    BY <1>0, <1>2, <2>3 DEF Spots, TaskAt
  <2>4. ASSUME NEW i \in 1 .. Len(E), Event(p, i)
        PROVE  /\ p.at \in Spots /\ TaskAt(F, E, p.at) = Core(E[i])
               /\ p.task = E[i] /\ p.task \in FfnEvents /\ p.task.slot = s
    BY <1>3, <2>4 DEF Spots, TaskAt
  <2>5. ASSUME NEW f \in Ffn,
               \/ \E i \in 1 .. Len(F[f].incoming) : Queued(p, f, i)
               \/ Pulled(p, f) \/ Run(p, f)
        PROVE  p.at \in Spots /\ TaskAt(F, E, p.at) = p.task /\ p.task \in Tasks /\ p.task.slot = s
    <3> HIDE DEF Queued, Pulled, Run
    <3>. QED  BY <2>1, <2>2, <2>3, <2>5
  <2>6. CASE \E i \in 1 .. Len(E) : Event(p, i)
    <3> HIDE DEF Event
    <3>1. PICK i \in 1 .. Len(E) : Event(p, i)
      BY <2>6
    <3>2. /\ p.at \in Spots /\ TaskAt(F, E, p.at) = Core(p.task)
          /\ Core(p.task) \in Tasks /\ p.task \in FfnEvents /\ p.task.slot = s
      BY <1>3, <2>4, <3>1
    <3>. QED  BY <1>0, <3>2 DEF SameTask, Core, FfnEvents
  <2>7. CASE \E f \in Ffn : \/ \E i \in 1 .. Len(F[f].incoming) : Queued(p, f, i)
                            \/ Pulled(p, f) \/ Run(p, f)
    <3> HIDE DEF Queued, Pulled, Run
    <3>1. p.at \in Spots /\ TaskAt(F, E, p.at) = p.task /\ p.task \in Tasks /\ p.task.slot = s
      BY <2>5, <2>7
    <3>. QED  BY <1>0, <3>1 DEF SameTask, Tasks
  <2> HIDE DEF Queued, Pulled, Run, Event
  <2>. QED  BY <1>1, <2>6, <2>7
<1>5. ASSUME NEW x \in Spots, TaskAt(F, E, x) # NoTask, TaskAt(F, E, x).slot = s
      PROVE  \E p \in Flight(F, E, s) : p.at = x
  <2>1. x = << x[1], x[2] >> /\ x[1] \in Ffn \cup {-1} /\ x[2] \in Int
    BY DEF Spots
  <2>2. CASE x[1] = -1
    <3>1. x[2] \in 1 .. Len(E) /\ E[x[2]].slot = s
      BY <1>5, <2>2 DEF TaskAt, Core
    <3>2. Event([at |-> x, task |-> E[x[2]]], x[2])
      BY <2>1, <2>2, <3>1
    <3> HIDE DEF Queued, Pulled, Run, Event
    <3>3. [at |-> x, task |-> E[x[2]]] \in Flight(F, E, s)
      BY <1>1, <3>1, <3>2
    <3>. QED  BY <3>3
  <2>3. CASE x[1] \in Ffn
    <3>0. x[1] # -1
      BY <1>0, <2>3
    <3>1. CASE x[2] = 0
      <4>1. Pulled([at |-> x, task |-> F[x[1]].pulling], x[1])
        BY <1>5, <2>1, <3>0, <3>1 DEF TaskAt
      <4> HIDE DEF Queued, Pulled, Run, Event
      <4>2. [at |-> x, task |-> F[x[1]].pulling] \in Flight(F, E, s)
        BY <1>1, <2>3, <4>1
      <4>. QED  BY <4>2
    <3>2. CASE x[2] = -1
      <4>1. Run([at |-> x, task |-> F[x[1]].computing], x[1])
        BY <1>5, <2>1, <3>0, <3>2 DEF TaskAt
      <4> HIDE DEF Queued, Pulled, Run, Event
      <4>2. [at |-> x, task |-> F[x[1]].computing] \in Flight(F, E, s)
        BY <1>1, <2>3, <4>1
      <4>. QED  BY <4>2
    <3>3. CASE x[2] # 0 /\ x[2] # -1
      <4>0. x[2] \in 1 .. Len(F[x[1]].incoming)
        BY <1>5, <3>0, <3>3 DEF TaskAt
      <4>1. Queued([at |-> x, task |-> F[x[1]].incoming[x[2]]], x[1], x[2])
        BY <1>5, <2>1, <3>0, <3>3, <4>0 DEF TaskAt
      <4> HIDE DEF Queued, Pulled, Run, Event
      <4>2. [at |-> x, task |-> F[x[1]].incoming[x[2]]] \in Flight(F, E, s)
        BY <1>1, <2>3, <4>0, <4>1
      <4>. QED  BY <4>2
    <3>. QED  BY <3>1, <3>2, <3>3
  <2>. QED  BY <2>1, <2>2, <2>3
<1> DEFINE Held(x) == IF x[1] = -1 THEN E[x[2]] ELSE TaskAt(F, E, x)
<1>6. ASSUME NEW p \in Flight(F, E, s) PROVE p = [at |-> p.at, task |-> Held(p.at)]
  <2>1. ASSUME NEW f \in Ffn, NEW i \in 1 .. Len(F[f].incoming), Queued(p, f, i)
        PROVE  p = [at |-> p.at, task |-> Held(p.at)]
    <3>1. i \in Int /\ i # 0 /\ i # -1 /\ f # -1
      BY <1>0, <1>2
    <3>. QED  BY <1>2, <2>1, <3>1 DEF TaskAt
  <2>2. ASSUME NEW f \in Ffn, Pulled(p, f) PROVE p = [at |-> p.at, task |-> Held(p.at)]
    BY <1>0, <2>2 DEF TaskAt
  <2>3. ASSUME NEW f \in Ffn, Run(p, f) PROVE p = [at |-> p.at, task |-> Held(p.at)]
    BY <1>0, <2>3 DEF TaskAt
  <2>4. ASSUME NEW i \in 1 .. Len(E), Event(p, i) PROVE p = [at |-> p.at, task |-> Held(p.at)]
    BY <2>4
  <2> HIDE DEF Queued, Pulled, Run, Event, Held
  <2>. QED  BY <1>1, <2>1, <2>2, <2>3, <2>4
<1>7. \A p, q \in Flight(F, E, s) : p.at = q.at => p = q
  <2> HIDE DEF Held
  <2>1. SUFFICES ASSUME NEW p \in Flight(F, E, s), NEW q \in Flight(F, E, s), p.at = q.at
                 PROVE  p = q
    OBVIOUS
  <2>2. p = [at |-> p.at, task |-> Held(p.at)] /\ q = [at |-> q.at, task |-> Held(q.at)]
    BY <1>6
  <2>. QED  BY <2>1, <2>2
<1>. QED  BY <1>4, <1>5, <1>7

\* The tasks are the same, and none went back to an FFN worker.
Moved(T, U) ==
    /\ SameTasks(T, U)
    /\ \A q \in U : \E p \in T :
          SameTask(p.task, q.task) /\ (q.at[1] # -1 => p.at[1] # -1)

\* Every task of the slot has moved from one spot to another.
LEMMA Relocated ==
    ASSUME NEW F, NEW E, Carrying(F, E), NEW G, NEW D, Carrying(G, D), NEW s, NEW from,
           \A x \in Spots : (TaskAt(G, D, x) # NoTask /\ TaskAt(G, D, x).slot = s) =>
               /\ from[x] \in Spots /\ TaskAt(F, E, from[x]) = TaskAt(G, D, x)
               /\ x[1] # -1 => from[x][1] # -1,
           \A x, y \in Spots :
               (/\ TaskAt(G, D, x) # NoTask /\ TaskAt(G, D, y) # NoTask
                /\ from[x] = from[y]) => x = y,
           \A x \in Spots : (TaskAt(F, E, x) # NoTask /\ TaskAt(F, E, x).slot = s) =>
               \E y \in Spots : TaskAt(G, D, y) = TaskAt(F, E, x)
    PROVE  Moved(Flight(F, E, s), Flight(G, D, s))
<1> DEFINE T == Flight(F, E, s)
           U == Flight(G, D, s)
<1>1. ASSUME NEW q \in U
      PROVE  /\ q.at \in Spots
             /\ \E p \in T : /\ p.at = from[q.at] /\ SameTask(p.task, q.task)
                             /\ q.at[1] # -1 => p.at[1] # -1
  <2>1. /\ q.at \in Spots /\ TaskAt(G, D, q.at) # NoTask
        /\ SameTask(TaskAt(G, D, q.at), q.task) /\ q.task.slot = s
    BY FlightSpots
  <2>2. TaskAt(G, D, q.at).slot = s
    BY <2>1 DEF SameTask
  <2>3. /\ from[q.at] \in Spots /\ TaskAt(F, E, from[q.at]) = TaskAt(G, D, q.at)
        /\ q.at[1] # -1 => from[q.at][1] # -1
    BY <2>1, <2>2
  <2>4. PICK p \in T : p.at = from[q.at]
    BY <2>1, <2>2, <2>3, FlightSpots
  <2>5. SameTask(TaskAt(F, E, p.at), p.task)
    BY FlightSpots
  <2>. QED  BY <2>1, <2>3, <2>4, <2>5 DEF SameTask
<1>2. \A q \in U : TaskAt(G, D, q.at) # NoTask
  BY FlightSpots
<1>3. ASSUME \A p, q \in T : p = q, NEW q1 \in U, NEW q2 \in U PROVE q1 = q2
  <2>1. from[q1.at] = from[q2.at]
    BY <1>1, <1>3
  <2>2. q1.at = q2.at
    BY <1>1, <1>2, <2>1
  <2>. QED  BY <2>2, FlightSpots
<1>4. ASSUME NEW p \in T PROVE U # {}
  <2>1. p.at \in Spots /\ TaskAt(F, E, p.at) # NoTask /\ TaskAt(F, E, p.at).slot = s
    BY FlightSpots DEF SameTask
  <2>2. PICK y \in Spots : TaskAt(G, D, y) = TaskAt(F, E, p.at)
    BY <2>1
  <2>3. TaskAt(G, D, y) # NoTask /\ TaskAt(G, D, y).slot = s
    BY <2>1, <2>2
  <2>4. \E q \in Flight(G, D, s) : q.at = y
    BY <2>3, FlightSpots
  <2>. QED  BY <2>4
<1> HIDE DEF T, U
<1>5. SameTasks(T, U)
  <2>1. T = {} <=> U = {}
    BY <1>1, <1>4
  <2>2. \A q \in U : \E p \in T : SameTask(p.task, q.task)
    BY <1>1
  <2>. QED  BY <1>3, <2>1, <2>2 DEF SameTasks
<1>6. \A q \in U : \E p \in T : SameTask(p.task, q.task) /\ (q.at[1] # -1 => p.at[1] # -1)
  BY <1>1
<1>. QED  BY <1>5, <1>6 DEF T, U, Moved

\* Nothing moves.
LEMMA StayedFlight ==
    ASSUME NEW F, NEW E, Carrying(F, E), NEW G, NEW D, Carrying(G, D), NEW s,
           \A x \in Spots : TaskAt(G, D, x) = TaskAt(F, E, x)
    PROVE  Moved(Flight(F, E, s), Flight(G, D, s))
<1> DEFINE from == [x \in Spots |-> x]
<1>1. \A x \in Spots : from[x] = x
  OBVIOUS
<1> HIDE DEF from
<1>2. \A x \in Spots : (TaskAt(G, D, x) # NoTask /\ TaskAt(G, D, x).slot = s) =>
          /\ from[x] \in Spots /\ TaskAt(F, E, from[x]) = TaskAt(G, D, x)
          /\ x[1] # -1 => from[x][1] # -1
  BY <1>1
<1>3. \A x, y \in Spots :
         (TaskAt(G, D, x) # NoTask /\ TaskAt(G, D, y) # NoTask /\ from[x] = from[y]) => x = y
  BY <1>1
<1>4. \A x \in Spots : (TaskAt(F, E, x) # NoTask /\ TaskAt(F, E, x).slot = s) =>
          \E y \in Spots : TaskAt(G, D, y) = TaskAt(F, E, x)
  OBVIOUS
<1>. QED  BY <1>2, <1>3, <1>4, Relocated

\* What the delivery of the first event e of E leaves of the tasks.
OneAtMost(T) == \A p, q \in T : p = q
FirstLeft(F, E, D, e, s) ==
    /\ s # e.slot => Moved(Flight(F, E, s), Flight(F, D, s))
    /\ s = e.slot => /\ Flight(F, D, s) = {}
                     /\ \E p \in Flight(F, E, s) : SameTask(p.task, e) /\ p.at[1] = -1

\* The first event is delivered: its slot has no task left.
LEMMA DeliveredFlight ==
    ASSUME NEW F, NEW E, Carrying(F, E), E # << >>, NEW s,
           OneAtMost(Flight(F, E, s))
    PROVE  Carrying(F, Tail(E)) /\ FirstLeft(F, E, Tail(E), Head(E), s)
<1> DEFINE D == Tail(E)
<1>0. Ffn \subseteq Nat /\ -1 \notin Ffn /\ NoTask \notin Tasks
  BY Universe, AfdAssumption
<1>1. /\ Len(E) \in Nat /\ Len(E) > 0 /\ E \in Seq(FfnEvents)
      /\ D \in Seq(FfnEvents) /\ Len(D) = Len(E) - 1
      /\ \A i \in 1 .. Len(D) : D[i] = E[i + 1]
      /\ E[1] = Head(E) /\ E[1] \in FfnEvents
  BY DEF Carrying
<1>2. Carrying(F, D)
  BY <1>1 DEF Carrying
<1> DEFINE after(x) == IF x[1] = -1 THEN x[2] + 1 ELSE x[2]
           from == [x \in Spots |-> << x[1], after(x) >>]
<1>3. \A x \in Spots : /\ from[x] \in Spots /\ x[2] \in Int
                       /\ from[x][1] = x[1] /\ from[x][2] = after(x)
  <2>1. SUFFICES ASSUME NEW x \in Spots
                 PROVE  /\ from[x] \in Spots /\ x[2] \in Int
                        /\ from[x][1] = x[1] /\ from[x][2] = after(x)
    OBVIOUS
  <2>2. from[x] = << x[1], after(x) >>
    OBVIOUS
  <2>3. x[1] \in Ffn \cup {-1} /\ x[2] \in Int /\ after(x) \in Int
    BY DEF Spots
  <2> HIDE DEF after, from
  <2>. QED  BY <2>2, <2>3 DEF Spots
<1> HIDE DEF from
<1>4. ASSUME NEW x \in Spots, TaskAt(F, D, x) # NoTask
      PROVE  TaskAt(F, E, from[x]) = TaskAt(F, D, x)
  <2>1. CASE x[1] = -1
    <3>1. x[2] \in 1 .. Len(D) /\ TaskAt(F, D, x) = Core(D[x[2]])
      BY <1>4, <2>1 DEF TaskAt
    <3>2. x[2] + 1 \in 1 .. Len(E) /\ D[x[2]] = E[x[2] + 1]
      BY <1>1, <3>1
    <3>3. from[x][1] = -1 /\ from[x][2] = x[2] + 1
      BY <1>3, <2>1
    <3>4. TaskAt(F, E, from[x]) = Core(E[x[2] + 1])
      BY <3>2, <3>3 DEF TaskAt
    <3>. QED  BY <3>1, <3>2, <3>4
  <2>2. CASE x[1] # -1
    <3>1. from[x][1] = x[1] /\ from[x][2] = x[2]
      BY <1>3, <2>2
    <3>. QED  BY <2>2, <3>1 DEF TaskAt
  <2>. QED  BY <2>1, <2>2
<1>5. ASSUME NEW x \in Spots, NEW y \in Spots, from[x] = from[y] PROVE x = y
  <2>1. x[1] = y[1] /\ after(x) = after(y) /\ x[2] \in Int /\ y[2] \in Int
    BY <1>3, <1>5
  <2>2. x[2] = y[2]
    BY <2>1
  <2>. QED  BY <2>1, <2>2 DEF Spots
<1>6. ASSUME s # Head(E).slot, NEW x \in Spots, TaskAt(F, E, x) # NoTask, TaskAt(F, E, x).slot = s
      PROVE  \E y \in Spots : TaskAt(F, D, y) = TaskAt(F, E, x)
  <2>1. CASE x[1] = -1
    <3>1. x[2] \in 1 .. Len(E) /\ TaskAt(F, E, x) = Core(E[x[2]])
      BY <1>6, <2>1 DEF TaskAt
    <3>2. x[2] # 1
      BY <1>1, <1>6, <3>1 DEF Core
    <3>3. x[2] - 1 \in 1 .. Len(D) /\ D[x[2] - 1] = E[x[2]]
      BY <1>1, <3>1, <3>2
    <3>4. << -1, x[2] - 1 >> \in Spots
      BY <3>1, <3>3 DEF Spots
    <3>5. TaskAt(F, D, << -1, x[2] - 1 >>) = Core(E[x[2]])
      BY <3>3 DEF TaskAt
    <3>. QED  BY <3>1, <3>4, <3>5
  <2>2. CASE x[1] # -1
    <3>1. TaskAt(F, D, x) = TaskAt(F, E, x)
      BY <2>2 DEF TaskAt
    <3>. QED  BY <3>1
  <2>. QED  BY <2>1, <2>2
<1>7. s # Head(E).slot => Moved(Flight(F, E, s), Flight(F, D, s))
  <2>1. SUFFICES ASSUME s # Head(E).slot PROVE Moved(Flight(F, E, s), Flight(F, D, s))
    OBVIOUS
  <2>2. \A x \in Spots : (TaskAt(F, D, x) # NoTask /\ TaskAt(F, D, x).slot = s) =>
            /\ from[x] \in Spots /\ TaskAt(F, E, from[x]) = TaskAt(F, D, x)
            /\ x[1] # -1 => from[x][1] # -1
    BY <1>3, <1>4
  <2>3. \A x, y \in Spots :
           (TaskAt(F, D, x) # NoTask /\ TaskAt(F, D, y) # NoTask /\ from[x] = from[y]) => x = y
    BY <1>5
  <2>4. \A x \in Spots : (TaskAt(F, E, x) # NoTask /\ TaskAt(F, E, x).slot = s) =>
            \E y \in Spots : TaskAt(F, D, y) = TaskAt(F, E, x)
    BY <1>6, <2>1
  <2> HIDE DEF D
  <2>. QED  BY <1>2, <2>2, <2>3, <2>4, Relocated
<1>8. ASSUME s = Head(E).slot
      PROVE  /\ Flight(F, D, s) = {}
             /\ \E p \in Flight(F, E, s) : SameTask(p.task, Head(E)) /\ p.at[1] = -1
  <2> DEFINE first == << -1, 1 >>
  <2>1. first \in Spots /\ TaskAt(F, E, first) = Core(E[1])
    BY <1>1 DEF Spots, TaskAt
  <2>2. Core(E[1]) # NoTask /\ Core(E[1]).slot = s
    BY <1>0, <1>1, <1>8 DEF Core, Tasks, FfnEvents
  <2>3. PICK p \in Flight(F, E, s) : p.at = first
    BY <2>1, <2>2, FlightSpots
  <2>4. SameTask(p.task, Head(E))
    <3>1. SameTask(TaskAt(F, E, p.at), p.task)
      BY FlightSpots
    <3>. QED  BY <1>1, <2>1, <2>3, <3>1 DEF SameTask, Core
  <2>5. ASSUME NEW q \in Flight(F, D, s) PROVE FALSE
    <3>1. q.at \in Spots /\ TaskAt(F, D, q.at) # NoTask /\ TaskAt(F, D, q.at).slot = s
      BY <1>2, FlightSpots DEF SameTask
    <3>2. TaskAt(F, E, from[q.at]) = TaskAt(F, D, q.at) /\ from[q.at] \in Spots
      BY <1>3, <1>4, <3>1
    <3>3. PICK u \in Flight(F, E, s) : u.at = from[q.at]
      BY <3>1, <3>2, FlightSpots
    <3>4. from[q.at] = first
      BY <2>3, <3>3 DEF OneAtMost
    <3>5. q.at[1] = -1 /\ q.at[2] + 1 = 1 /\ q.at[2] \in Int
      <4>1. first[1] = -1 /\ first[2] = 1
        OBVIOUS
      <4>2. from[q.at][1] = -1 /\ from[q.at][2] = 1
        BY <3>4, <4>1
      <4>. QED  BY <1>3, <3>1, <4>2
    <3>6. q.at[2] \in 1 .. Len(D)
      BY <3>1, <3>5 DEF TaskAt
    <3>. QED  BY <3>5, <3>6
  <2>6. Flight(F, D, s) = {}
    BY <2>5
  <2>. QED  BY <2>3, <2>4, <2>6
<1>. QED  BY <1>2, <1>7, <1>8 DEF FirstLeft

\* A task is submitted to the FFN worker n.
Submitted(F, G, n, task) ==
    /\ G[n].incoming = Append(F[n].incoming, task)
    /\ G[n].pulling = F[n].pulling /\ G[n].computing = F[n].computing
    /\ \A f \in Ffn \ {n} : G[f] = F[f]

\* A submitted task is the only one of its slot, and moves no other.
LEMMA SubmittedFlight ==
    ASSUME NEW F, NEW E, Carrying(F, E), NEW G, NEW n \in Ffn, NEW task \in Tasks, NEW s,
           Submitted(F, G, n, task)
    PROVE  /\ Carrying(G, E)
           /\ s # task.slot => Moved(Flight(F, E, s), Flight(G, E, s))
           /\ (s = task.slot /\ Flight(F, E, s) = {}) =>
                 \E p : /\ Flight(G, E, s) = {p} /\ p.at[1] # -1
                        /\ p.task.layer = task.layer /\ p.task.reqs = task.reqs
<1>0. Ffn \subseteq Nat /\ -1 \notin Ffn /\ NoTask \notin Tasks /\ n \in Nat /\ n # -1
  BY Universe, AfdAssumption
<1> USE DEF Submitted
<1>1. /\ Len(F[n].incoming) \in Nat /\ G[n].incoming \in Seq(Tasks)
      /\ Len(G[n].incoming) = Len(F[n].incoming) + 1
      /\ \A i \in 1 .. Len(F[n].incoming) : G[n].incoming[i] = F[n].incoming[i]
      /\ G[n].incoming[Len(F[n].incoming) + 1] = task
  BY DEF Carrying
<1>2. Carrying(G, E)
  BY <1>1 DEF Carrying
<1> DEFINE end == << n, Len(F[n].incoming) + 1 >>
<1>3. ASSUME NEW x \in Spots, x # end PROVE TaskAt(G, E, x) = TaskAt(F, E, x)
  <2>1. x = << x[1], x[2] >> /\ x[1] \in Ffn \cup {-1} /\ x[2] \in Int
    BY DEF Spots
  <2>2. CASE x[1] # n
    BY <2>1, <2>2 DEF TaskAt
  <2>3. CASE x[1] = n
    <3>1. x[2] # Len(F[n].incoming) + 1
      BY <1>3, <2>1, <2>3
    <3>2. x[2] \in 1 .. Len(G[n].incoming) <=> x[2] \in 1 .. Len(F[n].incoming)
      BY <1>1, <2>1, <3>1
    <3>. QED  BY <1>0, <1>1, <2>3, <3>2 DEF TaskAt
  <2>. QED  BY <2>2, <2>3
<1>4. end \in Spots /\ TaskAt(G, E, end) = task /\ TaskAt(F, E, end) = NoTask
  <2>1. Len(F[n].incoming) + 1 \in Int /\ Len(F[n].incoming) + 1 # 0
        /\ Len(F[n].incoming) + 1 # -1 /\ Len(F[n].incoming) + 1 \notin 1 .. Len(F[n].incoming)
        /\ Len(F[n].incoming) + 1 \in 1 .. Len(G[n].incoming)
    BY <1>1
  <2>. QED  BY <1>0, <1>1, <2>1 DEF TaskAt, Spots
<1>5. end[1] = n
  OBVIOUS
<1> HIDE DEF end
<1>6. ASSUME s # task.slot PROVE Moved(Flight(F, E, s), Flight(G, E, s))
  <2> DEFINE from == [x \in Spots |-> x]
  <2>1. \A x \in Spots : from[x] = x
    OBVIOUS
  <2> HIDE DEF from
  <2>2. \A x \in Spots : (TaskAt(G, E, x) # NoTask /\ TaskAt(G, E, x).slot = s) =>
            /\ from[x] \in Spots /\ TaskAt(F, E, from[x]) = TaskAt(G, E, x)
            /\ x[1] # -1 => from[x][1] # -1
    BY <1>3, <1>4, <1>6, <2>1
  <2>3. \A x, y \in Spots :
           (TaskAt(G, E, x) # NoTask /\ TaskAt(G, E, y) # NoTask /\ from[x] = from[y]) => x = y
    BY <2>1
  <2>4. \A x \in Spots : (TaskAt(F, E, x) # NoTask /\ TaskAt(F, E, x).slot = s) =>
            \E y \in Spots : TaskAt(G, E, y) = TaskAt(F, E, x)
    BY <1>3, <1>4
  <2>. QED  BY <1>2, <2>2, <2>3, <2>4, Relocated
<1>7. ASSUME s = task.slot, Flight(F, E, s) = {}
      PROVE  \E p : /\ Flight(G, E, s) = {p} /\ p.at[1] # -1
                    /\ p.task.layer = task.layer /\ p.task.reqs = task.reqs
  <2>1. PICK p \in Flight(G, E, s) : p.at = end
    BY <1>0, <1>2, <1>4, <1>7, FlightSpots
  <2>2. ASSUME NEW q \in Flight(G, E, s) PROVE q = p
    <3>1. q.at \in Spots /\ TaskAt(G, E, q.at) # NoTask /\ TaskAt(G, E, q.at).slot = s
      BY <1>2, FlightSpots DEF SameTask
    <3>2. CASE q.at = end
      BY <1>2, <2>1, <3>2, FlightSpots
    <3>3. CASE q.at # end
      <4>1. TaskAt(F, E, q.at) # NoTask /\ TaskAt(F, E, q.at).slot = s
        BY <1>3, <3>1, <3>3
      <4>2. \E u \in Flight(F, E, s) : u.at = q.at
        BY <3>1, <4>1, FlightSpots
      <4>. QED  BY <1>7, <4>2
    <3>. QED  BY <3>2, <3>3
  <2>3. SameTask(task, p.task)
    <3>1. SameTask(TaskAt(G, E, p.at), p.task)
      BY <1>2, FlightSpots
    <3>. QED  BY <1>4, <2>1, <3>1
  <2>4. Flight(G, E, s) = {p}
    BY <2>2
  <2>. QED  BY <1>0, <1>5, <2>1, <2>3, <2>4 DEF SameTask
<1>. QED  BY <1>2, <1>6, <1>7

\* A pass of an FFN worker: the computed task becomes an event if c, the pulled
\* one is computed if k, the next one is pulled if l.
LEMMA PassedFlight ==
    ASSUME NEW F, NEW E, Carrying(F, E), NEW G, NEW f \in Ffn, NEW e \in FfnEvents, NEW D,
           NEW c \in BOOLEAN, NEW k \in BOOLEAN, NEW l \in BOOLEAN,
           c => F[f].computing # NoTask /\ Core(e) = F[f].computing,
           k => F[f].pulling # NoTask /\ (F[f].computing = NoTask \/ c),
           l => F[f].incoming # << >> /\ (F[f].pulling = NoTask \/ k),
           G[f].computing = IF k THEN F[f].pulling ELSE IF c THEN NoTask ELSE F[f].computing,
           G[f].pulling = IF l THEN Head(F[f].incoming) ELSE IF k THEN NoTask ELSE F[f].pulling,
           G[f].incoming = IF l THEN Tail(F[f].incoming) ELSE F[f].incoming,
           D = IF c THEN Append(E, e) ELSE E,
           \A g \in Ffn \ {f} : G[g] = F[g]
    PROVE  Carrying(G, D) /\ \A s : Moved(Flight(F, E, s), Flight(G, D, s))
<1>0. Ffn \subseteq Nat /\ -1 \notin Ffn /\ NoTask \notin Tasks /\ f \in Nat /\ f # -1
  BY Universe, AfdAssumption
<1> DEFINE old == F[f].incoming
           new == G[f].incoming
<1>1. /\ old \in Seq(Tasks) /\ Len(old) \in Nat /\ new \in Seq(Tasks) /\ Len(new) \in Nat
      /\ F[f].pulling \in Tasks \cup {NoTask} /\ F[f].computing \in Tasks \cup {NoTask}
  BY DEF Carrying
<1>2. l => /\ Head(old) = old[1] /\ Head(old) \in Tasks /\ Len(old) > 0
           /\ Len(new) = Len(old) - 1 /\ \A i \in 1 .. Len(new) : new[i] = old[i + 1]
  BY <1>1
<1>3. /\ Len(E) \in Nat /\ E \in Seq(FfnEvents) /\ D \in Seq(FfnEvents)
      /\ Len(D) = IF c THEN Len(E) + 1 ELSE Len(E)
      /\ \A i \in 1 .. Len(E) : D[i] = E[i]
      /\ c => D[Len(E) + 1] = e
  BY DEF Carrying
<1>4. Carrying(G, D)
  BY <1>1, <1>2, <1>3 DEF Carrying
<1> DEFINE leaves(x) == c /\ x[1] = -1 /\ x[2] = Len(E) + 1
           second(x) == IF leaves(x) THEN -1
                        ELSE IF x[1] # f THEN x[2]
                        ELSE IF x[2] = -1 THEN IF k THEN 0 ELSE -1
                        ELSE IF l /\ x[2] >= 0 THEN x[2] + 1 ELSE x[2]
           from == [x \in Spots |-> << IF leaves(x) THEN f ELSE x[1], second(x) >>]
<1>5. \A x \in Spots : /\ from[x] \in Spots /\ x[1] \in Ffn \cup {-1} /\ x[2] \in Int
                       /\ from[x][1] = (IF leaves(x) THEN f ELSE x[1])
                       /\ from[x][2] = second(x)
  <2>1. SUFFICES ASSUME NEW x \in Spots
                 PROVE  /\ from[x] \in Spots /\ x[1] \in Ffn \cup {-1} /\ x[2] \in Int
                        /\ from[x][1] = (IF leaves(x) THEN f ELSE x[1])
                        /\ from[x][2] = second(x)
    OBVIOUS
  <2>2. from[x] = << IF leaves(x) THEN f ELSE x[1], second(x) >>
    OBVIOUS
  <2>3. x[1] \in Ffn \cup {-1} /\ x[2] \in Int /\ second(x) \in Int
        /\ (IF leaves(x) THEN f ELSE x[1]) \in Ffn \cup {-1}
    BY DEF Spots
  <2> HIDE DEF leaves, second, from
  <2>. QED  BY <2>2, <2>3 DEF Spots
<1> HIDE DEF from
<1>6. ASSUME NEW x \in Spots, TaskAt(G, D, x) # NoTask
      PROVE  TaskAt(F, E, from[x]) = TaskAt(G, D, x)
  <2>0. x[1] \in Ffn \cup {-1} /\ x[2] \in Int
    BY <1>5
  <2>1. CASE leaves(x)
    <3>1. from[x][1] = f /\ from[x][2] = -1
      BY <1>5, <2>1
    <3>2. TaskAt(G, D, x) = Core(e)
      BY <1>3, <2>1 DEF TaskAt
    <3>. QED  BY <1>0, <2>1, <3>1, <3>2 DEF TaskAt
  <2>2. CASE x[1] = -1 /\ ~leaves(x)
    <3>1. from[x][1] = -1 /\ from[x][2] = x[2]
      BY <1>0, <1>5, <2>2
    <3>2. x[2] \in 1 .. Len(D) /\ TaskAt(G, D, x) = Core(D[x[2]])
      BY <1>6, <2>2 DEF TaskAt
    <3>3. x[2] \in 1 .. Len(E)
      BY <1>3, <2>2, <3>2
    <3>. QED  BY <1>3, <3>1, <3>2, <3>3 DEF TaskAt
  <2>3. CASE x[1] \in Ffn \ {f}
    <3>1. from[x][1] = x[1] /\ from[x][2] = x[2] /\ x[1] # -1
      BY <1>0, <1>5, <2>3
    <3>. QED  BY <2>3, <3>1 DEF TaskAt
  <2>4. CASE x[1] = f
    <3>0. ~leaves(x) /\ from[x][1] = f /\ from[x][2] = second(x)
      BY <1>0, <1>5, <2>4
    <3>1. CASE x[2] = -1
      <4>1. TaskAt(G, D, x) = G[f].computing
        BY <1>0, <2>4, <3>1 DEF TaskAt
      <4>2. CASE k
        <5>1. from[x][2] = 0
          BY <2>4, <3>0, <3>1, <4>2
        <5>. QED  BY <1>0, <3>0, <4>1, <4>2, <5>1 DEF TaskAt
      <4>3. CASE ~k
        <5>1. from[x][2] = -1
          BY <2>4, <3>0, <3>1, <4>3
        <5>. QED  BY <1>0, <1>6, <3>0, <4>1, <4>3, <5>1 DEF TaskAt
      <4>. QED  BY <4>2, <4>3
    <3>2. CASE x[2] = 0
      <4>1. TaskAt(G, D, x) = G[f].pulling
        BY <1>0, <2>4, <3>2 DEF TaskAt
      <4>2. CASE l
        <5>1. from[x][2] = 1
          BY <2>4, <3>0, <3>2, <4>2
        <5>2. 1 \in 1 .. Len(old)
          BY <1>1, <1>2, <4>2
        <5>. QED  BY <1>0, <1>2, <3>0, <4>1, <4>2, <5>1, <5>2, SMTT(30) DEF TaskAt
      <4>3. CASE ~l
        <5>1. from[x][2] = 0
          BY <2>4, <3>0, <3>2, <4>3
        <5>. QED  BY <1>0, <1>6, <3>0, <4>1, <4>3, <5>1 DEF TaskAt
      <4>. QED  BY <4>2, <4>3
    <3>3. CASE x[2] # -1 /\ x[2] # 0
      <4>1. x[2] \in 1 .. Len(new) /\ TaskAt(G, D, x) = new[x[2]]
        BY <1>0, <1>6, <2>4, <3>3 DEF TaskAt
      <4>2. CASE l
        <5>1. from[x][2] = x[2] + 1
          BY <1>1, <2>4, <3>0, <3>3, <4>1, <4>2
        <5>2. x[2] + 1 \in 1 .. Len(old) /\ x[2] + 1 # 0 /\ x[2] + 1 # -1
              /\ new[x[2]] = old[x[2] + 1]
          BY <1>1, <1>2, <4>1, <4>2
        <5>. QED  BY <1>0, <3>0, <4>1, <5>1, <5>2 DEF TaskAt
      <4>3. CASE ~l
        <5>1. from[x][2] = x[2]
          BY <2>4, <3>0, <3>3, <4>3
        <5>. QED  BY <1>0, <3>0, <3>3, <4>1, <4>3, <5>1 DEF TaskAt
      <4>. QED  BY <4>2, <4>3
    <3>. QED  BY <3>1, <3>2, <3>3
  <2>. QED  BY <2>0, <2>1, <2>2, <2>3, <2>4
\* At f nothing is left of what moved on.
<1>7. ASSUME NEW x \in Spots, x[1] = f, TaskAt(G, D, x) # NoTask
      PROVE  /\ (x[2] = -1 /\ ~k) => ~c
             /\ (x[2] = 0 /\ ~l) => ~k
             /\ x[2] >= -1
  BY <1>0, <1>1, <1>5, <1>7 DEF TaskAt
<1>8. ASSUME NEW x \in Spots, NEW y \in Spots, TaskAt(G, D, x) # NoTask,
             TaskAt(G, D, y) # NoTask, from[x] = from[y]
      PROVE  x = y
  <2>0. /\ x[2] \in Int /\ y[2] \in Int /\ second(x) = second(y)
        /\ (IF leaves(x) THEN f ELSE x[1]) = (IF leaves(y) THEN f ELSE y[1])
    BY <1>5, <1>8
  <2>1. CASE leaves(x) \/ leaves(y)
    <3>1. ASSUME NEW u \in Spots, NEW v \in Spots, leaves(u), ~leaves(v), TaskAt(G, D, v) # NoTask,
                 second(u) = second(v), v[1] = f
          PROVE  FALSE
      <4>1. second(v) = -1 /\ v[2] \in Int /\ v[2] >= -1
        BY <1>5, <1>7, <3>1
      <4>2. v[2] = -1 /\ ~k
        BY <3>1, <4>1
      <4>. QED  BY <1>7, <3>1, <4>2
    <3>2. leaves(x) /\ leaves(y)
      BY <1>8, <2>0, <2>1, <3>1
    <3>. QED  BY <3>2 DEF Spots
  <2>2. CASE ~leaves(x) /\ ~leaves(y)
    <3>1. x[1] = y[1]
      BY <2>0, <2>2
    <3>2. CASE x[1] # f
      <4>1. x[2] = y[2]
        BY <2>0, <2>2, <3>1, <3>2
      <4>. QED  BY <3>1, <4>1 DEF Spots
    <3>3. CASE x[1] = f
      <4>1. /\ (x[2] = -1 /\ ~k) => ~c
            /\ (x[2] = 0 /\ ~l) => ~k
            /\ x[2] >= -1
        BY <1>7, <1>8, <3>3
      <4>2. /\ (y[2] = -1 /\ ~k) => ~c
            /\ (y[2] = 0 /\ ~l) => ~k
            /\ y[2] >= -1
        BY <1>7, <1>8, <3>1, <3>3
      <4>3. x[2] = y[2]
        BY <2>0, <2>2, <3>1, <3>3, <4>1, <4>2
      <4>. QED  BY <3>1, <4>3 DEF Spots
    <3>. QED  BY <3>2, <3>3
  <2>. QED  BY <2>1, <2>2
<1>9. ASSUME NEW x \in Spots, TaskAt(F, E, x) # NoTask
      PROVE  \E y \in Spots : TaskAt(G, D, y) = TaskAt(F, E, x)
  <2>0. x[1] \in Ffn \cup {-1} /\ x[2] \in Int /\ x = << x[1], x[2] >>
    BY DEF Spots
  <2>1. CASE x[1] # f
    <3>1. TaskAt(G, D, x) = TaskAt(F, E, x)
      <4>1. CASE x[1] = -1
        <5>1. x[2] \in 1 .. Len(E) /\ TaskAt(F, E, x) = Core(E[x[2]])
          BY <1>9, <4>1 DEF TaskAt
        <5>2. x[2] \in 1 .. Len(D) /\ D[x[2]] = E[x[2]]
          BY <1>3, <5>1
        <5>. QED  BY <4>1, <5>1, <5>2 DEF TaskAt
      <4>2. CASE x[1] # -1
        BY <2>0, <2>1, <4>2 DEF TaskAt
      <4>. QED  BY <4>1, <4>2
    <3>. QED  BY <3>1
  <2>2. CASE x[1] = f /\ x[2] = -1
    <3>1. TaskAt(F, E, x) = F[f].computing
      BY <1>0, <2>2 DEF TaskAt
    <3>2. CASE c
      <4>1. << -1, Len(E) + 1 >> \in Spots /\ Len(E) + 1 \in 1 .. Len(D)
        BY <1>3, <3>2 DEF Spots
      <4>2. TaskAt(G, D, << -1, Len(E) + 1 >>) = Core(e)
        BY <1>3, <3>2, <4>1 DEF TaskAt
      <4>. QED  BY <3>1, <3>2, <4>1, <4>2
    <3>3. CASE ~c
      <4>1. TaskAt(G, D, x) = G[f].computing /\ ~k
        BY <1>0, <1>9, <2>2, <3>1, <3>3 DEF TaskAt
      <4>. QED  BY <3>1, <3>3, <4>1
    <3>. QED  BY <3>2, <3>3
  <2>3. CASE x[1] = f /\ x[2] = 0
    <3>1. TaskAt(F, E, x) = F[f].pulling
      BY <1>0, <2>3 DEF TaskAt
    <3>2. CASE k
      <4>1. << f, -1 >> \in Spots
        BY DEF Spots
      <4>2. TaskAt(G, D, << f, -1 >>) = F[f].pulling
        BY <1>0, <3>2 DEF TaskAt
      <4>. QED  BY <3>1, <4>1, <4>2
    <3>3. CASE ~k
      <4>1. TaskAt(G, D, x) = G[f].pulling /\ ~l
        BY <1>0, <1>9, <2>3, <3>1, <3>3 DEF TaskAt
      <4>. QED  BY <3>1, <3>3, <4>1
    <3>. QED  BY <3>2, <3>3
  <2>4. CASE x[1] = f /\ x[2] # 0 /\ x[2] # -1
    <3>1. x[2] \in 1 .. Len(old) /\ TaskAt(F, E, x) = old[x[2]]
      BY <1>0, <1>9, <2>4 DEF TaskAt
    <3>2. CASE ~l
      <4>1. TaskAt(G, D, x) = old[x[2]]
        BY <1>0, <2>4, <3>1, <3>2 DEF TaskAt
      <4>. QED  BY <3>1, <4>1
    <3>3. CASE l /\ x[2] = 1
      <4>1. << f, 0 >> \in Spots
        BY DEF Spots
      <4>2. TaskAt(G, D, << f, 0 >>) = Head(old)
        BY <1>0, <3>3 DEF TaskAt
      <4>. QED  BY <1>2, <3>1, <3>3, <4>1, <4>2
    <3>4. CASE l /\ x[2] # 1
      <4> DEFINE i == x[2] - 1
      <4>1. i \in 1 .. Len(new) /\ new[i] = old[x[2]] /\ i # 0 /\ i # -1 /\ i \in Int
        <5>1. i \in 1 .. Len(new) /\ i + 1 = x[2]
          BY <1>1, <1>2, <3>1, <3>4
        <5>. QED  BY <1>1, <1>2, <3>4, <5>1
      <4>2. << f, i >> \in Spots
        BY <4>1 DEF Spots
      <4> HIDE DEF i
      <4>3. TaskAt(G, D, << f, i >>) = new[i]
        BY <1>0, <4>1 DEF TaskAt
      <4>. QED  BY <3>1, <4>1, <4>2, <4>3
    <3>. QED  BY <3>2, <3>3, <3>4
  <2>. QED  BY <2>1, <2>2, <2>3, <2>4
<1>10. \A x \in Spots : x[1] # -1 => from[x][1] # -1
  BY <1>0, <1>5
<1>11. ASSUME NEW s PROVE Moved(Flight(F, E, s), Flight(G, D, s))
  <2>1. \A x \in Spots : (TaskAt(G, D, x) # NoTask /\ TaskAt(G, D, x).slot = s) =>
            /\ from[x] \in Spots /\ TaskAt(F, E, from[x]) = TaskAt(G, D, x)
            /\ x[1] # -1 => from[x][1] # -1
    <3> HIDE DEF leaves, second
    <3>. QED  BY <1>5, <1>6, <1>10
  <2>2. \A x, y \in Spots :
           (TaskAt(G, D, x) # NoTask /\ TaskAt(G, D, y) # NoTask /\ from[x] = from[y]) => x = y
    BY <1>8
  <2>3. \A x \in Spots : (TaskAt(F, E, x) # NoTask /\ TaskAt(F, E, x).slot = s) =>
            \E y \in Spots : TaskAt(G, D, y) = TaskAt(F, E, x)
    BY <1>9
  <2>. QED  BY <1>4, <2>1, <2>2, <2>3, Relocated
<1>. QED  BY <1>4, <1>11

\* The pass in one predicate.
Passed(F, E, G, D, f, e, c, k, l) ==
    /\ f \in Ffn /\ e \in FfnEvents /\ c \in BOOLEAN /\ k \in BOOLEAN /\ l \in BOOLEAN
    /\ c => F[f].computing # NoTask /\ Core(e) = F[f].computing
    /\ k => F[f].pulling # NoTask /\ (F[f].computing = NoTask \/ c)
    /\ l => F[f].incoming # << >> /\ (F[f].pulling = NoTask \/ k)
    /\ G[f].computing = IF k THEN F[f].pulling ELSE IF c THEN NoTask ELSE F[f].computing
    /\ G[f].pulling = IF l THEN Head(F[f].incoming) ELSE IF k THEN NoTask ELSE F[f].pulling
    /\ G[f].incoming = IF l THEN Tail(F[f].incoming) ELSE F[f].incoming
    /\ D = IF c THEN Append(E, e) ELSE E
    /\ \A g \in Ffn \ {f} : G[g] = F[g]

\* What a pass does to the tasks.
LEMMA PassTaken ==
    \A F, E, G, D, f, e, c, k, l :
        (Carrying(F, E) /\ Passed(F, E, G, D, f, e, c, k, l))
            => Carrying(G, D) /\ \A s : Moved(Flight(F, E, s), Flight(G, D, s))
<1>1. SUFFICES ASSUME NEW F, NEW E, NEW G, NEW D, NEW f, NEW e, NEW c, NEW k, NEW l,
                      Carrying(F, E), Passed(F, E, G, D, f, e, c, k, l)
               PROVE  Carrying(G, D) /\ \A s : Moved(Flight(F, E, s), Flight(G, D, s))
  OBVIOUS
<1>. QED  BY <1>1, PassedFlight DEF Passed
-----------------------------------------------------------------------------
(* The steps of the flow.                                                   *)

\* What the types say of the parts.
LEMMA Types ==
    ASSUME TypeOK
    PROVE  /\ slots \in [Attn -> [Slots -> Cell]] /\ sched \in [Slots -> Sched]
           /\ Carrying(ffn, NowDelivered(tick))
           /\ \A s \in Slots : /\ IsView(View(s))
                               /\ View(s).sched = sched[s]
                               /\ View(s).unheard = Unheard(s)
                               /\ View(s).tasks = InFlightTasks(s)
                               /\ \A w \in Attn : View(s).cells[w] = slots[w][s]
<1>1. slots \in [Attn -> [Slots -> Cell]] /\ sched \in [Slots -> Sched]
  BY DEF TypeOK, Cell, Sched
<1>2. Carrying(ffn, NowDelivered(tick))
  <2>1. NowDelivered(tick) \in Seq(FfnEvents)
    BY DEF TypeOK, NowDelivered
  <2>2. \A f \in Ffn : /\ ffn[f].incoming \in Seq(Tasks)
                       /\ ffn[f].pulling \in Tasks \cup {NoTask}
                       /\ ffn[f].computing \in Tasks \cup {NoTask}
    BY DEF TypeOK
  <2>. QED  BY <2>1, <2>2 DEF Carrying
<1>3. ASSUME NEW s \in Slots PROVE IsView(View(s))
  <2>1. View(s).cells \in [Attn -> Cell] /\ View(s).sched \in Sched
    BY <1>1 DEF View
  <2>2. Unheard(s) \subseteq Attn
    <3>1. CASE tick.stage = "attn"
      <4>1. \A i \in 1 .. Len(tick.events) : tick.events[i] \in Reports
        BY <3>1 DEF TypeOK
      <4>2. \A e \in Reports : e.worker \in Attn
        BY DEF Reports
      <4>. QED  BY <3>1, <4>1, <4>2 DEF Unheard
    <3>. QED  BY <3>1 DEF Unheard
  <2>3. \A p \in InFlightTasks(s) : p.task.layer \in Start .. Last
    BY <1>2, InFlightIs, FlightSpots
  <2>. QED  BY <2>1, <2>2, <2>3 DEF IsView, View
<1>. QED  BY <1>1, <1>2, <1>3 DEF View

\* The next state's parts are those of the next state's view.
LEMMA NextView ==
    \A s : /\ View(s)'.sched = sched'[s]
           /\ View(s)'.unheard = Unheard(s)'
           /\ View(s)'.tasks = InFlightTasks(s)'
           /\ \A w \in Attn : View(s)'.cells[w] = slots'[w][s]
  BY DEF View

\* The members of a slot are in service.
LEMMA MembersInService ==
    ASSUME Places, NEW s \in Slots
    PROVE  BatchOf(View(s), Attn) \cap done = {}
BY DEF BatchOf, View, Places, Seated, InService

\* The barrier of every slot does what LayerBarrier allows.
Steps == \A s \in Slots : BarrierStep(View(s), View(s)')

\* A step that changes neither a slot nor a barrier, and moves no task back.
LEMMA QuietLockstep ==
    ASSUME IInv, UNCHANGED << slots, sched, done >>,
           \A s \in Slots : Unheard(s)' = Unheard(s),
           \A s \in Slots : Moved(InFlightTasks(s), InFlightTasks(s)')
    PROVE  /\ Lockstep' /\ Steps /\ OneComputes'
           /\ Uncompleted'
<1>1. ASSUME NEW s \in Slots PROVE LockstepOf(View(s), done)' /\ SameBarrier(View(s), View(s)')
  <2> DEFINE x == View(s)
             y == View(s)'
  <2>1. LockstepOf(x, done) /\ BatchOf(x, Attn) \cap done = {}
    BY MembersInService DEF IInv, Lockstep
  <2>2. y.sched = x.sched /\ y.unheard = x.unheard /\ SameTasks(x.tasks, y.tasks)
    BY DEF View, Moved
  <2>3. \A w \in Attn : SameCell(x.cells[w], y.cells[w])
    BY DEF View, SameCell
  <2>4. done \subseteq done' /\ BatchOf(x, Attn) \cap done' = {}
    BY <2>1
  <2> HIDE DEF x, y
  <2>5. LockstepOf(y, done') /\ SameBarrier(x, y)
    BY <2>1, <2>2, <2>3, <2>4, KeptSlot
  <2>. QED  BY <2>5 DEF x, y
<1>2. Lockstep' /\ Steps
  BY <1>1 DEF Lockstep, Steps, BarrierStep
<1>3. OneComputes'
  BY DEF IInv, OneComputes
<1>4. ASSUME NEW s \in Slots, NEW q \in InFlightTasks(s)', q.at[1] # -1 \/ q.task.layer # Last
      PROVE  q.task.reqs \cap done' = {}
  <2>1. PICK p \in InFlightTasks(s) :
           SameTask(p.task, q.task) /\ (q.at[1] # -1 => p.at[1] # -1)
    BY DEF Moved
  <2>2. p.at[1] # -1 \/ p.task.layer # Last
    BY <1>4, <2>1 DEF SameTask
  <2>3. p.task.reqs \cap done = {}
    BY <2>2 DEF IInv, BatchesAgree, Uncompleted
  <2>. QED  BY <2>1, <2>3 DEF SameTask
<1>5. Uncompleted'
  BY <1>4 DEF Uncompleted
<1>. QED  BY <1>2, <1>3, <1>5

\* And nothing of the requests.
LEMMA QuietRequests ==
    ASSUME IInv, UNCHANGED << arrived, kv, queue, home, slots, emitted, done >>,
           \A s \in Slots : Delivered(s)' = Delivered(s)
    PROVE  Places' /\ StoresAgree' /\ TokensAgree'
<1>1. InService' = InService /\ Arrived' = Arrived
      /\ \A w, s : Seated(w, s)' = Seated(w, s)
  BY DEF InService, Arrived, Seated
<1>2. Places'
  BY <1>1 DEF IInv, Places
<1>3. StoresAgree'
  BY <1>1 DEF IInv, StoresAgree
<1>4. TokensAgree'
  <2>1. \A s \in Slots : Delivered(s)' = Delivered(s)
    OBVIOUS
  <2>. QED  BY <1>1, <2>1 DEF IInv, TokensAgree
<1>. QED  BY <1>2, <1>3, <1>4

-----------------------------------------------------------------------------
(* The first state, and the steps that change neither slots nor requests.   *)

\* The workers of the next state carry tasks, and nothing else.
LEMMA NextCarrying ==
    ASSUME TypeOK'
    PROVE  Carrying(ffn', NowDelivered(tick'))
<1>1. NowDelivered(tick') \in Seq(FfnEvents)
  BY DEF TypeOK, NowDelivered
<1>2. \A f \in Ffn : /\ ffn'[f].incoming \in Seq(Tasks)
                     /\ ffn'[f].pulling \in Tasks \cup {NoTask}
                     /\ ffn'[f].computing \in Tasks \cup {NoTask}
  BY DEF TypeOK
<1>. QED  BY <1>1, <1>2 DEF Carrying

\* The first state satisfies the invariant, and its barriers are closed.
LEMMA FirstInv ==
    ASSUME Init
    PROVE  IInv /\ \A s \in Slots : Barrier(s)!Init
<1>1. TypeOK
  <2>1. kv \in [Attn -> Kv!Store]
    <3>1. Kv!EmptyStore \in Kv!Store
      BY StoreParts, StoreAssumptions, KF!EmptyStoreType
    <3>. QED  BY <3>1 DEF Init
  <2>2. slots \in [Attn -> [Slots -> Cell]]
    BY Universe DEF Init, EmptySlot, Cell, States
  <2>3. sched \in [Slots -> Sched]
    BY Universe DEF Init, EmptyStart, EmptyBarrier, Sched
  <2>4. next \in Ffn
    BY AfdAssumption DEF Init, Ffn
  <2>5. tick \in [stage : {"between", "ffn", "attn"}, due : SUBSET (Attn \cup Ffn),
                  driving : BOOLEAN, events : Seq(FfnEvents) \cup Seq(Reports)]
        /\ IF tick.stage = "ffn" THEN tick.due \subseteq Ffn /\ tick.events \in Seq(FfnEvents)
           ELSE tick.due \subseteq Attn /\ tick.events \in Seq(Reports)
    BY DEF Init, Between
  <2>6. ffn \in [Ffn ->
          [incoming : Seq(Tasks), pulling : Tasks \cup {NoTask},
           computing : Tasks \cup {NoTask}, ended : SUBSET Timed, wake : Wakes]]
    BY DEF Init, Wakes
  <2>. QED  BY <2>1, <2>2, <2>3, <2>4, <2>5, <2>6 DEF Init, TypeOK, Cell, Sched, Wakes
<1>2. \A s : InFlightTasks(s) = {} /\ Unheard(s) = {}
  <2>1. \A s, f : f \in Ffn => Carries(ffn[f], f, s) = {}
    BY DEF Init, Carries, Carried
  <2>. QED  BY <2>1 DEF Init, Between, InFlightTasks, CarriedBy, Unheard
<1>3. Arrived = {} /\ \A w \in Attn, s \in Slots : Seated(w, s) = {}
  BY DEF Init, Arrived, Seated, EmptySlot
<1>4. ASSUME NEW s \in Slots PROVE LockstepOf(View(s), done) /\ Barrier(s)!Init
  <2> DEFINE x == View(s)
  <2>1. /\ x.sched = [inFlight |-> FALSE, start |-> EmptyStart,
                      barrier |-> EmptyBarrier, share |-> {}]
        /\ x.tasks = {} /\ x.unheard = {}
        /\ \A w \in Attn : x.cells[w] = EmptySlot
    BY <1>2 DEF Init, View
  <2> HIDE DEF x
  <2>2. Announced(x) = {}
    BY <2>1 DEF Announced, EmptySlot
  <2>3. BatchOf(x, {}) = {}
    BY DEF BatchOf
  <2>4. Gathering(x)
    BY <2>1, <2>2, <2>3, NoneHeard DEF Gathering, AtRest, EmptySlot, EmptyStart
  <2>5. LockstepOf(x, done)
    BY <2>1, <2>4 DEF LockstepOf
  <2>6. HeardOf(s) = {}
    <3>1. \A w \in Attn : ~slots[w][s].announced
      BY DEF Init, EmptySlot
    <3>. QED  BY <1>2, <3>1 DEF HeardOf, Init
  <2>7. Collected(s) = Start
    BY <1>2 DEF Collected, Init
  <2>. QED  BY <1>2, <2>5, <2>6, <2>7 DEF x, Barrier!Init, Start
<1>5. Lockstep
  BY <1>4 DEF Lockstep
<1>6. ReportsTrue /\ BatchesAgree
  BY <1>2 DEF Init, Between, ReportsTrue, BatchesAgree, Uncompleted, LeavingTrue
<1>7. OneComputes
  BY DEF Init, EmptySlot, OneComputes
<1>8. Places
  BY <1>3 DEF Init, Places, InService, EmptySlot
<1>9. StoresAgree
  <2>1. Kv!EmptyStore.placement = [r \in Requests |-> NoPartition] /\ Kv!EmptyStore.decodes[0] = {}
    BY StoreParts DEF Kv!EmptyStore
  <2>. QED  BY <1>3, <2>1, AfdAssumption DEF Init, StoresAgree
<1>10. TokensAgree
  BY DEF Init, TokensAgree, EmptySlot
<1>. QED  BY <1>1, <1>4, <1>5, <1>6, <1>7, <1>8, <1>9, <1>10 DEF IInv

\* A step that moves no task, and tells nothing new.
LEMMA QuietStep ==
    ASSUME IInv, TypeOK',
           UNCHANGED << arrived, kv, queue, home, slots, sched, emitted, done >>,
           \A x \in Spots : TaskAt(ffn', NowDelivered(tick'), x)
                                = TaskAt(ffn, NowDelivered(tick), x),
           \A s \in Slots : Unheard(s)' = Unheard(s),
           \A s \in Slots : Delivered(s)' = Delivered(s),
           ReportsTrue', LeavingTrue'
    PROVE  IInv' /\ Steps
<1>1. ASSUME NEW s \in Slots PROVE Moved(InFlightTasks(s), InFlightTasks(s)')
  <2>1. Carrying(ffn, NowDelivered(tick)) /\ Carrying(ffn', NowDelivered(tick'))
    BY Types, NextCarrying DEF IInv
  <2>2. Moved(Flight(ffn, NowDelivered(tick), s), Flight(ffn', NowDelivered(tick'), s))
    BY <2>1, StayedFlight
  <2>. QED  BY <2>2, InFlightIs
<1>2. Lockstep' /\ Steps /\ OneComputes' /\ Uncompleted'
  BY <1>1, QuietLockstep
<1>3. Places' /\ StoresAgree' /\ TokensAgree'
  BY QuietRequests
<1>. QED  BY <1>2, <1>3 DEF IInv, BatchesAgree

\* What is known of the least due worker.
LEMMA LeastOfDue ==
    ASSUME NEW S \in SUBSET Nat, S # {}
    PROVE  LeastOf(S) \in S
<1>1. PICK m \in S : \A n \in S : m <= n
  BY StoreAssumptions, KF!LeastElement
<1>. QED  BY <1>1 DEF LeastOf

\* A stuttering step.
LEMMA StutterKeeps ==
    ASSUME IInv, UNCHANGED vars
    PROVE  IInv' /\ Steps
<1>1. /\ UNCHANGED << arrived, kv, queue, home, slots, sched, emitted, done >>
      /\ ffn' = ffn /\ tick' = tick
  BY DEF vars
<1>2. TypeOK'
  BY DEF IInv, TypeOK, vars
<1>3. \A s \in Slots : Unheard(s)' = Unheard(s) /\ Delivered(s)' = Delivered(s)
  BY <1>1 DEF Unheard, Delivered
<1>4. ReportsTrue' /\ LeavingTrue'
  BY <1>1 DEF IInv, BatchesAgree, ReportsTrue, LeavingTrue
<1>. QED  BY <1>1, <1>2, <1>3, <1>4, QuietStep

\* The clock.
LEMMA BeginTickKeeps ==
    ASSUME IInv, NEW E \in SUBSET Running, BeginTick(E)
    PROVE  IInv' /\ Steps
<1>1. /\ UNCHANGED << arrived, kv, queue, home, slots, wake, sched, next, emitted, done >>
      /\ tick.stage = "between"
      /\ tick' = [Between EXCEPT !.stage = "ffn", !.due = tick'.due] /\ tick'.due \subseteq Ffn
      /\ timers' = [w \in Attn |-> EndedOf(E, "attn", w)]
      /\ ffn' = [f \in Ffn |-> [ffn[f] EXCEPT !.ended = @ \cup EndedOf(E, "ffn", f)]]
  BY DEF BeginTick, Between
<1>2. \A pool, w : EndedOf(E, pool, w) \subseteq Timed
  <2>1. \A e \in E : e.timer \in Timed
    BY DEF Running, Timers
  <2>. QED  BY <2>1 DEF EndedOf
<1>3. tick'.stage = "ffn" /\ tick'.events = << >>
  BY <1>1 DEF Between
<1>4. TypeOK'
  <2>1. timers' \in [Attn -> SUBSET Timed]
    BY <1>1, <1>2
  <2>2. ffn' \in [Ffn ->
          [incoming : Seq(Tasks), pulling : Tasks \cup {NoTask},
           computing : Tasks \cup {NoTask}, ended : SUBSET Timed, wake : Wakes]]
    <3>1. ffn \in [Ffn ->
            [incoming : Seq(Tasks), pulling : Tasks \cup {NoTask},
             computing : Tasks \cup {NoTask}, ended : SUBSET Timed, wake : Wakes]]
      BY DEF IInv, TypeOK
    <3>2. \A f \in Ffn : ffn[f].ended \cup EndedOf(E, "ffn", f) \in SUBSET Timed
      BY <1>2, <3>1
    <3>. QED  BY <1>1, <3>1, <3>2, ZenonT(30)
  <2>3. tick' \in [stage : {"between", "ffn", "attn"}, due : SUBSET (Attn \cup Ffn),
                   driving : BOOLEAN, events : Seq(FfnEvents) \cup Seq(Reports)]
        /\ tick'.due \subseteq Ffn /\ tick'.events \in Seq(FfnEvents)
    <3>1. PICK due \in SUBSET Ffn : tick' = [Between EXCEPT !.stage = "ffn", !.due = due]
      BY <1>1
    <3>2. tick' = [stage |-> "ffn", due |-> due, driving |-> FALSE, events |-> << >>]
      BY <3>1 DEF Between
    <3>. QED  BY <3>2
  <2>. QED  BY <1>1, <1>3, <2>1, <2>2, <2>3 DEF IInv, TypeOK
<1>5. \A x \in Spots : TaskAt(ffn', NowDelivered(tick'), x) = TaskAt(ffn, NowDelivered(tick), x)
  <2>1. NowDelivered(tick') = << >> /\ NowDelivered(tick) = << >>
    BY <1>1, <1>3 DEF NowDelivered
  <2>2. \A f \in Ffn : /\ ffn'[f].incoming = ffn[f].incoming
                       /\ ffn'[f].pulling = ffn[f].pulling
                       /\ ffn'[f].computing = ffn[f].computing
    BY <1>1 DEF IInv, TypeOK
  <2>. QED  BY <2>1, <2>2 DEF TaskAt, Spots
<1>6. \A s \in Slots : Unheard(s)' = Unheard(s) /\ Delivered(s)' = Delivered(s)
  BY <1>1, <1>3 DEF Unheard, Delivered
<1>7. ReportsTrue' /\ LeavingTrue'
  BY <1>3 DEF ReportsTrue, LeavingTrue
<1>. QED  BY <1>1, <1>4, <1>5, <1>6, <1>7, QuietStep

\* An FFN worker that has nothing to do now.
LEMMA FfnRestKeeps ==
    ASSUME IInv, NEW f \in Ffn, FfnRest(f)
    PROVE  IInv' /\ Steps
<1>1. /\ UNCHANGED << arrived, kv, queue, home, slots, timers, wake, sched, next, emitted, done >>
      /\ tick.stage = "ffn" /\ tick' = [tick EXCEPT !.due = @ \ {f}]
      /\ \E u \in Wakes : ffn' = [ffn EXCEPT ![f].wake = u]
  BY DEF FfnRest, Wakes
<1>2. tick'.stage = "ffn" /\ tick'.events = tick.events
  BY <1>1 DEF IInv, TypeOK
<1>3. /\ \A g \in Ffn : /\ ffn'[g].incoming = ffn[g].incoming
                        /\ ffn'[g].pulling = ffn[g].pulling
                        /\ ffn'[g].computing = ffn[g].computing
      /\ ffn' \in [Ffn ->
          [incoming : Seq(Tasks), pulling : Tasks \cup {NoTask},
           computing : Tasks \cup {NoTask}, ended : SUBSET Timed, wake : Wakes]]
  <2>1. ffn \in [Ffn ->
          [incoming : Seq(Tasks), pulling : Tasks \cup {NoTask},
           computing : Tasks \cup {NoTask}, ended : SUBSET Timed, wake : Wakes]]
    BY DEF IInv, TypeOK
  <2>2. PICK u \in Wakes : ffn' = [ffn EXCEPT ![f] = [ffn[f] EXCEPT !.wake = u]]
    BY <1>1
  <2>. QED  BY <2>1, <2>2
<1>4. TypeOK'
  <2>1. tick' \in [stage : {"between", "ffn", "attn"}, due : SUBSET (Attn \cup Ffn),
                   driving : BOOLEAN, events : Seq(FfnEvents) \cup Seq(Reports)]
        /\ tick'.due \subseteq Ffn /\ tick'.events \in Seq(FfnEvents)
    BY <1>1 DEF IInv, TypeOK
  <2>. QED  BY <1>1, <1>2, <1>3, <2>1 DEF IInv, TypeOK
<1>5. \A x \in Spots : TaskAt(ffn', NowDelivered(tick'), x) = TaskAt(ffn, NowDelivered(tick), x)
  <2>1. NowDelivered(tick') = NowDelivered(tick)
    BY <1>1, <1>2 DEF NowDelivered
  <2>. QED  BY <1>3, <2>1 DEF TaskAt, Spots
<1>6. \A s \in Slots : Unheard(s)' = Unheard(s) /\ Delivered(s)' = Delivered(s)
  BY <1>1, <1>2 DEF Unheard, Delivered
<1>7. ReportsTrue' /\ LeavingTrue'
  <2>1. ReportsTrue'
    BY <1>2 DEF ReportsTrue
  <2>2. LeavingTrue'
    <3>1. UNCHANGED << emitted, done >> /\ tick'.events = tick.events /\ LeavingTrue
          /\ tick.stage = "ffn"
      BY <1>1, <1>2 DEF IInv, BatchesAgree
    <3>. QED  BY <3>1, ZenonT(30) DEF LeavingTrue
  <2>. QED  BY <2>1, <2>2
<1>. QED  BY <1>1, <1>4, <1>5, <1>6, <1>7, QuietStep

\* The attention workers take over, when every event has been delivered.
LEMMA BeginAttnKeeps ==
    ASSUME IInv, BeginAttn
    PROVE  IInv' /\ Steps
<1>1. /\ UNCHANGED << arrived, kv, queue, home, slots, timers, sched, ffn, next, emitted, done >>
      /\ tick.stage = "ffn" /\ tick.events = << >>
      /\ \E due \in SUBSET Attn : tick' = [tick EXCEPT !.stage = "attn", !.due = due]
  BY DEF BeginAttn
<1>2. tick'.stage = "attn" /\ tick'.events = << >>
  BY <1>1 DEF IInv, TypeOK
<1>3. TypeOK'
  <2>1. wake' \in [Attn -> Wakes]
    BY DEF IInv, TypeOK, BeginAttn, Wakes
  <2>2. tick' \in [stage : {"between", "ffn", "attn"}, due : SUBSET (Attn \cup Ffn),
                   driving : BOOLEAN, events : Seq(FfnEvents) \cup Seq(Reports)]
        /\ tick'.due \subseteq Attn /\ tick'.events \in Seq(Reports)
    <3>1. PICK due \in SUBSET Attn : tick' = [tick EXCEPT !.stage = "attn", !.due = due]
      BY <1>1
    <3>2. tick' = [stage |-> "attn", due |-> due, driving |-> tick.driving, events |-> << >>]
      BY <1>1, <3>1 DEF IInv, TypeOK
    <3>3. tick.driving \in BOOLEAN
      BY DEF IInv, TypeOK
    <3>. QED  BY <3>2, <3>3
  <2>. QED  BY <1>1, <1>2, <2>1, <2>2 DEF IInv, TypeOK
<1>4. \A x \in Spots : TaskAt(ffn', NowDelivered(tick'), x) = TaskAt(ffn, NowDelivered(tick), x)
  BY <1>1, <1>2 DEF NowDelivered
<1>5. \A s \in Slots : Unheard(s)' = Unheard(s) /\ Delivered(s)' = Delivered(s)
  BY <1>1, <1>2 DEF Unheard, Delivered
<1>6. ReportsTrue' /\ LeavingTrue'
  BY <1>2 DEF ReportsTrue, LeavingTrue
<1>. QED  BY <1>1, <1>3, <1>4, <1>5, <1>6, QuietStep

\* An attention worker's tick ends.
LEMMA AttnRestKeeps ==
    ASSUME IInv, NEW w \in Attn, AttnRest(w)
    PROVE  IInv' /\ Steps
<1>1. /\ UNCHANGED << arrived, kv, queue, home, slots, timers, sched, ffn, next, emitted, done >>
      /\ tick.stage = "attn" /\ tick' = [tick EXCEPT !.due = @ \ {w}, !.driving = FALSE]
      /\ \E u \in Wakes : wake' = [wake EXCEPT ![w] = u]
  BY DEF AttnRest, IsDriving, IsTicking, Wakes
<1>2. tick'.stage = "attn" /\ tick'.events = tick.events
  BY <1>1 DEF IInv, TypeOK
<1>3. TypeOK'
  <2>1. tick' \in [stage : {"between", "ffn", "attn"}, due : SUBSET (Attn \cup Ffn),
                   driving : BOOLEAN, events : Seq(FfnEvents) \cup Seq(Reports)]
        /\ tick'.due \subseteq Attn /\ tick'.events \in Seq(Reports)
    BY <1>1 DEF IInv, TypeOK
  <2>2. wake' \in [Attn -> Wakes]
    BY <1>1 DEF IInv, TypeOK
  <2>. QED  BY <1>1, <1>2, <2>1, <2>2 DEF IInv, TypeOK
<1>4. \A x \in Spots : TaskAt(ffn', NowDelivered(tick'), x) = TaskAt(ffn, NowDelivered(tick), x)
  BY <1>1, <1>2 DEF NowDelivered
<1>5. \A s \in Slots : Unheard(s)' = Unheard(s) /\ Delivered(s)' = Delivered(s)
  BY <1>1, <1>2 DEF Unheard, Delivered
<1>6. ReportsTrue' /\ LeavingTrue'
  <2>1. ReportsTrue'
    BY <1>1, <1>2 DEF IInv, ReportsTrue
  <2>. QED  BY <1>2, <2>1 DEF LeavingTrue
<1>. QED  BY <1>1, <1>3, <1>4, <1>5, <1>6, QuietStep

\* The tick ends, when every report has been aggregated.
LEMMA EndTickKeeps ==
    ASSUME IInv, EndTick
    PROVE  IInv' /\ Steps
<1>1. /\ UNCHANGED << arrived, kv, queue, home, slots, timers, wake, sched, ffn, next, emitted, done >>
      /\ tick.stage = "attn" /\ tick.events = << >> /\ tick' = Between
  BY DEF EndTick
<1>2. tick'.stage = "between" /\ tick'.events = << >>
  BY <1>1 DEF Between
<1>3. TypeOK'
  <2>1. tick' \in [stage : {"between", "ffn", "attn"}, due : SUBSET (Attn \cup Ffn),
                   driving : BOOLEAN, events : Seq(FfnEvents) \cup Seq(Reports)]
        /\ tick'.due \subseteq Attn /\ tick'.events \in Seq(Reports)
    BY <1>1 DEF Between
  <2>. QED  BY <1>1, <1>2, <2>1 DEF IInv, TypeOK
<1>4. \A x \in Spots : TaskAt(ffn', NowDelivered(tick'), x) = TaskAt(ffn, NowDelivered(tick), x)
  BY <1>1, <1>2 DEF NowDelivered
<1>5. \A s \in Slots : Unheard(s)' = Unheard(s) /\ Delivered(s)' = Delivered(s)
  BY <1>1, <1>2 DEF Unheard, Delivered
<1>6. ReportsTrue' /\ LeavingTrue'
  BY <1>2 DEF ReportsTrue, LeavingTrue
<1>. QED  BY <1>1, <1>3, <1>4, <1>5, <1>6, QuietStep
-----------------------------------------------------------------------------
(* Arrivals, and the passes of the FFN workers.                             *)

\* A request sits once.
LEMMA SeatsApart ==
    ASSUME Places, NEW w \in Attn, NEW v \in Attn, NEW s \in Slots, NEW t \in Slots,
           NEW r, r \in Seated(w, s), r \in Seated(v, t)
    PROVE  w = v /\ s = t /\ r \in InService
           /\ ~(r \in slots[w][s].members /\ r \in slots[w][s].joining)
<1>1. home[r] = w /\ home[r] = v /\ r \in InService
  BY DEF Places
<1>2. s = t
  BY <1>1 DEF Places
<1>. QED  BY <1>1, <1>2 DEF Places

\* What a task in flight says of its slot.
LEMMA Served ==
    ASSUME IInv, NEW s \in Slots, NEW p \in InFlightTasks(s)
    PROVE  /\ \A q \in InFlightTasks(s) : q = p
           /\ sched[s].inFlight /\ sched[s].start = EmptyStart /\ sched[s].barrier = EmptyBarrier
           /\ Unheard(s) = {}
           /\ \A w \in Attn : /\ Expects(slots[w][s], p.task.layer)
                              /\ slots[w][s].members \subseteq p.task.reqs \ done
           /\ \A r \in p.task.reqs \ done : \E w \in Attn : r \in slots[w][s].members
<1>1. LockstepOf(View(s), done)
  BY DEF IInv, Lockstep
<1>2. p \in View(s).tasks /\ \A q : q \in InFlightTasks(s) => q \in View(s).tasks
  BY DEF View
<1>3. Serving(View(s), p.task, done)
  BY <1>1, <1>2 DEF LockstepOf
<1>4. /\ View(s).sched = sched[s] /\ View(s).unheard = Unheard(s)
      /\ \A w \in Attn : View(s).cells[w] = slots[w][s]
  BY DEF View
<1>5. \A r : r \in p.task.reqs \ done <=> \E w \in Attn : r \in slots[w][s].members
  BY <1>3, <1>4 DEF Serving, BatchOf
<1>6. \A q \in InFlightTasks(s) : q = p
  BY <1>1, <1>2 DEF LockstepOf
<1>. QED  BY <1>3, <1>4, <1>5, <1>6 DEF Serving

\* The least loaded attention worker is one.
LEMMA LeastLoadedIs ==
    ASSUME TypeOK
    PROVE  LeastLoaded \in Attn
<1>1. ASSUME NEW w \in Attn PROVE EstimatedPeak(w) \in Int
  <2>1. kv[w] \in KF!Store
    BY StoreParts DEF TypeOK
  <2>2. kv[w].peak[0] \in Int /\ kv[w].reserved[0] \in Int /\ kv[w].heldUnits[0] \in Int
        /\ \A c \in Sessions : kv[w].cache[0][c] \in Int
    BY <2>1, StoreParts DEF KF!Store, KF!Totals
  <2>3. Kv!CacheUnits(kv[w], 0) \in Int
    <3>1. IsFiniteSet(Sessions)
      BY WorkloadAssumption
    <3>2. SumOver(kv[w].cache[0], Sessions) \in Int
      BY <2>2, <3>1, SumType
    <3>3. Kv!SumOver(kv[w].cache[0], Sessions) = SumOver(kv[w].cache[0], Sessions)
      BY DEF Kv!SumOver, SumOver, Kv!MapThenSumSet, MapThenSumSet,
             Kv!MapThenFoldSet, MapThenFoldSet
    <3>. QED  BY <3>2, <3>3 DEF Kv!CacheUnits
  <2>4. QueuedTokens(w) \in Int
    <3> DEFINE g == [r \in Requests |-> ContextOf(r) + Target[r]]
    <3>1. queue[w] \subseteq Requests /\ IsFiniteSet(queue[w])
      BY FS_Subset, WorkloadAssumption DEF TypeOK
    <3>2. \A r \in queue[w] : g[r] \in Int
      BY <3>1, WorkloadAssumption DEF ContextOf
    <3> HIDE DEF g
    <3>3. SumOver(g, queue[w]) \in Int
      BY <3>1, <3>2, SumType
    <3>. QED  BY <3>3 DEF QueuedTokens, g
  <2>. QED  BY <2>2, <2>3, <2>4 DEF EstimatedPeak
<1> DEFINE f == [w \in Attn |-> EstimatedPeak(w)]
<1>2. NumAttn - 1 \in Nat /\ Attn = 0 .. NumAttn - 1
  BY AfdAssumption DEF Attn
<1>3. \A w \in Attn : f[w] \in Int
  BY <1>1
<1>4. \A w \in Attn : f[w] = EstimatedPeak(w)
  OBVIOUS
<1> HIDE DEF f
<1>5. \E w \in Attn : \A v \in Attn : f[w] < f[v] \/ (f[w] = f[v] /\ w <= v)
  BY <1>2, <1>3, FirstLeast
<1>6. \E w \in Attn : \A v \in Attn :
         \/ EstimatedPeak(w) < EstimatedPeak(v)
         \/ EstimatedPeak(w) = EstimatedPeak(v) /\ w <= v
  BY <1>4, <1>5
<1>. QED  BY <1>6 DEF LeastLoaded

\* A request arrives in the queue of a worker.
LEMMA OnArrivalKeeps ==
    ASSUME IInv, NEW r \in Requests, OnArrival(r)
    PROVE  IInv' /\ Steps
<1>1. /\ UNCHANGED << kv, slots, timers, sched, ffn, next, tick, emitted, done >>
      /\ tick.stage = "between" /\ r \notin Arrived /\ arrived' = Append(arrived, r)
  BY DEF OnArrival
<1>2. PICK w \in Attn : /\ queue' = [queue EXCEPT ![w] = @ \cup {r}]
                        /\ home' = [home EXCEPT ![r] = w]
                        /\ wake' = [wake EXCEPT ![w] = Woken(@)]
  BY LeastLoadedIs DEF IInv, OnArrival
<1>3. TypeOK'
  <2>1. arrived' \in Seq(Requests)
    BY <1>1 DEF IInv, TypeOK
  <2>2. queue' \in [Attn -> SUBSET Requests] /\ home' \in [Requests -> Attn \cup {-1}]
    BY <1>2 DEF IInv, TypeOK
  <2>3. wake' \in [Attn -> Wakes]
    BY <1>2 DEF IInv, TypeOK, Woken, Wakes
  <2>. QED  BY <1>1, <2>1, <2>2, <2>3 DEF IInv, TypeOK
<1>4. \A s \in Slots : Unheard(s)' = Unheard(s) /\ Delivered(s)' = Delivered(s)
  BY <1>1 DEF Unheard, Delivered
<1>5. ASSUME NEW s \in Slots PROVE Moved(InFlightTasks(s), InFlightTasks(s)')
  <2>1. Carrying(ffn, NowDelivered(tick))
    BY Types DEF IInv
  <2>2. Moved(Flight(ffn, NowDelivered(tick), s), Flight(ffn, NowDelivered(tick), s))
    BY <2>1, StayedFlight
  <2>. QED  BY <1>1, <2>2, InFlightIs
<1>6. Lockstep' /\ Steps /\ OneComputes' /\ Uncompleted'
  BY <1>1, <1>4, <1>5, QuietLockstep
<1>7. ReportsTrue' /\ LeavingTrue'
  BY <1>1 DEF ReportsTrue, LeavingTrue
<1>8. Arrived' = Arrived \cup {r} /\ InService' = InService \cup {r} /\ r \notin done
      /\ \A v, s : Seated(v, s)' = Seated(v, s)
  <2>1. Arrived' = Arrived \cup {r}
    <3>1. arrived \in Seq(Requests)
      BY DEF IInv, TypeOK
    <3>2. /\ Len(arrived') = Len(arrived) + 1 /\ Len(arrived) \in Nat
          /\ \A i \in 1 .. Len(arrived) : arrived'[i] = arrived[i]
          /\ arrived'[Len(arrived) + 1] = r
      BY <1>1, <3>1
    <3>. QED  BY <3>2 DEF Arrived
  <2>2. done \subseteq Arrived
    BY DEF IInv, Places
  <2>. QED  BY <1>1, <2>1, <2>2 DEF InService, Seated
<1>9. /\ \A v \in Attn : r \notin queue[v] /\ \A s \in Slots : r \notin Seated(v, s)
      /\ \A q \in Requests \ {r} : home'[q] = home[q]
      /\ home'[r] = w
      /\ \A v \in Attn : queue[v] \subseteq queue'[v] /\ queue'[v] \subseteq queue[v] \cup {r}
      /\ r \in queue'[w] /\ \A v \in Attn : v # w => queue'[v] = queue[v]
  <2>1. \A v \in Attn : r \notin queue[v] /\ \A s \in Slots : r \notin Seated(v, s)
    BY <1>1 DEF IInv, Places, InService
  <2>. QED  BY <1>2, <2>1 DEF IInv, TypeOK
<1>10. InService \subseteq Requests
  BY DEF IInv, TypeOK, InService, Arrived
<1>11. Places'
  <2>1. done' \subseteq Arrived'
    BY <1>1, <1>8 DEF IInv, Places
  <2>2. ASSUME NEW v \in Attn, NEW q \in queue'[v]
        PROVE  q \in InService' /\ home'[q] = v /\ \A s \in Slots : q \notin Seated(v, s)'
    <3>1. CASE q = r
      BY <1>8, <1>9, <2>2, <3>1
    <3>2. CASE q # r
      BY <1>8, <1>9, <1>10, <2>2, <3>2 DEF IInv, Places
    <3>. QED  BY <3>1, <3>2
  <2>3. ASSUME NEW v \in Attn, NEW s \in Slots, NEW q \in Seated(v, s)'
        PROVE  q \in InService' /\ home'[q] = v
    BY <1>8, <1>9, <1>10, <2>3 DEF IInv, Places
  <2>4. \A v \in Attn, s, t \in Slots : s # t => Seated(v, s)' \cap Seated(v, t)' = {}
    BY <1>8 DEF IInv, Places
  <2>5. \A v \in Attn, s \in Slots : slots'[v][s].members \cap slots'[v][s].joining = {}
    BY <1>1 DEF IInv, Places
  <2>6. ASSUME NEW q \in InService'
        PROVE  \E v \in Attn : q \in queue'[v] \/ \E s \in Slots : q \in Seated(v, s)'
    <3>1. CASE q = r
      BY <1>9, <3>1
    <3>2. CASE q \in InService
      BY <1>8, <1>9, <3>2 DEF IInv, Places
    <3>. QED  BY <1>8, <3>1, <3>2
  <2>. QED  BY <2>1, <2>2, <2>3, <2>4, <2>5, <2>6 DEF Places
<1>12. StoresAgree'
  BY <1>1, <1>8 DEF IInv, StoresAgree
<1>13. TokensAgree'
  <2>1. emitted[r] = 0
    BY <1>1 DEF IInv, TokensAgree
  <2>. QED  BY <1>1, <1>4, <1>8, <1>9, <2>1 DEF IInv, TokensAgree
<1>. QED  BY <1>3, <1>6, <1>7, <1>11, <1>12, <1>13 DEF IInv, BatchesAgree

\* A pass leaves a record of the same fields.
LEMMA AfterPassIs ==
    ASSUME NEW fw \in [incoming : Seq(Tasks), pulling : Tasks \cup {NoTask},
                       computing : Tasks \cup {NoTask}, ended : SUBSET Timed, wake : Wakes],
           NEW new, new = AfterPass(fw)
    PROVE  new = [incoming |-> new.incoming, pulling |-> new.pulling,
                  computing |-> new.computing, ended |-> new.ended, wake |-> new.wake]
<1> DEFINE a == IF Pulls(fw) THEN Tail(fw.incoming) ELSE fw.incoming
           b == IF Pulls(fw) THEN Head(fw.incoming) ELSE IF Computes(fw) THEN NoTask ELSE fw.pulling
           c == IF Computes(fw) THEN fw.pulling ELSE IF Completes(fw) THEN NoTask ELSE fw.computing
           d == EndedAfterPass(fw)
<1>1. new = [fw EXCEPT !.computing = c, !.pulling = b, !.incoming = a, !.ended = d]
  BY DEF AfterPass
<1> HIDE DEF a, b, c, d
<1>2. new = [incoming |-> a, pulling |-> b, computing |-> c, ended |-> d, wake |-> fw.wake]
  BY <1>1
<1>. QED  BY <1>2

\* An FFN worker's tick ends what was computed, computes what was pulled, and pulls.
LEMMA FfnPassMoves ==
    ASSUME IInv, NEW f \in Ffn, FfnPass(f)
    PROVE  /\ TypeOK'
           /\ \A s \in Slots : Moved(InFlightTasks(s), InFlightTasks(s)')
           /\ tick.stage = "ffn" /\ tick'.stage = "ffn" /\ tick'.due = tick.due
           /\ UNCHANGED << arrived, kv, queue, home, slots, timers, wake, sched, next, done >>
           /\ Completes(ffn[f]) =>
                 /\ ffn[f].computing \in Tasks /\ emitted' = TokensAfter(ffn[f].computing)
                 /\ tick'.events = Append(tick.events, EventOf(ffn[f].computing, emitted'))
           /\ ~Completes(ffn[f]) => emitted' = emitted /\ tick' = tick
<1> DEFINE fw == ffn[f]
           c == Completes(fw)
           k == Computes(fw)
           l == Pulls(fw)
           task == fw.computing
           e == IF c THEN EventOf(task, emitted')
                     ELSE CHOOSE x \in FfnEvents : TRUE
<1>1. /\ UNCHANGED << arrived, kv, queue, home, slots, timers, wake, sched, next, done >>
      /\ tick.stage = "ffn" /\ ffn' = [ffn EXCEPT ![f] = AfterPass(fw)]
      /\ c => /\ emitted' = TokensAfter(task)
              /\ tick' = [tick EXCEPT !.events = Append(@, EventOf(task, emitted'))]
      /\ ~c => emitted' = emitted /\ tick' = tick
  BY DEF FfnPass
<1>2. /\ fw \in [incoming : Seq(Tasks), pulling : Tasks \cup {NoTask},
                 computing : Tasks \cup {NoTask}, ended : SUBSET Timed, wake : Wakes]
      /\ tick.events \in Seq(FfnEvents)
      /\ Carrying(ffn, tick.events)
  <2>1. Carrying(ffn, NowDelivered(tick))
    BY Types DEF IInv
  <2>. QED  BY <1>1, <2>1 DEF IInv, TypeOK, NowDelivered
<1>3. c => task \in Tasks /\ EventOf(task, emitted') \in FfnEvents /\ Core(EventOf(task, emitted')) = task
  <2>1. c => task \in Tasks
    BY <1>2 DEF Completes
  <2>2. ASSUME task \in Tasks PROVE EventOf(task, emitted') \in FfnEvents
    <3>1. task.slot \in Slots /\ task.layer \in Start .. Last /\ task.reqs \subseteq Requests
      BY <2>2 DEF Tasks
    <3>2. EventOf(task, emitted').leaving \subseteq Requests
      BY <3>1 DEF EventOf
    <3>. QED  BY <3>1, <3>2 DEF EventOf, FfnEvents
  <2>3. ASSUME task \in Tasks PROVE Core(EventOf(task, emitted')) = task
    BY <2>3 DEF Tasks, Core, EventOf
  <2>. QED  BY <2>1, <2>2, <2>3
<1>4. e \in FfnEvents
  <2>1. [slot |-> 0, layer |-> 0, reqs |-> {}, leaving |-> {}] \in FfnEvents
    <3>1. 0 \in Slots /\ 0 \in Start .. Last
      BY AfdAssumption DEF Slots, Start, Last
    <3>. QED  BY <3>1 DEF FfnEvents
  <2>. QED  BY <1>3, <2>1
<1>5. tick'.events = IF c THEN Append(tick.events, e) ELSE tick.events
  BY <1>1 DEF IInv, TypeOK
<1>6. tick'.stage = "ffn" /\ tick'.due = tick.due /\ tick'.driving = tick.driving
      /\ DOMAIN tick' = DOMAIN tick
  BY <1>1 DEF IInv, TypeOK
<1>7. /\ ffn'[f].computing = IF k THEN fw.pulling ELSE IF c THEN NoTask ELSE fw.computing
      /\ ffn'[f].pulling = IF l THEN Head(fw.incoming) ELSE IF k THEN NoTask ELSE fw.pulling
      /\ ffn'[f].incoming = IF l THEN Tail(fw.incoming) ELSE fw.incoming
      /\ ffn'[f].wake = fw.wake /\ ffn'[f].ended \subseteq Timed
      /\ DOMAIN ffn'[f] = DOMAIN fw
      /\ \A g \in Ffn \ {f} : ffn'[g] = ffn[g]
  <2>1. ffn'[f] = AfterPass(fw) /\ \A g \in Ffn \ {f} : ffn'[g] = ffn[g]
    BY <1>1 DEF IInv, TypeOK
  <2>2. EndedAfterPass(fw) \subseteq Timed
    BY DEF EndedAfterPass
  <2> HIDE DEF fw
  <2>3. /\ AfterPass(fw).computing =
             IF Computes(fw) THEN fw.pulling ELSE IF Completes(fw) THEN NoTask ELSE fw.computing
        /\ AfterPass(fw).pulling =
             IF Pulls(fw) THEN Head(fw.incoming) ELSE IF Computes(fw) THEN NoTask ELSE fw.pulling
        /\ AfterPass(fw).incoming = IF Pulls(fw) THEN Tail(fw.incoming) ELSE fw.incoming
        /\ AfterPass(fw).wake = fw.wake /\ AfterPass(fw).ended = EndedAfterPass(fw)
        /\ DOMAIN AfterPass(fw) = DOMAIN fw
    BY <1>2 DEF AfterPass
  <2>. QED  BY <2>1, <2>2, <2>3
<1>8. /\ c \in BOOLEAN /\ k \in BOOLEAN /\ l \in BOOLEAN
      /\ c => fw.computing # NoTask /\ Core(e) = fw.computing
      /\ k => fw.pulling # NoTask /\ (fw.computing = NoTask \/ c)
      /\ l => fw.incoming # << >> /\ (fw.pulling = NoTask \/ k)
  BY <1>3 DEF Completes, Computes, Pulls
<1> DEFINE D == tick'.events
<1> HIDE DEF c, k, l, e, D
<1>9. Carrying(ffn', D) /\ \A s : Moved(Flight(ffn, tick.events, s), Flight(ffn', D, s))
  <2>1. D = IF c THEN Append(tick.events, e) ELSE tick.events
    BY <1>5 DEF D
  <2>2. Passed(ffn, tick.events, ffn', D, f, e, c, k, l)
    BY <1>4, <1>7, <1>8, <2>1 DEF Passed
  <2>. QED  BY <1>2, <2>2, PassTaken
<1>10. D \in Seq(FfnEvents)
  BY <1>9 DEF Carrying
<1>11. TypeOK'
  <2>1. ffn' \in [Ffn ->
          [incoming : Seq(Tasks), pulling : Tasks \cup {NoTask},
           computing : Tasks \cup {NoTask}, ended : SUBSET Timed, wake : Wakes]]
    <3>1. ffn'[f] \in [incoming : Seq(Tasks), pulling : Tasks \cup {NoTask},
                       computing : Tasks \cup {NoTask}, ended : SUBSET Timed, wake : Wakes]
      <4> DEFINE new == AfterPass(fw)
      <4>1. ffn'[f] = new
        BY <1>1 DEF IInv, TypeOK
      <4>2. /\ new.incoming \in Seq(Tasks) /\ new.pulling \in Tasks \cup {NoTask}
            /\ new.computing \in Tasks \cup {NoTask} /\ new.ended \in SUBSET Timed /\ new.wake \in Wakes
        BY <1>2, <1>7, <1>9, <4>1 DEF Carrying
      <4>3. new = [incoming |-> new.incoming, pulling |-> new.pulling,
                   computing |-> new.computing, ended |-> new.ended, wake |-> new.wake]
        BY <1>2, AfterPassIs
      <4> HIDE DEF new
      <4>. QED  BY <4>1, <4>2, <4>3
    <3>2. ffn \in [Ffn ->
          [incoming : Seq(Tasks), pulling : Tasks \cup {NoTask},
           computing : Tasks \cup {NoTask}, ended : SUBSET Timed, wake : Wakes]]
      BY DEF IInv, TypeOK
    <3>3. ffn' = [ffn EXCEPT ![f] = ffn'[f]]
      BY <1>1, <3>2
    <3>. QED  BY <3>1, <3>2, <3>3
  <2>2. tick' \in [stage : {"between", "ffn", "attn"}, due : SUBSET (Attn \cup Ffn),
                   driving : BOOLEAN, events : Seq(FfnEvents) \cup Seq(Reports)]
    <3>1. tick \in [stage : {"between", "ffn", "attn"}, due : SUBSET (Attn \cup Ffn),
                    driving : BOOLEAN, events : Seq(FfnEvents) \cup Seq(Reports)]
      BY DEF IInv, TypeOK
    <3>2. tick' = [tick EXCEPT !.events = D]
      BY <1>1, <3>1 DEF D, c
    <3>. QED  BY <1>10, <3>1, <3>2
  <2>3. emitted' \in [Requests -> Nat]
    <3>1. emitted \in [Requests -> Nat]
      BY DEF IInv, TypeOK
    <3>2. TokensAfter(task) \in [Requests -> Nat]
      BY <3>1 DEF TokensAfter
    <3>. QED  BY <1>1, <3>1, <3>2 DEF c
  <2>4. tick'.due \subseteq Ffn /\ tick'.events \in Seq(FfnEvents)
    BY <1>1, <1>6, <1>10 DEF IInv, TypeOK, D
  <2>. QED  BY <1>1, <1>6, <2>1, <2>2, <2>3, <2>4 DEF IInv, TypeOK
<1>12. \A s \in Slots : Moved(InFlightTasks(s), InFlightTasks(s)')
  BY <1>1, <1>6, <1>9, InFlightIs DEF NowDelivered, D
<1>13. Completes(ffn[f]) =>
         /\ ffn[f].computing \in Tasks /\ emitted' = TokensAfter(ffn[f].computing)
         /\ tick'.events = Append(tick.events, EventOf(ffn[f].computing, emitted'))
  BY <1>1, <1>3, <1>5 DEF c, e
<1>14. ~Completes(ffn[f]) => emitted' = emitted /\ tick' = tick
  BY <1>1 DEF c
<1>. QED  BY <1>1, <1>6, <1>11, <1>12, <1>13, <1>14

\* A Terminal is computed: its batch is in service, and has not been told before.
LEMMA TerminalIs ==
    ASSUME IInv, NEW f \in Ffn, NEW task, task = ffn[f].computing, task \in Tasks
    PROVE  /\ task.slot \in Slots
           /\ task.reqs \cap done = {}
           /\ \A w \in Attn : /\ Expects(slots[w][task.slot], task.layer)
                              /\ slots[w][task.slot].members \subseteq task.reqs
           /\ \A r \in task.reqs : \E w \in Attn : r \in slots[w][task.slot].members
           /\ tick.stage = "ffn" => \A i \in 1 .. Len(tick.events) : tick.events[i].slot # task.slot
<1> DEFINE s == task.slot
<1>1. s \in Slots /\ task # NoTask
  BY AfdAssumption DEF Tasks
<1>2. /\ Carrying(ffn, NowDelivered(tick))
      /\ InFlightTasks(s) = Flight(ffn, NowDelivered(tick), s)
  BY Types, InFlightIs DEF IInv
<1>3. << f, -1 >> \in Spots /\ << f, -1 >>[1] = f /\ << f, -1 >>[2] = -1 /\ f # -1
  BY Universe DEF Spots
<1>4. TaskAt(ffn, NowDelivered(tick), << f, -1 >>) = task
  BY <1>3 DEF TaskAt
<1>5. PICK p \in InFlightTasks(s) : p.at = << f, -1 >>
  BY <1>1, <1>2, <1>3, <1>4, FlightSpots
<1>6. SameTask(task, p.task)
  BY <1>2, <1>4, <1>5, FlightSpots
<1>7. task.reqs \cap done = {}
  <2>1. p.task.reqs \cap done = {}
    BY <1>1, <1>3, <1>5 DEF IInv, BatchesAgree, Uncompleted
  <2>. QED  BY <1>6, <2>1 DEF SameTask
<1>8. /\ \A q \in InFlightTasks(s) : q = p
      /\ \A w \in Attn : /\ Expects(slots[w][s], p.task.layer)
                         /\ slots[w][s].members \subseteq p.task.reqs \ done
      /\ \A r \in p.task.reqs \ done : \E w \in Attn : r \in slots[w][s].members
  BY <1>1, <1>5, Served
<1>9. ASSUME tick.stage = "ffn", NEW i \in 1 .. Len(tick.events), tick.events[i].slot = s
      PROVE  FALSE
  <2>1. NowDelivered(tick) = tick.events /\ tick.events \in Seq(FfnEvents)
    BY <1>9 DEF NowDelivered, IInv, TypeOK
  <2>2. << -1, i >> \in Spots /\ << -1, i >>[1] = -1 /\ << -1, i >>[2] = i
    BY <2>1 DEF Spots
  <2>3. TaskAt(ffn, NowDelivered(tick), << -1, i >>) = Core(tick.events[i])
    BY <2>1, <2>2 DEF TaskAt
  <2>4. Core(tick.events[i]) \in Tasks /\ Core(tick.events[i]).slot = s
    <3>1. tick.events[i] \in FfnEvents
      BY <2>1, <1>9
    <3>. QED  BY <3>1, <1>9 DEF Core, Tasks, FfnEvents
  <2>5. PICK q \in InFlightTasks(s) : q.at = << -1, i >>
    BY <1>2, <2>2, <2>3, <2>4, AfdAssumption, FlightSpots
  <2>. QED  BY <1>3, <1>5, <1>8, <2>2, <2>5
<1>. QED  BY <1>1, <1>6, <1>7, <1>8, <1>9 DEF SameTask

\* A pass of an FFN worker.
LEMMA FfnPassKeeps ==
    ASSUME IInv, NEW f \in Ffn, FfnPass(f)
    PROVE  IInv' /\ Steps
<1> DEFINE task == ffn[f].computing
           s == task.slot
<1>1. /\ TypeOK'
      /\ \A t \in Slots : Moved(InFlightTasks(t), InFlightTasks(t)')
      /\ tick.stage = "ffn" /\ tick'.stage = "ffn"
      /\ UNCHANGED << arrived, kv, queue, home, slots, timers, wake, sched, next, done >>
      /\ Completes(ffn[f]) =>
            /\ task \in Tasks /\ emitted' = TokensAfter(task)
            /\ tick'.events = Append(tick.events, EventOf(task, emitted'))
      /\ ~Completes(ffn[f]) => emitted' = emitted /\ tick' = tick
  BY FfnPassMoves
<1>2. \A t \in Slots : Unheard(t)' = Unheard(t)
  BY <1>1 DEF Unheard
<1>3. Lockstep' /\ Steps /\ OneComputes' /\ Uncompleted'
  BY <1>1, <1>2, QuietLockstep
<1>4. ReportsTrue'
  BY <1>1 DEF ReportsTrue
<1>5. CASE ~Completes(ffn[f])
  <2>1. \A t \in Slots : Delivered(t)' = Delivered(t)
    BY <1>1, <1>5 DEF Delivered
  <2>2. Places' /\ StoresAgree' /\ TokensAgree'
    BY <1>1, <1>5, <2>1, QuietRequests
  <2>3. LeavingTrue'
    BY <1>1, <1>5 DEF IInv, BatchesAgree, LeavingTrue
  <2>. QED  BY <1>1, <1>3, <1>4, <2>2, <2>3 DEF IInv, BatchesAgree
<1>6. CASE Completes(ffn[f])
  <2>1. /\ task \in Tasks /\ emitted' = TokensAfter(task)
        /\ tick'.events = Append(tick.events, EventOf(task, emitted'))
        /\ tick.events \in Seq(FfnEvents)
    BY <1>1, <1>6 DEF IInv, TypeOK
  <2>2. /\ s \in Slots /\ task.reqs \cap done = {}
        /\ \A w \in Attn : /\ Expects(slots[w][s], task.layer)
                           /\ slots[w][s].members \subseteq task.reqs
        /\ \A r \in task.reqs : \E w \in Attn : r \in slots[w][s].members
        /\ \A i \in 1 .. Len(tick.events) : tick.events[i].slot # s
    BY <1>1, <2>1, TerminalIs
  <2>3. /\ Len(tick'.events) = Len(tick.events) + 1 /\ Len(tick.events) \in Nat
        /\ \A i \in 1 .. Len(tick.events) : tick'.events[i] = tick.events[i]
        /\ tick'.events[Len(tick.events) + 1] = EventOf(task, emitted')
    BY <2>1
  <2>4. /\ EventOf(task, emitted').slot = s /\ EventOf(task, emitted').layer = task.layer
        /\ EventOf(task, emitted').reqs = task.reqs
    BY DEF EventOf
  <2>5. \A t \in Slots : Delivered(t)' <=> (Delivered(t) \/ (t = s /\ task.layer = Last))
    <3>1. ASSUME NEW t \in Slots, Delivered(t)' PROVE Delivered(t) \/ (t = s /\ task.layer = Last)
      <4>1. PICK i \in 1 .. Len(tick'.events) : tick'.events[i].slot = t /\ tick'.events[i].layer = Last
        BY <3>1 DEF Delivered
      <4>2. CASE i \in 1 .. Len(tick.events)
        BY <1>1, <2>3, <4>1, <4>2 DEF Delivered
      <4>3. CASE i = Len(tick.events) + 1
        BY <2>3, <2>4, <4>1, <4>3
      <4>. QED  BY <2>3, <4>2, <4>3
    <3>2. ASSUME NEW t \in Slots, Delivered(t) PROVE Delivered(t)'
      <4>1. PICK i \in 1 .. Len(tick.events) : tick.events[i].slot = t /\ tick.events[i].layer = Last
        BY <3>2 DEF Delivered
      <4>2. i \in 1 .. Len(tick'.events) /\ tick'.events[i] = tick.events[i]
        BY <2>3
      <4>. QED  BY <1>1, <4>1, <4>2 DEF Delivered
    <3>3. ASSUME NEW t \in Slots, t = s, task.layer = Last PROVE Delivered(t)'
      <4>1. Len(tick.events) + 1 \in 1 .. Len(tick'.events)
        BY <2>3
      <4>2. \E i \in 1 .. Len(tick'.events) : tick'.events[i].slot = t /\ tick'.events[i].layer = Last
        BY <2>3, <2>4, <3>3, <4>1
      <4>. QED  BY <1>1, <4>2 DEF Delivered
    <3>. QED  BY <3>1, <3>2, <3>3
  <2>6. ~Delivered(s)
    BY <2>2 DEF Delivered
  <2>7. \A r \in Requests : emitted'[r] = IF task.layer = Last /\ r \in task.reqs
                                          THEN emitted[r] + 1 ELSE emitted[r]
    BY <2>1 DEF TokensAfter
  <2>8. ASSUME NEW r \in Requests, NEW w \in Attn, NEW t \in Slots, r \in Seated(w, t),
               t # s \/ r \in slots[w][t].joining
        PROVE  r \notin task.reqs
    <3>1. SUFFICES ASSUME r \in task.reqs PROVE FALSE
      OBVIOUS
    <3>2. PICK v \in Attn : r \in slots[v][s].members
      BY <2>2, <3>1
    <3>3. r \in Seated(v, s)
      BY <3>2 DEF Seated
    <3>4. v = w /\ t = s /\ ~(r \in slots[w][t].members /\ r \in slots[w][t].joining)
      BY <2>2, <2>8, <3>3, SeatsApart DEF IInv
    <3>. QED  BY <2>8, <3>2, <3>4
  <2>9. /\ Arrived' = Arrived /\ InService' = InService
        /\ \A w, t : Seated(w, t)' = Seated(w, t)
    BY <1>1 DEF Arrived, InService, Seated
  <2>10. Places'
    BY <1>1, <2>9 DEF IInv, Places
  <2>11. StoresAgree'
    BY <1>1, <2>9 DEF IInv, StoresAgree
  <2>12. \A r \in task.reqs : r \in InService /\ \A w \in Attn : r \notin queue[w]
    <3>1. ASSUME NEW r \in task.reqs PROVE r \in InService /\ \A w \in Attn : r \notin queue[w]
      <4>1. PICK w \in Attn : r \in slots[w][s].members
        BY <2>2
      <4>2. r \in Seated(w, s)
        BY <4>1 DEF Seated
      <4>. QED  BY <2>2, <4>2 DEF IInv, Places
    <3>. QED  BY <3>1
  <2>13. slots \in [Attn -> [Slots -> Cell]] /\ queue \in [Attn -> SUBSET Requests]
         /\ emitted \in [Requests -> Nat] /\ done \subseteq Requests
    BY Types DEF IInv, TypeOK
  <2>14. TokensAgree'
    <3>1. \A r \in Requests \ Arrived' : emitted'[r] = 0
      BY <2>7, <2>9, <2>12 DEF IInv, TokensAgree, InService
    <3>2. \A r \in done' : emitted'[r] = Target[r]
      BY <1>1, <2>2, <2>7, <2>13 DEF IInv, TokensAgree
    <3>3. \A w \in Attn : \A r \in queue'[w] : emitted'[r] = 0
      <4>1. \A w \in Attn : \A r \in queue[w] : r \in Requests /\ r \notin task.reqs /\ emitted[r] = 0
        BY <2>12, <2>13 DEF IInv, TokensAgree
      <4>. QED  BY <1>1, <2>7, <4>1
    <3>4. ASSUME NEW w \in Attn, NEW t \in Slots, NEW r \in slots'[w][t].joining
          PROVE  JoiningAgrees(kv'[w], r, emitted'[r])
      <4>1. r \in Seated(w, t) /\ r \in Requests /\ r \in slots[w][t].joining
        BY <1>1, <2>13, <3>4 DEF Seated, Cell
      <4>2. emitted'[r] = emitted[r]
        BY <2>7, <2>8, <4>1
      <4>. QED  BY <1>1, <4>1, <4>2 DEF IInv, TokensAgree
    <3>5. ASSUME NEW w \in Attn, NEW t \in Slots, NEW r \in slots'[w][t].members
          PROVE  MemberAgrees(kv'[w], r, emitted'[r], LayersDone(slots'[w][t]), Delivered(t)')
      <4>1. r \in Seated(w, t) /\ r \in Requests /\ r \in slots[w][t].members
        BY <1>1, <2>13, <3>5 DEF Seated, Cell
      <4>2. MemberAgrees(kv[w], r, emitted[r], LayersDone(slots[w][t]), Delivered(t))
        BY <4>1 DEF IInv, TokensAgree
      <4>3. CASE t # s \/ task.layer # Last
        <5>1. emitted'[r] = emitted[r]
          BY <2>7, <2>8, <4>1, <4>3
        <5>2. Delivered(t)' = Delivered(t)
          BY <2>5, <4>3 DEF Delivered
        <5>. QED  BY <1>1, <4>2, <5>1, <5>2
      <4>4. CASE t = s /\ task.layer = Last
        <5>1. LayersDone(slots[w][t]) /\ r \in task.reqs
          BY <2>2, <4>1, <4>4 DEF LayersDone, Expects
        <5>2. emitted'[r] = emitted[r] + 1 /\ emitted[r] \in Nat /\ Target[r] \in Nat
          BY <2>7, <2>13, <4>1, <4>4, <5>1, WorkloadAssumption
        <5>3. ~Delivered(t) /\ Delivered(t)'
          BY <2>5, <2>6, <4>4
        <5>. QED  BY <1>1, <4>2, <5>1, <5>2, <5>3 DEF MemberAgrees
      <4>. QED  BY <4>3, <4>4
    <3>. QED  BY <3>1, <3>2, <3>3, <3>4, <3>5 DEF TokensAgree
  <2>15. LeavingTrue'
    <3>1. ASSUME NEW i \in 1 .. Len(tick'.events)
          PROVE  tick'.events[i].leaving =
                    IF tick'.events[i].layer = Last
                    THEN { r \in tick'.events[i].reqs \ done' : IsComplete(r, emitted') } ELSE {}
      <4>1. CASE i \in 1 .. Len(tick.events)
        <5> DEFINE e == tick.events[i]
        <5>1. e \in FfnEvents /\ e.leaving = IF e.layer = Last
                 THEN { r \in e.reqs \ done : IsComplete(r, emitted) } ELSE {}
          <6>1. e \in FfnEvents
            BY <2>1, <4>1
          <6>2. LeavingTrue
            BY DEF IInv, BatchesAgree
          <6>. QED  BY <1>1, <4>1, <6>1, <6>2 DEF LeavingTrue
        <5>2. ASSUME NEW r \in e.reqs \ done PROVE emitted'[r] = emitted[r]
          <6>1. r \in Requests /\ e.slot \in Slots /\ e.slot # s
            BY <2>2, <4>1, <5>1 DEF FfnEvents
          <6>2. PICK p \in InFlightTasks(e.slot) : SameTask(Core(e), p.task)
            <7>1. NowDelivered(tick) = tick.events /\ Carrying(ffn, NowDelivered(tick))
              BY <1>1, Types DEF NowDelivered, IInv
            <7>2. << -1, i >> \in Spots /\ << -1, i >>[1] = -1 /\ << -1, i >>[2] = i
              BY <2>3, <4>1 DEF Spots
            <7>3. TaskAt(ffn, NowDelivered(tick), << -1, i >>) = Core(e)
              BY <4>1, <7>1, <7>2 DEF TaskAt
            <7>4. Core(e) # NoTask /\ Core(e).slot = e.slot
              BY <5>1, AfdAssumption DEF Core, Tasks, FfnEvents
            <7>. QED  BY <7>1, <7>2, <7>3, <7>4, FlightSpots, InFlightIs
          <6>3. r \in p.task.reqs \ done
            BY <6>2 DEF SameTask, Core
          <6>4. PICK w \in Attn : r \in slots[w][e.slot].members
            BY <6>1, <6>3, Served
          <6>5. r \in Seated(w, e.slot)
            BY <6>4 DEF Seated
          <6>. QED  BY <2>7, <2>8, <6>1, <6>5
        <5>3. { r \in e.reqs \ done : IsComplete(r, emitted) }
                 = { r \in e.reqs \ done : IsComplete(r, emitted') }
          BY <5>2 DEF IsComplete
        <5>. QED  BY <1>1, <2>3, <4>1, <5>1, <5>3
      <4>2. CASE i = Len(tick.events) + 1
        <5>1. task.reqs \ done' = task.reqs
          BY <1>1, <2>2
        <5>2. EventOf(task, emitted').leaving =
                 IF task.layer = Last THEN { r \in task.reqs : IsComplete(r, emitted') } ELSE {}
          BY DEF EventOf
        <5>. QED  BY <2>3, <2>4, <4>2, <5>1, <5>2
      <4>. QED  BY <2>3, <4>1, <4>2
    <3>. QED  BY <3>1 DEF LeavingTrue
  <2>. QED  BY <1>1, <1>3, <1>4, <2>10, <2>11, <2>14, <2>15 DEF IInv, BatchesAgree
<1>. QED  BY <1>5, <1>6
-----------------------------------------------------------------------------
(* The delivery of what the FFN workers computed.                           *)

\* A slot that a step leaves alone.
LEMMA SlotKept ==
    ASSUME IInv, NEW s \in Slots, sched'[s] = sched[s], Unheard(s)' = Unheard(s),
           Moved(InFlightTasks(s), InFlightTasks(s)'),
           \A w \in Attn : SameCell(slots[w][s], slots'[w][s]),
           done \subseteq done', \A w \in Attn : slots[w][s].members \cap done' = {}
    PROVE  LockstepOf(View(s), done)' /\ SameBarrier(View(s), View(s)')
<1> DEFINE x == View(s)
           y == View(s)'
<1>1. LockstepOf(x, done)
  BY DEF IInv, Lockstep
<1>2. y.sched = x.sched /\ y.unheard = x.unheard /\ SameTasks(x.tasks, y.tasks)
  BY DEF View, Moved
<1>3. \A w \in Attn : SameCell(x.cells[w], y.cells[w])
  BY DEF View
<1>4. done \subseteq done' /\ BatchOf(x, Attn) \cap done' = {}
  BY DEF View, BatchOf
<1> HIDE DEF x, y
<1>5. LockstepOf(y, done') /\ SameBarrier(x, y)
  BY <1>1, <1>2, <1>3, <1>4, KeptSlot
<1>. QED  BY <1>5 DEF x, y

\* Members are not done.
LEMMA MembersNotDone ==
    ASSUME Places
    PROVE  \A w \in Attn, s \in Slots : Seated(w, s) \cap done = {}
                                        /\ slots[w][s].members \cap done = {}
BY DEF Places, Seated, InService

\* Nobody changes places.
LEMMA SameSeats ==
    ASSUME IInv, UNCHANGED << arrived, queue, home, done >>,
           \A w \in Attn, s \in Slots :
               /\ Seated(w, s)' = Seated(w, s)
               /\ slots'[w][s].members \cap slots'[w][s].joining = {},
           \A w \in Attn, r \in Requests :
               /\ kv'[w].placement[r] = kv[w].placement[r]
               /\ r \in kv'[w].decodes[0] => (r \in kv[w].decodes[0] \/ kv[w].placement[r] = 0)
    PROVE  Places' /\ StoresAgree'
<1>1. InService' = InService /\ Arrived' = Arrived
  BY DEF InService, Arrived
<1>2. Places'
  <2>1. done' \subseteq Arrived'
    BY <1>1 DEF IInv, Places
  <2>2. \A w \in Attn : \A r \in queue'[w] :
           r \in InService' /\ home'[r] = w /\ \A s \in Slots : r \notin Seated(w, s)'
    BY <1>1 DEF IInv, Places
  <2>3. \A w \in Attn, s \in Slots : \A r \in Seated(w, s)' : r \in InService' /\ home'[r] = w
    BY <1>1 DEF IInv, Places
  <2>4. \A w \in Attn, s, t \in Slots : s # t => Seated(w, s)' \cap Seated(w, t)' = {}
    BY DEF IInv, Places
  <2>5. \A r \in InService' : \E w \in Attn :
           r \in queue'[w] \/ \E s \in Slots : r \in Seated(w, s)'
    BY <1>1 DEF IInv, Places
  <2>. QED  BY <2>1, <2>2, <2>3, <2>4, <2>5 DEF Places
<1>3. ASSUME NEW w \in Attn, NEW r \in Requests
      PROVE  /\ kv'[w].placement[r] = 0 <=> \E s \in Slots : r \in Seated(w, s)'
             /\ r \in kv'[w].decodes[0] => kv'[w].placement[r] = 0
  BY DEF IInv, StoresAgree
<1>4. StoresAgree'
  BY <1>3 DEF StoresAgree
<1>. QED  BY <1>2, <1>4

\* The first event leaves.
LEMMA HeadDelivered ==
    ASSUME IInv, Delivering, tick' = [tick EXCEPT !.events = Tail(@)],
           UNCHANGED << ffn, done, emitted >>, NEW e, e = Head(tick.events)
    PROVE  /\ e \in FfnEvents /\ e.slot \in Slots
           /\ tick'.stage = "ffn" /\ tick'.due = {} /\ tick'.events \in Seq(FfnEvents)
           /\ tick' \in [stage : {"between", "ffn", "attn"}, due : SUBSET (Attn \cup Ffn),
                         driving : BOOLEAN, events : Seq(FfnEvents) \cup Seq(Reports)]
           /\ \A s \in Slots : /\ s # e.slot => Moved(InFlightTasks(s), InFlightTasks(s)')
                               /\ Unheard(s)' = {} /\ Unheard(s) = {}
           /\ InFlightTasks(e.slot)' = {}
           /\ \E p \in InFlightTasks(e.slot) : SameTask(p.task, e) /\ p.at[1] = -1
           /\ \A s \in Slots : Delivered(s)' <=> (Delivered(s) /\ s # e.slot)
           /\ Delivered(e.slot) <=> e.layer = Last
           /\ e.leaving = IF e.layer = Last
                          THEN { r \in e.reqs \ done : IsComplete(r, emitted) } ELSE {}
           /\ ReportsTrue' /\ BatchesAgree'
<1> DEFINE E == tick.events
           D == Tail(tick.events)
<1>1. /\ tick.stage = "ffn" /\ tick.due = {} /\ E # << >> /\ E \in Seq(FfnEvents)
      /\ tick'.stage = "ffn" /\ tick'.due = {} /\ tick'.events = D
      /\ tick' = [stage |-> "ffn", due |-> {}, driving |-> tick.driving, events |-> D]
      /\ tick.driving \in BOOLEAN
  BY DEF Delivering, IInv, TypeOK
<1>2. /\ e \in FfnEvents /\ e.slot \in Slots /\ D \in Seq(FfnEvents)
      /\ Len(D) = Len(E) - 1 /\ Len(E) \in Nat /\ Len(E) > 0 /\ e = E[1]
      /\ \A i \in 1 .. Len(D) : D[i] = E[i + 1] /\ i + 1 \in 1 .. Len(E)
      /\ \A i \in 1 .. Len(E) : i = 1 \/ (i - 1 \in 1 .. Len(D) /\ D[i - 1] = E[i])
  <2>1. e \in FfnEvents /\ D \in Seq(FfnEvents) /\ e = E[1]
    BY <1>1
  <2>2. e.slot \in Slots
    BY <2>1 DEF FfnEvents
  <2>3. Len(D) = Len(E) - 1 /\ Len(E) \in Nat /\ Len(E) > 0
        /\ \A i \in 1 .. Len(D) : D[i] = E[i + 1]
    BY <1>1
  <2>4. \A i \in 1 .. Len(E) : i = 1 \/ i - 1 \in 1 .. Len(D)
    BY <2>3
  <2>. QED  BY <2>1, <2>2, <2>3, <2>4
<1>3. Carrying(ffn, E) /\ NowDelivered(tick) = E /\ NowDelivered(tick') = D
  <2>1. Carrying(ffn, NowDelivered(tick))
    BY Types DEF IInv
  <2>. QED  BY <1>1, <2>1 DEF NowDelivered
<1>4. \A s : InFlightTasks(s) = Flight(ffn, E, s) /\ InFlightTasks(s)' = Flight(ffn, D, s)
  BY <1>3, InFlightIs
<1>5. \A s \in Slots : \A p, q \in Flight(ffn, E, s) : p = q
  BY <1>4, Served
<1> HIDE DEF E, D
<1>6. \A s \in Slots : /\ s # Head(E).slot => Moved(Flight(ffn, E, s), Flight(ffn, Tail(E), s))
                       /\ s = Head(E).slot =>
                             /\ Flight(ffn, Tail(E), s) = {}
                             /\ \E p \in Flight(ffn, E, s) : SameTask(p.task, Head(E)) /\ p.at[1] = -1
  <2>1. ASSUME NEW s \in Slots
        PROVE  /\ s # Head(E).slot => Moved(Flight(ffn, E, s), Flight(ffn, Tail(E), s))
               /\ s = Head(E).slot =>
                     /\ Flight(ffn, Tail(E), s) = {}
                     /\ \E p \in Flight(ffn, E, s) : SameTask(p.task, Head(E)) /\ p.at[1] = -1
    <3>1. OneAtMost(Flight(ffn, E, s))
      BY <1>5 DEF OneAtMost
    <3>2. E # << >>
      BY <1>1 DEF E
    <3>3. FirstLeft(ffn, E, Tail(E), Head(E), s)
      BY <1>3, <3>1, <3>2, DeliveredFlight
    <3>. QED  BY <3>3 DEF FirstLeft
  <2>. QED  BY <2>1
<1>7. e = Head(E) /\ D = Tail(E)
  BY DEF E, D
<1>8. /\ \A s \in Slots : s # e.slot => Moved(InFlightTasks(s), InFlightTasks(s)')
      /\ InFlightTasks(e.slot)' = {}
      /\ \E p \in InFlightTasks(e.slot) : SameTask(p.task, e) /\ p.at[1] = -1
  BY <1>2, <1>4, <1>6, <1>7
<1>9. \A s \in Slots : Unheard(s)' = {} /\ Unheard(s) = {}
  BY <1>1 DEF Unheard
<1>10. \A i \in 1 .. Len(D) : D[i].slot # e.slot
  <2>1. Tells(D, e.slot) = {}
    BY <1>4, <1>8 DEF Flight
  <2>. QED  BY <2>1 DEF Tells
<1>11. ASSUME NEW s \in Slots PROVE Delivered(s)' <=> (Delivered(s) /\ s # e.slot)
  <2>1. Delivered(s) <=> \E i \in 1 .. Len(E) : E[i].slot = s /\ E[i].layer = Last
    BY <1>1 DEF Delivered, E
  <2>2. Delivered(s)' <=> \E i \in 1 .. Len(D) : D[i].slot = s /\ D[i].layer = Last
    BY <1>1 DEF Delivered, D
  <2>3. ASSUME NEW i \in 1 .. Len(D), D[i].slot = s, D[i].layer = Last
        PROVE  s # e.slot /\ \E j \in 1 .. Len(E) : E[j].slot = s /\ E[j].layer = Last
    BY <1>2, <1>10, <2>3
  <2>4. ASSUME NEW i \in 1 .. Len(E), E[i].slot = s, E[i].layer = Last, s # e.slot
        PROVE  \E j \in 1 .. Len(D) : D[j].slot = s /\ D[j].layer = Last
    BY <1>2, <2>4
  <2>. QED  BY <2>1, <2>2, <2>3, <2>4
<1>12. Delivered(e.slot) <=> e.layer = Last
  <2>1. Delivered(e.slot) <=> \E i \in 1 .. Len(E) : E[i].slot = e.slot /\ E[i].layer = Last
    BY <1>1 DEF Delivered, E
  <2>2. ASSUME NEW i \in 1 .. Len(E), E[i].slot = e.slot PROVE i = 1
    BY <1>2, <1>10, <2>2
  <2>3. 1 \in 1 .. Len(E)
    BY <1>2
  <2>. QED  BY <1>2, <2>1, <2>2, <2>3
<1>13. \A i \in 1 .. Len(E) : E[i].leaving =
          IF E[i].layer = Last THEN { r \in E[i].reqs \ done : IsComplete(r, emitted) } ELSE {}
  BY <1>1 DEF IInv, BatchesAgree, LeavingTrue, E
<1>14. e.leaving = IF e.layer = Last
                   THEN { r \in e.reqs \ done : IsComplete(r, emitted) } ELSE {}
  <2>1. 1 \in 1 .. Len(E)
    BY <1>2
  <2>. QED  BY <1>2, <1>13, <2>1
<1>15. ReportsTrue'
  BY <1>1 DEF ReportsTrue
<1>16. LeavingTrue'
  <2>1. \A i \in 1 .. Len(D) : D[i].leaving =
          IF D[i].layer = Last THEN { r \in D[i].reqs \ done : IsComplete(r, emitted) } ELSE {}
    <3>1. ASSUME NEW i \in 1 .. Len(D), NEW j, j = i + 1
          PROVE  D[i].leaving =
            IF D[i].layer = Last THEN { r \in D[i].reqs \ done : IsComplete(r, emitted) } ELSE {}
      <4>1. D[i] = E[j] /\ j \in 1 .. Len(E)
        BY <1>2, <3>1
      <4>. QED  BY <1>13, <4>1
    <3>. QED  BY <3>1
  <2>. QED  BY <1>1, <2>1 DEF LeavingTrue, IsComplete
<1>17. Uncompleted'
  <2>1. ASSUME NEW s \in Slots, NEW q \in InFlightTasks(s)', q.at[1] # -1 \/ q.task.layer # Last
        PROVE  q.task.reqs \cap done' = {}
    <3>1. Moved(InFlightTasks(s), InFlightTasks(s)')
      BY <1>8, <2>1
    <3>2. PICK p \in InFlightTasks(s) :
             SameTask(p.task, q.task) /\ (q.at[1] # -1 => p.at[1] # -1)
      BY <2>1, <3>1 DEF Moved
    <3>3. p.task.reqs \cap done = {}
      BY <2>1, <3>2 DEF IInv, BatchesAgree, Uncompleted, SameTask
    <3>. QED  BY <3>2, <3>3 DEF SameTask
  <2>. QED  BY <2>1 DEF Uncompleted
<1>18. tick' \in [stage : {"between", "ffn", "attn"}, due : SUBSET (Attn \cup Ffn),
                  driving : BOOLEAN, events : Seq(FfnEvents) \cup Seq(Reports)]
  BY <1>1, <1>2
<1>19. tick'.events \in Seq(FfnEvents)
  BY <1>1, <1>2
<1>. QED  BY <1>1, <1>2, <1>8, <1>9, <1>11, <1>12, <1>14, <1>15, <1>16, <1>17, <1>18, <1>19
          DEF BatchesAgree

\* A layer's result reaches every worker.
LEMMA ScatterKeeps ==
    ASSUME IInv, Scatter
    PROVE  IInv' /\ Steps
<1>0. PICK e, s : e = Head(tick.events) /\ s = e.slot
  BY Zenon
<1>1. /\ Delivering /\ e.layer # Last /\ tick' = [tick EXCEPT !.events = Tail(@)]
      /\ UNCHANGED << arrived, kv, queue, home, timers, sched, ffn, next, emitted, done >>
      /\ wake' = AllWoken
      /\ slots' = [w \in Attn |-> [slots[w] EXCEPT ![s] =
            IF Accepts(@, e.layer + 1)
            THEN [@ EXCEPT !.notified = TRUE, !.bytes = e.reqs # {} /\ HasShare(w, s)]
            ELSE @]]
  BY <1>0, ZenonT(30) DEF Scatter
<1>2. /\ e \in FfnEvents /\ s \in Slots
      /\ tick'.stage = "ffn" /\ tick'.due = {} /\ tick'.events \in Seq(FfnEvents)
      /\ tick' \in [stage : {"between", "ffn", "attn"}, due : SUBSET (Attn \cup Ffn),
                    driving : BOOLEAN, events : Seq(FfnEvents) \cup Seq(Reports)]
      /\ \A t \in Slots : /\ t # s => Moved(InFlightTasks(t), InFlightTasks(t)')
                          /\ Unheard(t)' = {} /\ Unheard(t) = {}
      /\ InFlightTasks(s)' = {}
      /\ \E p \in InFlightTasks(s) : SameTask(p.task, e) /\ p.at[1] = -1
      /\ \A t \in Slots : Delivered(t)' <=> (Delivered(t) /\ t # s)
      /\ Delivered(s) <=> e.layer = Last
      /\ ReportsTrue' /\ BatchesAgree'
  BY <1>0, <1>1, HeadDelivered, Zenon
<1>3. slots \in [Attn -> [Slots -> Cell]] /\ \A t \in Slots : IsView(View(t))
  BY Types DEF IInv
<1>4. ASSUME NEW w \in Attn, NEW t \in Slots
      PROVE  /\ slots'[w][t] \in Cell
             /\ slots'[w][t].members = slots[w][t].members
             /\ slots'[w][t].joining = slots[w][t].joining
             /\ slots'[w][t].layer = slots[w][t].layer
             /\ slots'[w][t].announced = slots[w][t].announced
             /\ slots'[w][t].state = slots[w][t].state
             /\ t # s => slots'[w][t] = slots[w][t]
             /\ (t = s /\ slots[w][t].layer = e.layer + 1 /\ slots[w][t].state = "Wait")
                   => slots'[w][t].notified
  <2>1. slots[w][t] \in Cell
    BY <1>3
  <2>2. CASE t # s
    <3>1. slots'[w][t] = slots[w][t]
      BY <1>1, <1>3, <2>2
    <3>. QED  BY <2>1, <2>2, <3>1
  <2>3. CASE t = s
    <3>1. slots'[w][s] =
            IF Accepts(slots[w][s], e.layer + 1)
            THEN [slots[w][s] EXCEPT !.notified = TRUE, !.bytes = e.reqs # {} /\ HasShare(w, s)]
            ELSE slots[w][s]
      BY <1>1, <1>2, <1>3
    <3>2. (e.reqs # {} /\ HasShare(w, s)) \in BOOLEAN
      BY DEF HasShare
    <3>. QED  BY <2>1, <2>3, <3>1, <3>2 DEF Cell, Accepts
  <2>. QED  BY <2>2, <2>3
<1>5. TypeOK'
  <2>1. slots' \in [Attn -> [Slots -> Cell]]
    <3>1. \A w \in Attn : slots'[w] \in [Slots -> Cell]
      <4>1. \A w \in Attn : DOMAIN slots'[w] = Slots /\ slots'[w] = [t \in Slots |-> slots'[w][t]]
        BY <1>1, <1>3
      <4>. QED  BY <1>4, <4>1
    <3>2. slots' = [w \in Attn |-> slots'[w]]
      BY <1>1
    <3>. QED  BY <3>1, <3>2
  <2>2. wake' \in [Attn -> Wakes]
    BY <1>1 DEF IInv, TypeOK, AllWoken, Woken, Wakes
  <2>. QED  BY <1>1, <1>2, <2>1, <2>2 DEF IInv, TypeOK, Cell
<1>6. ASSUME NEW t \in Slots, t # s
      PROVE  LockstepOf(View(t), done)' /\ SameBarrier(View(t), View(t)')
  <2>1. \A w \in Attn : SameCell(slots[w][t], slots'[w][t])
    BY <1>4, <1>6 DEF SameCell
  <2>2. \A w \in Attn : slots[w][t].members \cap done' = {}
    BY <1>1, MembersNotDone DEF IInv
  <2>3. sched'[t] = sched[t] /\ Unheard(t)' = Unheard(t) /\ done \subseteq done'
        /\ Moved(InFlightTasks(t), InFlightTasks(t)')
    BY <1>1, <1>2, <1>6
  <2>. QED  BY <2>1, <2>2, <2>3, SlotKept
<1>7. LockstepOf(View(s), done)' /\ Finishes(View(s), View(s)')
  <2> DEFINE x == View(s)
             y == View(s)'
  <2>1. PICK p \in InFlightTasks(s) : SameTask(p.task, e)
    BY <1>2
  <2>2. LockstepOf(x, done) /\ IsView(x)
    BY <1>2, <1>3 DEF IInv, Lockstep
  <2>3. p \in x.tasks /\ p.task.layer # Last /\ p.task.layer = e.layer
    BY <1>1, <2>1 DEF View, SameTask
  <2>4. y.tasks = {} /\ y.sched = x.sched /\ y.unheard = {}
    BY <1>1, <1>2 DEF View
  <2>5. \A w \in Attn : x.cells[w] = slots[w][s] /\ y.cells[w] = slots'[w][s]
    BY DEF View
  <2>6. \A w \in Attn : /\ y.cells[w].members = x.cells[w].members
                        /\ y.cells[w].layer = x.cells[w].layer
                        /\ y.cells[w].announced = x.cells[w].announced
                        /\ y.cells[w].state = x.cells[w].state
                        /\ (x.cells[w].layer = p.task.layer + 1 /\ x.cells[w].state = "Wait")
                              => y.cells[w].notified
    BY <1>2, <1>4, <2>3, <2>5
  <2> HIDE DEF x, y
  <2>7. LockstepOf(y, done) /\ Finishes(x, y)
    BY <2>2, <2>3, <2>4, <2>6, ScatteredSlot
  <2>. QED  BY <1>1, <2>7 DEF x, y
<1>8. Lockstep' /\ Steps
  BY <1>6, <1>7 DEF Lockstep, Steps, BarrierStep
<1>9. OneComputes'
  BY <1>4 DEF IInv, OneComputes
<1>10. Places' /\ StoresAgree'
  <2>1. \A w \in Attn, t \in Slots : Seated(w, t)' = Seated(w, t)
                                     /\ slots'[w][t].members \cap slots'[w][t].joining = {}
    BY <1>4 DEF Seated, IInv, Places
  <2>. QED  BY <1>1, <2>1, SameSeats
<1>11. TokensAgree'
  <2>1. Arrived' = Arrived
    BY <1>1 DEF Arrived
  <2>2. \A t \in Slots : Delivered(t)' <=> Delivered(t)
    BY <1>1, <1>2
  <2>3. ASSUME NEW w \in Attn, NEW t \in Slots, NEW r \in slots'[w][t].members
        PROVE  MemberAgrees(kv'[w], r, emitted'[r], LayersDone(slots'[w][t]), Delivered(t)')
    <3>1. MemberAgrees(kv[w], r, emitted[r], LayersDone(slots[w][t]), Delivered(t))
      BY <1>4, <2>3 DEF IInv, TokensAgree
    <3>2. LayersDone(slots'[w][t]) <=> LayersDone(slots[w][t])
      BY <1>4, SMTT(30) DEF LayersDone
    <3>. QED  BY <1>1, <2>2, <3>1, <3>2 DEF MemberAgrees
  <2>4. \A w \in Attn, t \in Slots : \A r \in slots'[w][t].joining :
           JoiningAgrees(kv'[w], r, emitted'[r])
    BY <1>1, <1>4, ZenonT(30) DEF IInv, TokensAgree
  <2>. QED  BY <1>1, <2>1, <2>3, <2>4 DEF IInv, TokensAgree
<1>. QED  BY <1>2, <1>5, <1>8, <1>9, <1>10, <1>11 DEF IInv

\* advance_slot_layer, cell by cell.
LEMMA NextLayerIs ==
    ASSUME NEW c \in Cell
    PROVE  /\ NextLayer(c) \in Cell
           /\ NextLayer(c).members = c.members /\ NextLayer(c).joining = c.joining
           /\ NextLayer(c).state = "Wait" /\ ~NextLayer(c).notified
           /\ c.layer = Last => NextLayer(c).layer = 0 /\ ~NextLayer(c).announced
           /\ c.layer # Last => /\ NextLayer(c).layer = c.layer + 1
                                /\ NextLayer(c).announced = c.announced
<1>1. c.layer \in 0 .. Last /\ NumLayers \in Nat \ {0} /\ Last = NumLayers - 1
      /\ c.announced \in BOOLEAN
  BY AfdAssumption DEF Cell, Last
<1>2. c.layer = Last => (c.layer + 1) % NumLayers = 0
  BY <1>1
<1>3. c.layer # Last => (c.layer + 1) % NumLayers = c.layer + 1 /\ c.layer + 1 \in 0 .. Last
                        /\ c.layer + 1 # 0
  BY <1>1
<1>4. (c.layer + 1) % NumLayers \in 0 .. Last
  BY <1>1, <1>2, <1>3
<1> DEFINE layer == (c.layer + 1) % NumLayers
           d == [c EXCEPT !.layer = layer, !.state = "Wait", !.notified = FALSE,
                          !.bytes = FALSE, !.announced = c.announced /\ layer # 0]
<1>5. NextLayer(c) = d
  BY DEF NextLayer, Cell
<1> HIDE DEF layer
<1>6. /\ d \in Cell /\ d.members = c.members /\ d.joining = c.joining /\ d.state = "Wait"
      /\ ~d.notified /\ d.layer = layer /\ d.announced = (c.announced /\ layer # 0)
  <2>1. layer \in 0 .. Last
    BY <1>4 DEF layer
  <2>. QED  BY <2>1, <1>1 DEF Cell, States
<1> HIDE DEF d
<1>. QED  BY <1>1, <1>2, <1>3, <1>5, <1>6 DEF layer

\* SlotFlushed, cell by cell.
LEMMA FlushedIs ==
    ASSUME NEW ss \in [Attn -> [Slots -> Cell]], NEW s \in Slots, NEW layer,
           NEW tt, tt = Flushed(ss, s, layer)
    PROVE  /\ tt \in [Attn -> [Slots -> Cell]]
           /\ \A w \in Attn, t \in Slots :
                 /\ tt[w][t].members = ss[w][t].members /\ tt[w][t].joining = ss[w][t].joining
                 /\ t # s => tt[w][t] = ss[w][t]
           /\ \A w \in Attn :
                 tt[w][s] = IF ss[w][s].state = "AwaitFlush" /\ ss[w][s].layer = layer
                            THEN NextLayer(ss[w][s]) ELSE ss[w][s]
<1> DEFINE new(w) == IF ss[w][s].state = "AwaitFlush" /\ ss[w][s].layer = layer
                     THEN NextLayer(ss[w][s]) ELSE ss[w][s]
<1>1. tt = [w \in Attn |-> [ss[w] EXCEPT ![s] = new(w)]]
  BY DEF Flushed
<1>2. \A w \in Attn : new(w) \in Cell /\ new(w).members = ss[w][s].members
                      /\ new(w).joining = ss[w][s].joining
  BY NextLayerIs
<1> HIDE DEF new
<1>3. tt \in [Attn -> [Slots -> Cell]]
  BY <1>1, <1>2
<1>4. \A w \in Attn : tt[w][s] = new(w) /\ \A t \in Slots \ {s} : tt[w][t] = ss[w][t]
  BY <1>1
<1>. QED  BY <1>2, <1>3, <1>4 DEF new

\* The Terminal's iteration is over.
LEMMA FinishIterationKeeps ==
    ASSUME IInv, FinishIteration
    PROVE  IInv' /\ Steps
<1>0. PICK e, s : e = Head(tick.events) /\ s = e.slot
  OBVIOUS
<1>1. /\ Delivering /\ e.layer = Last /\ e.leaving = {} /\ tick' = [tick EXCEPT !.events = Tail(@)]
      /\ UNCHANGED << arrived, kv, queue, home, timers, ffn, next, emitted, done >>
      /\ wake' = AllWoken /\ slots' = Flushed(slots, s, Last)
      /\ sched' = [sched EXCEPT ![s].inFlight = FALSE, ![s].barrier = EmptyBarrier]
  BY <1>0 DEF FinishIteration
<1>2. /\ e \in FfnEvents /\ s \in Slots
      /\ tick'.stage = "ffn" /\ tick'.due = {} /\ tick'.events \in Seq(FfnEvents)
      /\ tick' \in [stage : {"between", "ffn", "attn"}, due : SUBSET (Attn \cup Ffn),
                    driving : BOOLEAN, events : Seq(FfnEvents) \cup Seq(Reports)]
      /\ \A t \in Slots : /\ t # s => Moved(InFlightTasks(t), InFlightTasks(t)')
                          /\ Unheard(t)' = {} /\ Unheard(t) = {}
      /\ InFlightTasks(s)' = {}
      /\ \E p \in InFlightTasks(s) : SameTask(p.task, e) /\ p.at[1] = -1
      /\ \A t \in Slots : Delivered(t)' <=> (Delivered(t) /\ t # s)
      /\ Delivered(s) <=> e.layer = Last
      /\ e.leaving = IF e.layer = Last
                     THEN { r \in e.reqs \ done : IsComplete(r, emitted) } ELSE {}
      /\ ReportsTrue' /\ BatchesAgree'
  BY <1>0, <1>1, HeadDelivered
<1>3. /\ slots \in [Attn -> [Slots -> Cell]] /\ sched \in [Slots -> Sched]
      /\ \A t \in Slots : IsView(View(t))
  BY Types DEF IInv
<1>4. /\ slots' \in [Attn -> [Slots -> Cell]]
      /\ \A w \in Attn, t \in Slots :
            /\ slots'[w][t].members = slots[w][t].members
            /\ slots'[w][t].joining = slots[w][t].joining
            /\ t # s => slots'[w][t] = slots[w][t]
      /\ \A w \in Attn :
            slots'[w][s] = IF slots[w][s].state = "AwaitFlush" /\ slots[w][s].layer = Last
                           THEN NextLayer(slots[w][s]) ELSE slots[w][s]
  BY <1>1, <1>2, <1>3, FlushedIs
<1>5. PICK p \in InFlightTasks(s) : SameTask(p.task, e)
  BY <1>2
<1>6. p.task.layer = Last /\ p.task.reqs = e.reqs /\ p.task.slot = s
  BY <1>0, <1>1, <1>5 DEF SameTask
<1>7. \A w \in Attn : /\ slots[w][s].state = "AwaitFlush" /\ slots[w][s].layer = Last
                      /\ slots[w][s].members \subseteq e.reqs \ done
  BY <1>2, <1>6, Served DEF Expects
<1>8. \A w \in Attn : AtRest(slots'[w][s]) /\ ~slots'[w][s].announced
  BY <1>2, <1>3, <1>4, <1>7, NextLayerIs, SMTT(30) DEF AtRest
<1>9. /\ sched' \in [Slots -> Sched] /\ \A t \in Slots : t # s => sched'[t] = sched[t]
      /\ ~sched'[s].inFlight /\ sched'[s].start = sched[s].start /\ sched'[s].barrier = EmptyBarrier
  <2>1. EmptyBarrier \in [layer : 0 .. Last, count : Nat, reqs : SUBSET Requests, weighted : SUBSET Attn]
    BY Universe DEF EmptyBarrier
  <2>2. sched' = [sched EXCEPT ![s] = [sched[s] EXCEPT !.inFlight = FALSE, !.barrier = EmptyBarrier]]
    BY <1>1, <1>2, <1>3
  <2>3. sched[s] \in Sched
    BY <1>2, <1>3
  <2>4. [sched[s] EXCEPT !.inFlight = FALSE, !.barrier = EmptyBarrier] \in Sched
    BY <2>1, <2>3 DEF Sched
  <2>5. sched'[s] = [sched[s] EXCEPT !.inFlight = FALSE, !.barrier = EmptyBarrier]
    BY <1>2, <1>3, <2>2
  <2>6. ~sched'[s].inFlight /\ sched'[s].start = sched[s].start /\ sched'[s].barrier = EmptyBarrier
    BY <2>3, <2>5 DEF Sched
  <2>. QED  BY <1>2, <1>3, <2>2, <2>4, <2>6
<1>10. TypeOK'
  <2>1. wake' \in [Attn -> Wakes]
    BY <1>1 DEF IInv, TypeOK, AllWoken, Woken, Wakes
  <2>. QED  BY <1>1, <1>2, <1>4, <1>9, <2>1 DEF IInv, TypeOK, Cell, Sched
<1>11. ASSUME NEW t \in Slots, t # s
       PROVE  LockstepOf(View(t), done)' /\ SameBarrier(View(t), View(t)')
  <2>1. \A w \in Attn : SameCell(slots[w][t], slots'[w][t])
    BY <1>4, <1>11 DEF SameCell
  <2>2. \A w \in Attn : slots[w][t].members \cap done' = {}
    BY <1>1, MembersNotDone DEF IInv
  <2>3. sched'[t] = sched[t] /\ Unheard(t)' = Unheard(t) /\ done \subseteq done'
        /\ Moved(InFlightTasks(t), InFlightTasks(t)')
    BY <1>1, <1>2, <1>9, <1>11
  <2>. QED  BY <2>1, <2>2, <2>3, SlotKept
<1>12. LockstepOf(View(s), done)' /\ Finishes(View(s), View(s)')
  <2> DEFINE x == View(s)
             y == View(s)'
  <2>1. LockstepOf(x, done) /\ IsView(x)
    BY <1>2, <1>3 DEF IInv, Lockstep
  <2>2. p \in x.tasks /\ p.task.layer = Last
    BY <1>6 DEF View
  <2>3. y.tasks = {} /\ y.sched = sched'[s] /\ x.sched = sched[s] /\ y.unheard = {}
    BY <1>2 DEF View
  <2>4. \A w \in Attn : y.cells[w] = slots'[w][s]
    BY DEF View
  <2>5. ~y.sched.inFlight /\ y.sched.start = x.sched.start /\ y.sched.barrier = EmptyBarrier
    BY <1>9, <2>3
  <2>6. \A w \in Attn : (x.cells[w].state = "AwaitFlush" /\ x.cells[w].layer = Last)
                               => AtRest(y.cells[w]) /\ ~y.cells[w].announced
    BY <1>8, <2>4
  <2> HIDE DEF x, y
  <2>7. LockstepOf(y, done) /\ Finishes(x, y)
    BY <2>1, <2>2, <2>3, <2>5, <2>6, FinishedSlot
  <2>. QED  BY <1>1, <2>7 DEF x, y
<1>13. Lockstep' /\ Steps
  BY <1>11, <1>12 DEF Lockstep, Steps, BarrierStep
<1>14. OneComputes'
  <2>1. \A w \in Attn : slots'[w][s].state = "Wait"
    BY <1>8 DEF AtRest
  <2>. QED  BY <1>4, <2>1 DEF IInv, OneComputes
<1>15. Places' /\ StoresAgree'
  <2>1. \A w \in Attn, t \in Slots : Seated(w, t)' = Seated(w, t)
                                     /\ slots'[w][t].members \cap slots'[w][t].joining = {}
    BY <1>4 DEF Seated, IInv, Places
  <2>. QED  BY <1>1, <2>1, SameSeats
<1>16. TokensAgree'
  <2>1. Arrived' = Arrived
    BY <1>1 DEF Arrived
  <2>2. \A r \in e.reqs \ done : emitted[r] < Target[r]
    <3>1. \A r \in e.reqs : r \in Requests
      BY <1>2 DEF FfnEvents
    <3>2. \A r \in Requests : emitted[r] \in Nat /\ Target[r] \in Nat
      BY WorkloadAssumption DEF IInv, TypeOK
    <3>3. \A r \in e.reqs \ done : ~(emitted[r] >= Target[r])
      BY <1>1, <1>2 DEF IsComplete
    <3>. QED  BY <3>1, <3>2, <3>3
  <2>3. ASSUME NEW w \in Attn, NEW t \in Slots, NEW r \in slots'[w][t].members
        PROVE  MemberAgrees(kv'[w], r, emitted'[r], LayersDone(slots'[w][t]), Delivered(t)')
    <3>1. MemberAgrees(kv[w], r, emitted[r], LayersDone(slots[w][t]), Delivered(t))
      BY <1>4, <2>3 DEF IInv, TokensAgree
    <3>2. CASE t # s
      <4>1. LayersDone(slots'[w][t]) <=> LayersDone(slots[w][t])
        BY <1>4, <3>2 DEF LayersDone
      <4>2. Delivered(t)' <=> Delivered(t)
        BY <1>2, <3>2
      <4>. QED  BY <1>1, <3>1, <4>1, <4>2 DEF MemberAgrees
    <3>3. CASE t = s
      <4>1. LayersDone(slots[w][t]) /\ ~LayersDone(slots'[w][t])
        BY <1>7, <1>8, <3>3 DEF LayersDone, AtRest
      <4>2. Delivered(t) /\ ~Delivered(t)'
        BY <1>1, <1>2, <3>3
      <4>3. emitted[r] < Target[r]
        BY <1>4, <1>7, <2>2, <2>3, <3>3
      <4>. QED  BY <1>1, <3>1, <4>1, <4>2, <4>3 DEF MemberAgrees
    <3>. QED  BY <3>2, <3>3
  <2>4. \A w \in Attn, t \in Slots : \A r \in slots'[w][t].joining :
           JoiningAgrees(kv'[w], r, emitted'[r])
    BY <1>1, <1>4 DEF IInv, TokensAgree
  <2>. QED  BY <1>1, <2>1, <2>3, <2>4 DEF IInv, TokensAgree
<1>. QED  BY <1>2, <1>10, <1>13, <1>14, <1>15, <1>16 DEF IInv

\* An event that is not delivered yet is a task in flight.
LEMMA EventInFlight ==
    ASSUME IInv, tick.stage = "ffn", NEW i \in 1 .. Len(tick.events)
    PROVE  /\ tick.events[i] \in FfnEvents /\ tick.events[i].slot \in Slots
           /\ \E p \in InFlightTasks(tick.events[i].slot) :
                 p.at = << -1, i >> /\ p.at[1] = -1 /\ p.at[2] = i
                 /\ p.task.layer = tick.events[i].layer /\ p.task.reqs = tick.events[i].reqs
<1> DEFINE e == tick.events[i]
<1>1. NowDelivered(tick) = tick.events /\ Carrying(ffn, NowDelivered(tick))
  BY Types DEF NowDelivered, IInv
<1>2. e \in FfnEvents
  BY <1>1 DEF Carrying
<1>3. << -1, i >> \in Spots /\ << -1, i >>[1] = -1 /\ << -1, i >>[2] = i
  BY DEF Spots
<1>4. TaskAt(ffn, NowDelivered(tick), << -1, i >>) = Core(e)
  BY <1>1, <1>3 DEF TaskAt
<1>5. Core(e) # NoTask /\ Core(e).slot = e.slot /\ e.slot \in Slots
  BY <1>2, AfdAssumption DEF Core, Tasks, FfnEvents
<1>6. PICK p \in InFlightTasks(e.slot) : p.at = << -1, i >>
  BY <1>1, <1>3, <1>4, <1>5, FlightSpots, InFlightIs
<1>7. SameTask(Core(e), p.task)
  BY <1>1, <1>4, <1>6, FlightSpots, InFlightIs
<1>. QED  BY <1>2, <1>3, <1>5, <1>6, <1>7 DEF SameTask, Core

\* Events of different places are of different slots.
LEMMA EventsApart ==
    ASSUME IInv, tick.stage = "ffn", NEW i \in 1 .. Len(tick.events),
           NEW j \in 1 .. Len(tick.events), tick.events[i].slot = tick.events[j].slot
    PROVE  i = j
<1>1. PICK p \in InFlightTasks(tick.events[i].slot) : p.at[2] = i
  BY EventInFlight
<1>2. PICK q \in InFlightTasks(tick.events[i].slot) : q.at[2] = j
  BY EventInFlight
<1>3. p = q
  BY EventInFlight, Served
<1>. QED  BY <1>1, <1>2, <1>3

\* Request r leaves slot s of its worker w, whose store becomes st.
Leaves(r, w, s, st) ==
    /\ tick.stage = "ffn" /\ 1 \in 1 .. Len(tick.events)
    /\ s = tick.events[1].slot /\ tick.events[1].layer = Last
    /\ r \in tick.events[1].leaving /\ r \in tick.events[1].reqs \ done
    /\ emitted[r] >= Target[r]
    /\ r \in slots[w][s].members /\ home[r] = w
    /\ \A v \in Attn, t \in Slots : r \in Seated(v, t) => v = w /\ t = s
    /\ r \notin slots[w][s].joining /\ r \in InService
    /\ \A v \in Attn : r \notin queue[v]
    /\ kv' = [kv EXCEPT ![w] = st]
    /\ st.placement = [kv[w].placement EXCEPT ![r] = NoPartition]
    /\ st.promised = [kv[w].promised EXCEPT ![r] = 0]
    /\ st.decodes[0] = kv[w].decodes[0] \ {r}
    /\ \A q \in Requests \ {r} : /\ st.context[q] = kv[w].context[q]
                                 /\ st.remaining[q] = kv[w].remaining[q]
    /\ slots' \in [Attn -> [Slots -> Cell]]
    /\ \A v \in Attn, t \in Slots :
          ~(v = w /\ t = s) => slots'[v][t] = slots[v][t]
    /\ slots'[w][s].members = slots[w][s].members \ {r}
    /\ slots'[w][s].joining = slots[w][s].joining
    /\ slots'[w][s].layer = slots[w][s].layer
    /\ slots'[w][s].state = slots[w][s].state

\* What a completed request leaves behind.
LEMMA ReleaseDoneIs ==
    ASSUME IInv, NEW r \in Requests, ReleaseDone(r)
    PROVE  \E w \in Attn, s \in Slots, st \in Kv!Store : Leaves(r, w, s, st)
<1>0. PICK e, s, w : e = Head(tick.events) /\ s = e.slot /\ w = home[r]
  OBVIOUS
<1>1. /\ Delivering /\ e.layer = Last /\ r \in e.leaving
      /\ \E st \in Kv!ReleasedRetainingPrefix(kv[w], r, 0) : kv' = [kv EXCEPT ![w] = st]
      /\ slots' = [slots EXCEPT ![w] =
              [t \in Slots |-> IF r \in slots[w][t].members
                               THEN Without(slots[w][t], r) ELSE slots[w][t]]]
  BY <1>0 DEF ReleaseDone
<1>2. /\ tick.stage = "ffn" /\ tick.events \in Seq(FfnEvents) /\ 1 \in 1 .. Len(tick.events)
      /\ e = tick.events[1]
  <2>1. tick.stage = "ffn" /\ tick.events \in Seq(FfnEvents) /\ tick.events # << >>
    BY <1>1 DEF Delivering, IInv, TypeOK
  <2>. QED  BY <1>0, <2>1
<1>3. e.leaving = { q \in e.reqs \ done : IsComplete(q, emitted) }
  BY <1>1, <1>2 DEF IInv, BatchesAgree, LeavingTrue
<1>4. r \in e.reqs \ done /\ emitted[r] >= Target[r]
  BY <1>1, <1>3 DEF IsComplete
<1>5. s \in Slots
  BY <1>0, <1>2, EventInFlight
<1>6. PICK p \in InFlightTasks(s) : p.task.reqs = e.reqs
  BY <1>0, <1>2, EventInFlight
<1>7. PICK v \in Attn : r \in slots[v][s].members
  BY <1>4, <1>5, <1>6, Served
<1>8. v = w /\ r \in Seated(w, s)
  <2>1. r \in Seated(v, s)
    BY <1>7 DEF Seated
  <2>. QED  BY <1>0, <1>5, <2>1 DEF IInv, Places
<1>9. /\ w \in Attn /\ r \in slots[w][s].members
      /\ \A u \in Attn, t \in Slots : r \in Seated(u, t) => u = w /\ t = s
      /\ r \notin slots[w][s].joining /\ r \in InService
  <2>1. w \in Attn /\ r \in slots[w][s].members
    BY <1>7, <1>8
  <2>. QED  BY <1>5, <1>8, <2>1, SeatsApart DEF IInv
<1>10. \A u \in Attn : r \notin queue[u]
  BY <1>5, <1>8, <1>9 DEF IInv, Places
<1>11. PICK st \in Kv!ReleasedRetainingPrefix(kv[w], r, 0) : kv' = [kv EXCEPT ![w] = st]
  BY <1>1
<1>12. kv[w] \in KF!Store /\ st \in KF!ReleasedRetainingPrefix(kv[w], r, 0) /\ 0 \in KF!Partitions
  BY <1>9, <1>11, StoreParts, StoreOps DEF IInv, TypeOK
<1>13. st \in KF!Store
  BY <1>12, StoreAssumptions, KF!ReleasedRetainingPrefixType
<1>14. /\ st.placement = [kv[w].placement EXCEPT ![r] = NoPartition]
       /\ st.promised = [kv[w].promised EXCEPT ![r] = 0]
       /\ st.decodes = [kv[w].decodes EXCEPT ![0] = kv[w].decodes[0] \ {r}]
       /\ \A q \in Requests \ {r} : /\ st.context[q] = kv[w].context[q]
                                    /\ st.remaining[q] = kv[w].remaining[q]
  <2>1. KF!ReleasedFrom(kv[w], r, 0, st)
    BY <1>12, StoreAssumptions, KF!ReleasedFromIt
  <2>. QED  BY <2>1 DEF KF!ReleasedFrom
<1>15. st \in Kv!Store /\ st.decodes[0] = kv[w].decodes[0] \ {r}
  BY <1>12, <1>13, <1>14, StoreParts DEF KF!Store
<1>16. slots \in [Attn -> [Slots -> Cell]]
  BY Types DEF IInv
<1>17. \A t \in Slots : t # s => r \notin slots[w][t].members
  BY <1>9 DEF Seated
<1>18. slots' = [slots EXCEPT ![w] = [t \in Slots |-> IF t = s THEN Without(slots[w][s], r)
                                                     ELSE slots[w][t]]]
  BY <1>1, <1>9, <1>17
<1>19. /\ Without(slots[w][s], r) \in Cell
       /\ Without(slots[w][s], r).members = slots[w][s].members \ {r}
       /\ Without(slots[w][s], r).joining = slots[w][s].joining
       /\ Without(slots[w][s], r).layer = slots[w][s].layer
       /\ Without(slots[w][s], r).state = slots[w][s].state
  <2>1. slots[w][s] \in Cell /\ slots[w][s].joining \ {r} = slots[w][s].joining
    BY <1>5, <1>9, <1>16
  <2>. QED  BY <2>1 DEF Without, Cell
<1>20. /\ slots' \in [Attn -> [Slots -> Cell]]
       /\ \A u \in Attn, t \in Slots : ~(u = w /\ t = s) => slots'[u][t] = slots[u][t]
       /\ slots'[w][s] = Without(slots[w][s], r)
  BY <1>5, <1>9, <1>16, <1>18, <1>19, SMTT(30)
<1>21. Leaves(r, w, s, st)
  BY <1>0, <1>1, <1>2, <1>4, <1>9, <1>10, <1>11, <1>14, <1>15, <1>19, <1>20, Zenon DEF Leaves
<1>. QED  BY <1>5, <1>9, <1>15, <1>21

\* A completed request leaves.
LEMMA ReleaseDoneKeeps ==
    ASSUME IInv, NEW r \in Requests, ReleaseDone(r)
    PROVE  IInv' /\ Steps
<1>1. PICK w \in Attn, s \in Slots, st \in Kv!Store : Leaves(r, w, s, st)
  BY ReleaseDoneIs
<1>2. /\ UNCHANGED << arrived, queue, timers, wake, sched, ffn, next, emitted >>
      /\ home' = [home EXCEPT ![r] = -1] /\ done' = done \cup {r}
      /\ tick' = [tick EXCEPT !.events[1].leaving = @ \ {r}]
  BY DEF ReleaseDone
<1>3. /\ tick.stage = "ffn" /\ 1 \in 1 .. Len(tick.events) /\ tick.events \in Seq(FfnEvents)
      /\ Len(tick.events) \in Nat
      /\ s = tick.events[1].slot /\ tick.events[1].layer = Last
      /\ r \in tick.events[1].leaving /\ r \in tick.events[1].reqs \ done
      /\ emitted[r] >= Target[r] /\ r \in slots[w][s].members
      /\ \A v \in Attn, t \in Slots : r \in Seated(v, t) => v = w /\ t = s
      /\ r \notin slots[w][s].joining /\ r \in InService
      /\ \A v \in Attn : r \notin queue[v]
  BY <1>1 DEF Leaves, IInv, TypeOK
<1>4. /\ kv' = [kv EXCEPT ![w] = st]
      /\ st.placement = [kv[w].placement EXCEPT ![r] = NoPartition]
      /\ st.promised = [kv[w].promised EXCEPT ![r] = 0]
      /\ st.decodes[0] = kv[w].decodes[0] \ {r}
      /\ \A q \in Requests \ {r} : /\ st.context[q] = kv[w].context[q]
                                   /\ st.remaining[q] = kv[w].remaining[q]
  BY <1>1 DEF Leaves
<1>5. /\ slots' \in [Attn -> [Slots -> Cell]] /\ slots \in [Attn -> [Slots -> Cell]]
      /\ \A v \in Attn, t \in Slots : ~(v = w /\ t = s) => slots'[v][t] = slots[v][t]
      /\ slots'[w][s].members = slots[w][s].members \ {r}
      /\ slots'[w][s].joining = slots[w][s].joining
      /\ slots'[w][s].layer = slots[w][s].layer
      /\ slots'[w][s].state = slots[w][s].state
  BY <1>1, Types DEF Leaves, IInv
<1>6. ASSUME NEW v \in Attn, NEW t \in Slots
      PROVE  /\ slots'[v][t].members = slots[v][t].members \ {r}
             /\ slots'[v][t].joining = slots[v][t].joining
             /\ slots'[v][t].layer = slots[v][t].layer
             /\ slots'[v][t].state = slots[v][t].state
             /\ r \notin slots[v][t].joining
             /\ Seated(v, t)' = Seated(v, t) \ {r}
             /\ t # s => slots'[v][t] = slots[v][t] /\ r \notin slots[v][t].members
  <2>1. CASE v = w /\ t = s
    BY <1>3, <1>5, <2>1, ZenonT(30) DEF Seated
  <2>2. CASE ~(v = w /\ t = s)
    <3>1. r \notin slots[v][t].members /\ r \notin slots[v][t].joining
      BY <1>3, <2>2 DEF Seated
    <3>2. slots'[v][t] = slots[v][t]
      BY <1>5, <2>2
    <3>. QED  BY <3>1, <3>2 DEF Seated
  <2>. QED  BY <2>1, <2>2, Zenon
\* The event of the Terminal, and the others.
<1>7. /\ tick'.stage = "ffn" /\ tick'.due = tick.due /\ tick'.events \in Seq(FfnEvents)
      /\ tick' \in [stage : {"between", "ffn", "attn"}, due : SUBSET (Attn \cup Ffn),
                    driving : BOOLEAN, events : Seq(FfnEvents) \cup Seq(Reports)]
      /\ tick'.due \subseteq Ffn
      /\ Len(tick'.events) = Len(tick.events)
      /\ \A i \in 1 .. Len(tick.events) :
            /\ tick'.events[i].slot = tick.events[i].slot
            /\ tick'.events[i].layer = tick.events[i].layer
            /\ tick'.events[i].reqs = tick.events[i].reqs
            /\ i # 1 => tick'.events[i].leaving = tick.events[i].leaving
      /\ tick'.events[1].leaving = tick.events[1].leaving \ {r}
  <2>1. PICK e \in FfnEvents : e = tick.events[1]
    BY <1>3
  <2>2. PICK d \in FfnEvents : d = [e EXCEPT !.leaving = e.leaving \ {r}]
    <3>1. [e EXCEPT !.leaving = e.leaving \ {r}] \in FfnEvents
      BY DEF FfnEvents
    <3>. QED  BY <3>1
  <2>3. d.slot = e.slot /\ d.layer = e.layer /\ d.reqs = e.reqs /\ d.leaving = e.leaving \ {r}
    BY <2>2 DEF FfnEvents
  <2>4. PICK D : D = [tick.events EXCEPT ![1] = d]
    OBVIOUS
  <2>5. /\ D \in Seq(FfnEvents) /\ Len(D) = Len(tick.events) /\ D[1] = d
        /\ \A i \in 1 .. Len(tick.events) : i # 1 => D[i] = tick.events[i]
    BY <1>3, <2>4
  <2>6. /\ tick \in [stage : {"between", "ffn", "attn"}, due : SUBSET (Attn \cup Ffn),
                     driving : BOOLEAN, events : Seq(FfnEvents) \cup Seq(Reports)]
        /\ tick.due \subseteq Ffn
    BY <1>3 DEF IInv, TypeOK
  <2>7. tick' = [tick EXCEPT !.events = D]
    BY <1>2, <2>1, <2>2, <2>4, <2>6
  <2>8. /\ tick'.stage = "ffn" /\ tick'.due = tick.due /\ tick'.events = D
        /\ tick' \in [stage : {"between", "ffn", "attn"}, due : SUBSET (Attn \cup Ffn),
                      driving : BOOLEAN, events : Seq(FfnEvents) \cup Seq(Reports)]
    BY <1>3, <2>5, <2>6, <2>7
  <2>. QED  BY <2>1, <2>3, <2>5, <2>6, <2>8
<1>8. TypeOK'
  <2>1. kv' \in [Attn -> Kv!Store]
    BY <1>4 DEF IInv, TypeOK
  <2>2. home' \in [Requests -> Attn \cup {-1}] /\ done' \subseteq Requests
    BY <1>2 DEF IInv, TypeOK
  <2>. QED  BY <1>2, <1>5, <1>7, <2>1, <2>2 DEF IInv, TypeOK, Cell
<1>9. ASSUME NEW t \in Slots PROVE Moved(InFlightTasks(t), InFlightTasks(t)')
  <2>1. Carrying(ffn, NowDelivered(tick)) /\ Carrying(ffn', NowDelivered(tick'))
    BY <1>8, Types, NextCarrying DEF IInv
  <2>2. NowDelivered(tick) = tick.events /\ NowDelivered(tick') = tick'.events
    BY <1>3, <1>7 DEF NowDelivered
  <2>3. \A i \in 1 .. Len(tick.events) : Core(tick'.events[i]) = Core(tick.events[i])
    BY <1>7 DEF Core
  <2>4. \A x \in Spots : TaskAt(ffn', NowDelivered(tick'), x) = TaskAt(ffn, NowDelivered(tick), x)
    BY <1>2, <1>7, <2>2, <2>3 DEF TaskAt
  <2>5. Moved(Flight(ffn, NowDelivered(tick), t), Flight(ffn', NowDelivered(tick'), t))
    BY <2>1, <2>4, StayedFlight
  <2>. QED  BY <2>5, InFlightIs
<1>10. \A t \in Slots : Unheard(t)' = {} /\ Unheard(t) = {}
  BY <1>3, <1>7 DEF Unheard
<1>11. \A t \in Slots : Delivered(t)' <=> Delivered(t)
  BY <1>3, <1>7 DEF Delivered
<1>12. PICK p \in InFlightTasks(s) : p.at[1] = -1 /\ p.task.layer = Last
  BY <1>3, EventInFlight
<1>13. ASSUME NEW t \in Slots, t # s
       PROVE  LockstepOf(View(t), done)' /\ SameBarrier(View(t), View(t)')
  <2>1. \A v \in Attn : SameCell(slots[v][t], slots'[v][t])
    BY <1>6, <1>13 DEF SameCell
  <2>2. \A v \in Attn : slots[v][t].members \cap done' = {}
    BY <1>2, <1>6, <1>13, MembersNotDone DEF IInv
  <2>3. sched'[t] = sched[t] /\ Unheard(t)' = Unheard(t) /\ done \subseteq done'
    BY <1>2, <1>10
  <2>. QED  BY <1>9, <2>1, <2>2, <2>3, SlotKept
<1>14. LockstepOf(View(s), done)' /\ SameBarrier(View(s), View(s)')
  <2> DEFINE x == View(s)
             y == View(s)'
  <2>1. LockstepOf(x, done) /\ p \in x.tasks
    BY DEF IInv, Lockstep, View
  <2>2. y.sched = x.sched /\ y.unheard = x.unheard /\ SameTasks(x.tasks, y.tasks)
    BY <1>2, <1>9, <1>10 DEF View, Moved
  <2>3. \A v \in Attn : x.cells[v] = slots[v][s] /\ y.cells[v] = slots'[v][s]
    BY DEF View
  <2>4. \A v \in Attn : /\ y.cells[v].members = x.cells[v].members \ {r}
                        /\ y.cells[v].layer = x.cells[v].layer
                        /\ y.cells[v].state = x.cells[v].state
    BY <1>6, <2>3
  <2> HIDE DEF x, y
  <2>5. RequestLeft(x, y, r)
    BY <1>12, <2>1, <2>2, <2>4 DEF RequestLeft
  <2>6. LockstepOf(y, done') /\ SameBarrier(x, y)
    BY <1>2, <2>1, <2>5, ReleasedSlot
  <2>. QED  BY <2>6 DEF x, y
<1>15. Lockstep' /\ Steps
  BY <1>13, <1>14 DEF Lockstep, Steps, BarrierStep
<1>16. OneComputes' /\ ReportsTrue'
  BY <1>6, <1>7 DEF IInv, OneComputes, ReportsTrue
<1>17. ASSUME NEW t \in Slots, NEW q \in InFlightTasks(t), r \in q.task.reqs PROVE t = s
  <2>1. PICK v \in Attn : r \in slots[v][t].members
    BY <1>3, <1>17, Served
  <2>. QED  BY <1>3, <2>1 DEF Seated
<1>18. Uncompleted'
  <2>1. ASSUME NEW t \in Slots, NEW q \in InFlightTasks(t)', q.at[1] # -1 \/ q.task.layer # Last
        PROVE  q.task.reqs \cap done' = {}
    <3>1. PICK u \in InFlightTasks(t) :
             SameTask(u.task, q.task) /\ (q.at[1] # -1 => u.at[1] # -1)
      BY <1>9 DEF Moved
    <3>2. u.at[1] # -1 \/ u.task.layer # Last
      BY <2>1, <3>1 DEF SameTask
    <3>3. u.task.reqs \cap done = {}
      BY <3>2 DEF IInv, BatchesAgree, Uncompleted
    <3>4. r \notin u.task.reqs
      <4>1. SUFFICES ASSUME r \in u.task.reqs PROVE FALSE
        OBVIOUS
      <4>2. u \in InFlightTasks(s)
        BY <1>17, <4>1
      <4>3. u = p
        BY <4>2, Served
      <4>. QED  BY <1>12, <3>2, <4>3
    <3>. QED  BY <1>2, <3>1, <3>3, <3>4 DEF SameTask
  <2>. QED  BY <2>1 DEF Uncompleted
<1>19. LeavingTrue'
  <2>1. ASSUME NEW i \in 1 .. Len(tick.events)
        PROVE  tick'.events[i].leaving =
                  IF tick'.events[i].layer = Last
                  THEN { q \in tick'.events[i].reqs \ done' : IsComplete(q, emitted') } ELSE {}
    <3>1. tick.events[i].leaving =
             IF tick.events[i].layer = Last
             THEN { q \in tick.events[i].reqs \ done : IsComplete(q, emitted) } ELSE {}
      BY <1>3 DEF IInv, BatchesAgree, LeavingTrue
    <3>2. CASE i = 1
      <4>1. tick'.events[1].reqs \ done' = (tick.events[1].reqs \ done) \ {r}
        BY <1>2, <1>7, <3>2
      <4>. QED  BY <1>2, <1>3, <1>7, <3>1, <3>2, <4>1 DEF IsComplete
    <3>3. CASE i # 1
      <4>1. r \notin tick.events[i].reqs
        <5>1. SUFFICES ASSUME r \in tick.events[i].reqs PROVE FALSE
          OBVIOUS
        <5>2. tick.events[i].slot = s
          BY <1>3, <1>17, <5>1, EventInFlight
        <5>. QED  BY <1>3, <3>3, <5>2, EventsApart
      <4>2. tick'.events[i].reqs \ done' = tick.events[i].reqs \ done
        BY <1>2, <1>7, <4>1
      <4>. QED  BY <1>2, <1>7, <3>1, <3>3, <4>2, ZenonT(30) DEF IsComplete
    <3>. QED  BY <3>2, <3>3
  <2>. QED  BY <1>7, <2>1 DEF LeavingTrue
<1>20. Arrived' = Arrived /\ InService' = InService \ {r}
  BY <1>2 DEF Arrived, InService
<1>21. InService \subseteq Requests /\ \A q \in Requests \ {r} : home'[q] = home[q]
  BY <1>2, SMTT(30) DEF IInv, TypeOK, InService, Arrived
<1>22. Places'
  <2>1. done' \subseteq Arrived'
    BY <1>2, <1>3, <1>20 DEF IInv, Places, InService
  <2>2. ASSUME NEW v \in Attn, NEW q \in queue'[v]
        PROVE  q \in InService' /\ home'[q] = v /\ \A t \in Slots : q \notin Seated(v, t)'
    <3>1. q \in queue[v] /\ q # r
      BY <1>2, <1>3, <2>2
    <3>. QED  BY <1>6, <1>20, <1>21, <3>1 DEF IInv, Places
  <2>3. ASSUME NEW v \in Attn, NEW t \in Slots, NEW q \in Seated(v, t)'
        PROVE  q \in InService' /\ home'[q] = v
    <3>1. q \in Seated(v, t) /\ q # r
      BY <1>6, <2>3
    <3>. QED  BY <1>20, <1>21, <3>1 DEF IInv, Places
  <2>4. \A v \in Attn, t, u \in Slots : t # u => Seated(v, t)' \cap Seated(v, u)' = {}
    BY <1>6 DEF IInv, Places
  <2>5. \A v \in Attn, t \in Slots : slots'[v][t].members \cap slots'[v][t].joining = {}
    BY <1>6 DEF IInv, Places
  <2>6. ASSUME NEW q \in InService'
        PROVE  \E v \in Attn : q \in queue'[v] \/ \E t \in Slots : q \in Seated(v, t)'
    <3>1. q \in InService /\ q # r
      BY <1>20, <2>6
    <3>. QED  BY <1>2, <1>6, <3>1 DEF IInv, Places
  <2>. QED  BY <2>1, <2>2, <2>3, <2>4, <2>5, <2>6 DEF Places
<1>23. /\ \A v \in Attn : v # w => kv'[v] = kv[v]
       /\ kv'[w] = st
       /\ NoPartition # 0
       /\ kv[w].placement \in [Requests -> {0, NoPartition}]
       /\ kv[w].promised \in [Requests -> Nat]
  <2>1. kv[w] \in KF!Store /\ kv \in [Attn -> Kv!Store]
    BY StoreParts DEF IInv, TypeOK
  <2>. QED  BY <1>4, <2>1, StoreParts, AfdAssumption DEF KF!Store
<1>24. ASSUME NEW v \in Attn, NEW q \in Requests, q # r
       PROVE  /\ kv'[v].placement[q] = kv[v].placement[q]
              /\ q \in kv'[v].decodes[0] <=> q \in kv[v].decodes[0]
              /\ kv'[v].promised[q] = kv[v].promised[q]
              /\ kv'[v].context[q] = kv[v].context[q]
              /\ kv'[v].remaining[q] = kv[v].remaining[q]
  BY <1>4, <1>23, <1>24
<1>25. StoresAgree'
  <2>1. ASSUME NEW v \in Attn, NEW q \in Requests
        PROVE  /\ kv'[v].placement[q] = 0 <=> \E t \in Slots : q \in Seated(v, t)'
               /\ q \in kv'[v].decodes[0] => kv'[v].placement[q] = 0
    <3>1. CASE q # r
      BY <1>6, <1>24, <3>1 DEF IInv, StoresAgree
    <3>2. CASE q = r /\ v = w
      BY <1>4, <1>6, <1>23, <3>2
    <3>3. CASE q = r /\ v # w
      <4>1. \A t \in Slots : r \notin Seated(v, t)
        BY <1>3, <3>3
      <4>. QED  BY <1>6, <1>23, <3>3, <4>1 DEF IInv, StoresAgree
    <3>. QED  BY <3>1, <3>2, <3>3
  <2>. QED  BY <2>1 DEF StoresAgree
<1>26. TokensAgree'
  <2>1. emitted[r] = Target[r]
    <3>1. MemberAgrees(kv[w], r, emitted[r], LayersDone(slots[w][s]), Delivered(s))
      BY <1>3 DEF IInv, TokensAgree
    <3>2. LayersDone(slots[w][s])
      BY <1>12, Served DEF LayersDone, Expects
    <3>3. Delivered(s)
      BY <1>3 DEF Delivered
    <3>4. emitted[r] <= Target[r]
      BY <3>1, <3>2, <3>3 DEF MemberAgrees
    <3>5. emitted[r] \in Nat /\ Target[r] \in Nat
      BY WorkloadAssumption DEF IInv, TypeOK
    <3>. QED  BY <1>3, <3>4, <3>5
  <2>2. \A q \in Requests \ Arrived' : emitted'[q] = 0
    BY <1>2, <1>20 DEF IInv, TokensAgree
  <2>3. \A q \in done' : emitted'[q] = Target[q]
    BY <1>2, <2>1 DEF IInv, TokensAgree
  <2>4. \A v \in Attn : \A q \in queue'[v] : emitted'[q] = 0
    BY <1>2 DEF IInv, TokensAgree
  <2>5. ASSUME NEW v \in Attn, NEW t \in Slots, NEW q \in slots'[v][t].joining
        PROVE  JoiningAgrees(kv'[v], q, emitted'[q])
    <3>1. q \in slots[v][t].joining /\ q # r /\ q \in Requests
      BY <1>5, <1>6, <2>5 DEF Cell
    <3>2. JoiningAgrees(kv[v], q, emitted[q])
      BY <3>1 DEF IInv, TokensAgree
    <3>. QED  BY <1>2, <1>24, <3>1, <3>2 DEF JoiningAgrees
  <2>6. ASSUME NEW v \in Attn, NEW t \in Slots, NEW q \in slots'[v][t].members
        PROVE  MemberAgrees(kv'[v], q, emitted'[q], LayersDone(slots'[v][t]), Delivered(t)')
    <3>1. q \in slots[v][t].members /\ q # r /\ q \in Requests
      BY <1>5, <1>6, <2>6 DEF Cell
    <3>2. MemberAgrees(kv[v], q, emitted[q], LayersDone(slots[v][t]), Delivered(t))
      BY <3>1 DEF IInv, TokensAgree
    <3>3. LayersDone(slots'[v][t]) <=> LayersDone(slots[v][t])
      BY <1>6 DEF LayersDone
    <3>. QED  BY <1>2, <1>11, <1>24, <3>1, <3>2, <3>3 DEF MemberAgrees
  <2>. QED  BY <2>2, <2>3, <2>4, <2>5, <2>6 DEF TokensAgree
<1>. QED  BY <1>8, <1>15, <1>16, <1>18, <1>19, <1>22, <1>25, <1>26 DEF IInv, BatchesAgree
-----------------------------------------------------------------------------
(* The attention workers.                                                   *)

\* The slot with the least KV is one.
LEMMA LeastKvSlotIs ==
    ASSUME TypeOK, NEW w \in Attn
    PROVE  LeastKvSlot(w) \in Slots
<1>1. ASSUME NEW s \in Slots PROVE SlotLoad(w, s) \in Int
  <2> DEFINE g == [r \in Requests |-> Weight(kv[w], r)]
             S == slots[w][s].members \cup slots[w][s].joining
  <2>1. kv[w] \in KF!Store /\ slots[w][s] \in Cell
    BY StoreParts, Types, SMTT(30) DEF TypeOK
  <2>2. S \subseteq Requests /\ IsFiniteSet(S)
    BY <2>1, FS_Subset, WorkloadAssumption DEF Cell
  <2>3. \A r \in S : g[r] \in Int
    BY <2>1, <2>2 DEF Weight, KF!Store
  <2> HIDE DEF g, S
  <2>4. SumOver(g, S) \in Int
    BY <2>2, <2>3, SumType
  <2>. QED  BY <2>4 DEF SlotLoad, g, S
<1> DEFINE f == [s \in Slots |-> SlotLoad(w, s)]
<1>2. NumSlots - 1 \in Nat /\ Slots = 0 .. NumSlots - 1
  BY AfdAssumption DEF Slots
<1>3. \A s \in Slots : f[s] \in Int
  BY <1>1
<1>4. \A s \in Slots : f[s] = SlotLoad(w, s)
  OBVIOUS
<1> HIDE DEF f
<1>5. \E s \in Slots : \A t \in Slots : f[s] < f[t] \/ (f[s] = f[t] /\ s <= t)
  BY <1>2, <1>3, FirstLeast
<1>6. \E s \in Slots : \A t \in Slots :
         \/ SlotLoad(w, s) < SlotLoad(w, t)
         \/ SlotLoad(w, s) = SlotLoad(w, t) /\ s <= t
  BY <1>4, <1>5
<1>. QED  BY <1>6 DEF LeastKvSlot

\* What a request holds from its admission to its end: at least its output.
LEMMA FootprintIs ==
    ASSUME NEW r \in Requests
    PROVE  FootprintOf(r) \in Nat /\ FootprintOf(r) > 0
           /\ ContextOf(r) \in Nat /\ Target[r] \in Nat /\ Target[r] > 0
<1>1. ContextOf(r) \in Nat /\ Target[r] \in Nat /\ Target[r] > 0
  BY WorkloadAssumption DEF ContextOf
<1>. QED  BY <1>1 DEF FootprintOf, Kv!Footprint

\* The head of the queue is admitted.
LEMMA AdmitHeadKeeps ==
    ASSUME IInv, NEW w \in Attn, NEW r \in Requests, AdmitHead(w, r)
    PROVE  IInv' /\ Steps
<1>1. PICK k \in Slots : /\ k = LeastKvSlot(w)
                         /\ slots' = [slots EXCEPT ![w][k].joining = @ \cup {r}]
  BY LeastKvSlotIs DEF IInv, AdmitHead
<1>2. /\ UNCHANGED << arrived, home, timers, wake, sched, ffn, next, tick, emitted, done >>
      /\ tick.stage = "attn" /\ queue' = [queue EXCEPT ![w] = @ \ {r}] /\ r \in queue[w]
  BY DEF AdmitHead, IsTicking, Admissible, HeadOf
<1>3. PICK st \in KF!ReservedPrefill(kv[w], r, 0, FootprintOf(r)) : kv' = [kv EXCEPT ![w] = st]
  BY StoreOps DEF AdmitHead
<1>4. /\ st \in Kv!Store
      /\ st.promised = [kv[w].promised EXCEPT ![r] = FootprintOf(r)]
      /\ st.placement = [kv[w].placement EXCEPT ![r] = 0]
      /\ st.decodes = kv[w].decodes
      /\ st.context = kv[w].context /\ st.remaining = kv[w].remaining
  <2>1. kv[w] \in KF!Store /\ 0 \in KF!Partitions /\ FootprintOf(r) \in Nat
    BY StoreParts, FootprintIs DEF IInv, TypeOK
  <2>2. KF!ReservedFor(kv[w], r, 0, FootprintOf(r), st)
    BY <2>1, StoreAssumptions, KF!ReservedForIt
  <2>. QED  BY <2>2, StoreParts DEF KF!ReservedFor
<1>5. /\ slots \in [Attn -> [Slots -> Cell]] /\ slots' \in [Attn -> [Slots -> Cell]]
      /\ \A v \in Attn, t \in Slots :
            /\ SameCell(slots[v][t], slots'[v][t])
            /\ slots'[v][t].members = slots[v][t].members
            /\ slots'[v][t].layer = slots[v][t].layer
            /\ slots'[v][t].state = slots[v][t].state
            /\ slots'[v][t].announced = slots[v][t].announced
            /\ slots'[v][t].joining = IF v = w /\ t = k THEN slots[v][t].joining \cup {r}
                                                        ELSE slots[v][t].joining
  <2>1. slots \in [Attn -> [Slots -> Cell]]
    BY Types DEF IInv
  <2>2. PICK c \in Cell : c = slots[w][k]
    BY <2>1
  <2>3. PICK d \in Cell : d = [c EXCEPT !.joining = c.joining \cup {r}]
    <3>1. [c EXCEPT !.joining = c.joining \cup {r}] \in Cell
      BY DEF Cell
    <3>. QED  BY <3>1
  <2>4. /\ d.members = c.members /\ d.layer = c.layer /\ d.state = c.state
        /\ d.announced = c.announced /\ d.notified = c.notified
        /\ d.joining = c.joining \cup {r}
    BY <2>3 DEF Cell
  <2>5. slots' = [slots EXCEPT ![w] = [slots[w] EXCEPT ![k] = d]]
    BY <1>1, <2>1, <2>2, <2>3
  <2>6. slots' \in [Attn -> [Slots -> Cell]]
    BY <2>1, <2>5
  <2>7. ASSUME NEW v \in Attn, NEW t \in Slots
        PROVE  slots'[v][t] = IF v = w /\ t = k THEN d ELSE slots[v][t]
    BY <2>1, <2>5
  <2>. QED  BY <2>1, <2>2, <2>4, <2>6, <2>7 DEF SameCell
<1>6. TypeOK'
  <2>1. kv' \in [Attn -> Kv!Store]
    BY <1>3, <1>4 DEF IInv, TypeOK
  <2>2. queue' \in [Attn -> SUBSET Requests]
    BY <1>2 DEF IInv, TypeOK
  <2>. QED  BY <1>2, <1>5, <2>1, <2>2 DEF IInv, TypeOK, Cell
<1>7. \A s \in Slots : Unheard(s)' = Unheard(s) /\ Delivered(s)' = Delivered(s)
  BY <1>2 DEF Unheard, Delivered
<1>8. \A s : InFlightTasks(s)' = InFlightTasks(s)
  BY <1>2 DEF InFlightTasks, CarriedBy, Carries, Carried, Tells
<1>9. ASSUME NEW s \in Slots PROVE Moved(InFlightTasks(s), InFlightTasks(s)')
  <2>1. Carrying(ffn, NowDelivered(tick))
    BY Types DEF IInv
  <2>2. Moved(Flight(ffn, NowDelivered(tick), s), Flight(ffn, NowDelivered(tick), s))
    BY <2>1, StayedFlight
  <2>. QED  BY <1>2, <2>2, InFlightIs
<1>10. ASSUME NEW s \in Slots
       PROVE  LockstepOf(View(s), done)' /\ SameBarrier(View(s), View(s)')
  <2>1. \A v \in Attn : SameCell(slots[v][s], slots'[v][s])
    BY <1>5
  <2>2. \A v \in Attn : slots[v][s].members \cap done' = {}
    BY <1>2, MembersNotDone DEF IInv
  <2>3. sched'[s] = sched[s] /\ Unheard(s)' = Unheard(s) /\ done \subseteq done'
    BY <1>2, <1>7
  <2>. QED  BY <1>9, <2>1, <2>2, <2>3, SlotKept
<1>11. Lockstep' /\ Steps
  BY <1>10 DEF Lockstep, Steps, BarrierStep
<1>12. OneComputes'
  <2>1. \A v \in Attn, t \in Slots : slots'[v][t].state = slots[v][t].state
    BY <1>5
  <2>. QED  BY <2>1 DEF IInv, OneComputes
<1>13. ReportsTrue'
  <2>1. tick.events \in Seq(Reports)
    BY <1>2 DEF IInv, TypeOK
  <2>2. \A i \in 1 .. Len(tick.events) : tick.events[i] \in Reports
    BY <2>1
  <2>3. \A i \in 1 .. Len(tick.events) : tick.events[i].worker \in Attn /\ tick.events[i].slot \in Slots
    BY <2>2 DEF Reports
  <2>4. ReportsTrue
    BY DEF IInv
  <2>5. \A v \in Attn, t \in Slots :
           /\ slots'[v][t].members = slots[v][t].members
           /\ slots'[v][t].layer = slots[v][t].layer
           /\ slots'[v][t].state = slots[v][t].state
           /\ slots'[v][t].announced = slots[v][t].announced
    BY <1>5
  <2>6. UNCHANGED << tick, sched >>
    BY <1>2
  <2>7. ASSUME NEW e, NEW v \in Attn, NEW t \in Slots, NEW flying,
               ReportTrue(e, slots[v][t], flying)
        PROVE  ReportTrue(e, slots'[v][t], flying)
    BY <2>5, <2>7 DEF ReportTrue
  <2>8. ASSUME tick'.stage = "attn", NEW i \in 1 .. Len(tick.events)
        PROVE  ReportTrue(tick.events[i], slots'[tick.events[i].worker][tick.events[i].slot],
                          sched[tick.events[i].slot].inFlight)
    <3>1. ReportTrue(tick.events[i], slots[tick.events[i].worker][tick.events[i].slot],
                     sched[tick.events[i].slot].inFlight)
      BY <2>4, <2>6, <2>8 DEF ReportsTrue
    <3>. QED  BY <2>3, <2>7, <3>1
  <2>. QED  BY <2>4, <2>6, <2>8 DEF ReportsTrue
<1>14. BatchesAgree'
  <2>1. Uncompleted'
    BY <1>2, <1>8 DEF IInv, BatchesAgree, Uncompleted
  <2>2. LeavingTrue'
    BY <1>2 DEF LeavingTrue
  <2>. QED  BY <2>1, <2>2 DEF BatchesAgree
<1>15. /\ \A v \in Attn, t \in Slots : r \notin Seated(v, t)
       /\ \A v \in Attn, t \in Slots : Seated(v, t)' =
              IF v = w /\ t = k THEN Seated(v, t) \cup {r} ELSE Seated(v, t)
       /\ r \in InService /\ home[r] = w /\ \A v \in Attn : r \notin queue'[v]
       /\ \A v \in Attn : \A q \in queue'[v] : q \in queue[v]
       /\ \A v \in Attn : \A q \in queue[v] : q # r => q \in queue'[v]
  <2>1. r \in InService /\ home[r] = w
    BY <1>2 DEF IInv, Places
  <2>2. \A v \in Attn, t \in Slots : r \notin Seated(v, t)
    BY <1>2, <2>1 DEF IInv, Places
  <2>3. \A v \in Attn : r \in queue[v] => v = w
    BY <2>1 DEF IInv, Places
  <2>4. queue \in [Attn -> SUBSET Requests]
    BY DEF IInv, TypeOK
  <2>5. \A v \in Attn, t \in Slots : Seated(v, t)' =
              IF v = w /\ t = k THEN Seated(v, t) \cup {r} ELSE Seated(v, t)
    <3>1. ASSUME NEW v \in Attn, NEW t \in Slots
          PROVE  Seated(v, t)' = IF v = w /\ t = k THEN Seated(v, t) \cup {r} ELSE Seated(v, t)
      <4>1. /\ slots'[v][t].members = slots[v][t].members
            /\ slots'[v][t].joining = IF v = w /\ t = k THEN slots[v][t].joining \cup {r}
                                                        ELSE slots[v][t].joining
        BY <1>5
      <4>. QED  BY <4>1 DEF Seated
    <3>. QED  BY <3>1
  <2>6. /\ \A v \in Attn : r \notin queue'[v]
        /\ \A v \in Attn : \A q \in queue'[v] : q \in queue[v]
        /\ \A v \in Attn : \A q \in queue[v] : q # r => q \in queue'[v]
    BY <1>2, <2>3, <2>4
  <2>. QED  BY <2>1, <2>2, <2>5, <2>6
<1>16. InService' = InService /\ Arrived' = Arrived
  BY <1>2 DEF InService, Arrived
<1>17. Places'
  <2>1. done' \subseteq Arrived'
    BY <1>2, <1>16 DEF IInv, Places
  <2>2. ASSUME NEW v \in Attn, NEW q \in queue'[v]
        PROVE  q \in InService' /\ home'[q] = v /\ \A t \in Slots : q \notin Seated(v, t)'
    <3>1. q \in queue[v] /\ q # r
      BY <1>15, <2>2
    <3>. QED  BY <1>2, <1>15, <1>16, <3>1 DEF IInv, Places
  <2>3. ASSUME NEW v \in Attn, NEW t \in Slots, NEW q \in Seated(v, t)'
        PROVE  q \in InService' /\ home'[q] = v
    <3>1. CASE q = r
      BY <1>2, <1>15, <1>16, <2>3, <3>1
    <3>2. CASE q # r
      BY <1>2, <1>15, <1>16, <2>3, <3>2 DEF IInv, Places
    <3>. QED  BY <3>1, <3>2
  <2>4. \A v \in Attn, t, u \in Slots : t # u => Seated(v, t)' \cap Seated(v, u)' = {}
    BY <1>15 DEF IInv, Places
  <2>5. \A v \in Attn, t \in Slots : slots'[v][t].members \cap slots'[v][t].joining = {}
    <3>1. ASSUME NEW v \in Attn, NEW t \in Slots PROVE r \notin slots[v][t].members
      BY <1>15 DEF Seated
    <3>2. \A v \in Attn, t \in Slots :
             /\ slots'[v][t].members = slots[v][t].members
             /\ slots'[v][t].joining \subseteq slots[v][t].joining \cup {r}
      BY <1>5
    <3>3. \A v \in Attn, t \in Slots : slots[v][t].members \cap slots[v][t].joining = {}
      BY DEF IInv, Places
    <3>. QED  BY <3>1, <3>2, <3>3
  <2>6. ASSUME NEW q \in InService'
        PROVE  \E v \in Attn : q \in queue'[v] \/ \E t \in Slots : q \in Seated(v, t)'
    <3>1. CASE q = r
      BY <1>15, <3>1
    <3>2. CASE q # r
      BY <1>15, <1>16, <3>2 DEF IInv, Places
    <3>. QED  BY <3>1, <3>2
  <2>. QED  BY <2>1, <2>2, <2>3, <2>4, <2>5, <2>6 DEF Places
<1>18. /\ \A v \in Attn : v # w => kv'[v] = kv[v]
       /\ kv'[w] = st
       /\ kv[w].placement \in [Requests -> {0, NoPartition}]
       /\ kv[w].promised \in [Requests -> Nat]
  <2>1. kv[w] \in KF!Store /\ kv \in [Attn -> Kv!Store]
    BY StoreParts DEF IInv, TypeOK
  <2>. QED  BY <1>3, <2>1, StoreParts DEF KF!Store
<1>19. ASSUME NEW v \in Attn, NEW q \in Requests
       PROVE  /\ kv'[v].placement[q] = IF v = w /\ q = r THEN 0 ELSE kv[v].placement[q]
              /\ q \in kv'[v].decodes[0] <=> q \in kv[v].decodes[0]
              /\ kv'[v].promised[q] = IF v = w /\ q = r THEN FootprintOf(r) ELSE kv[v].promised[q]
              /\ kv'[v].context[q] = kv[v].context[q]
              /\ kv'[v].remaining[q] = kv[v].remaining[q]
  BY <1>4, <1>18
<1>20. StoresAgree'
  <2>1. ASSUME NEW v \in Attn, NEW q \in Requests
        PROVE  /\ kv'[v].placement[q] = 0 <=> \E t \in Slots : q \in Seated(v, t)'
               /\ q \in kv'[v].decodes[0] => kv'[v].placement[q] = 0
    <3>1. CASE q = r /\ v = w
      BY <1>15, <1>19, <3>1
    <3>2. CASE q # r \/ v # w
      BY <1>15, <1>19, <3>2 DEF IInv, StoresAgree
    <3>. QED  BY <3>1, <3>2
  <2>. QED  BY <2>1 DEF StoresAgree
<1>21. r \notin kv[w].decodes[0] /\ emitted[r] = 0
  BY <1>2, <1>15 DEF IInv, StoresAgree, TokensAgree
<1>22. TokensAgree'
  <2>1. /\ \A q \in Requests \ Arrived' : emitted'[q] = 0
        /\ \A q \in done' : emitted'[q] = Target[q]
        /\ \A v \in Attn : \A q \in queue'[v] : emitted'[q] = 0
    BY <1>2, <1>15, <1>16 DEF IInv, TokensAgree
  <2>2. ASSUME NEW v \in Attn, NEW t \in Slots, NEW q \in slots'[v][t].joining
        PROVE  JoiningAgrees(kv'[v], q, emitted'[q])
    <3>0. q \in Requests
      BY <1>5, <2>2 DEF Cell
    <3>1. CASE q = r /\ v = w
      BY <1>2, <1>19, <1>21, <3>1 DEF JoiningAgrees
    <3>2. CASE ~(q = r /\ v = w)
      <4>1. q \in slots[v][t].joining
        BY <1>5, <2>2, <3>2
      <4>2. JoiningAgrees(kv[v], q, emitted[q])
        BY <4>1 DEF IInv, TokensAgree
      <4>. QED  BY <1>2, <1>19, <3>0, <3>2, <4>2 DEF JoiningAgrees
    <3>. QED  BY <3>1, <3>2
  <2>3. ASSUME NEW v \in Attn, NEW t \in Slots, NEW q \in slots'[v][t].members
        PROVE  MemberAgrees(kv'[v], q, emitted'[q], LayersDone(slots'[v][t]), Delivered(t)')
    <3>1. q \in slots[v][t].members /\ q \in Requests
      <4>1. q \in slots[v][t].members
        BY <1>5, <2>3
      <4>2. slots[v][t] \in Cell
        BY <1>5
      <4>. QED  BY <4>1, <4>2 DEF Cell
    <3>2. q # r
      BY <1>15, <3>1 DEF Seated
    <3>3. MemberAgrees(kv[v], q, emitted[q], LayersDone(slots[v][t]), Delivered(t))
      BY <3>1 DEF IInv, TokensAgree
    <3>4. LayersDone(slots'[v][t]) <=> LayersDone(slots[v][t])
      BY <1>5 DEF LayersDone
    <3>5. Delivered(t)' <=> Delivered(t)
      BY <1>7
    <3>. QED  BY <1>2, <1>19, <3>1, <3>2, <3>3, <3>4, <3>5 DEF MemberAgrees
  <2>. QED  BY <2>1, <2>2, <2>3 DEF TokensAgree
<1>. QED  BY <1>6, <1>11, <1>12, <1>13, <1>14, <1>17, <1>20, <1>22 DEF IInv

\* The computation of a slot has ended.
Ends(cell, ended) == cell.state = "Compute" /\ "Compute" \in ended

\* A cell before and after a pass.
DrivenCell(c, d, ended) ==
    /\ d.layer = c.layer /\ d.notified = c.notified
    /\ d.members = IF AtBoundary(c) THEN c.members \cup c.joining ELSE c.members
    /\ d.joining = IF AtBoundary(c) THEN {} ELSE c.joining
    /\ d.announced = IF AtBoundary(c) THEN TRUE ELSE c.announced
    /\ (d.state = "AwaitFlush") <=> (c.state = "AwaitFlush" \/ Ends(c, ended))
    /\ (c.state = "Wait" /\ ~c.notified) => d.state = "Wait"

OneOf(ss) == \A s, t \in Slots : (ss[s].state = "Compute" /\ ss[t].state = "Compute") => s = t

\* A pass of drive_slots, cell by cell.
LEMMA DrivenIs ==
    ASSUME NEW ss \in [Slots -> Cell], NEW ended, NEW tt, tt = Driven(ss, ended), OneOf(ss)
    PROVE  /\ tt \in [Slots -> Cell] /\ OneOf(tt)
           /\ \A s \in Slots : DrivenCell(ss[s], tt[s], ended)
<1> DEFINE after == [s \in Slots |-> Completed(Opened(ss[s]), ended)]
           Up == Starting(after, "WaitComplete", "Pull")
           Run == Starting(after, "PullComplete", "Compute")
<1>1. ASSUME NEW s \in Slots
      PROVE  /\ after[s] \in Cell
             /\ after[s].layer = ss[s].layer /\ after[s].notified = ss[s].notified
             /\ after[s].members = IF AtBoundary(ss[s]) THEN ss[s].members \cup ss[s].joining
                                                        ELSE ss[s].members
             /\ after[s].joining = IF AtBoundary(ss[s]) THEN {} ELSE ss[s].joining
             /\ after[s].announced = IF AtBoundary(ss[s]) THEN TRUE ELSE ss[s].announced
             /\ (after[s].state = "AwaitFlush") <=> (ss[s].state = "AwaitFlush" \/ Ends(ss[s], ended))
             /\ (ss[s].state = "Wait" /\ ~ss[s].notified) => after[s].state = "Wait"
             /\ after[s].state = "Compute" => ss[s].state = "Compute"
  <2>1. PICK c \in Cell : c = ss[s]
    OBVIOUS
  <2>2. PICK o \in Cell :
           /\ o = Opened(c)
           /\ o.layer = c.layer /\ o.notified = c.notified /\ o.state = c.state
           /\ o.members = IF AtBoundary(c) THEN c.members \cup c.joining ELSE c.members
           /\ o.joining = IF AtBoundary(c) THEN {} ELSE c.joining
           /\ o.announced = IF AtBoundary(c) THEN TRUE ELSE c.announced
    <3>1. CASE AtBoundary(c)
      <4>1. PICK o : o = [c EXCEPT !.members = c.members \cup c.joining, !.joining = {},
                                   !.announced = TRUE]
        OBVIOUS
      <4>2. o \in Cell /\ o.layer = c.layer /\ o.notified = c.notified /\ o.state = c.state
            /\ o.members = c.members \cup c.joining /\ o.joining = {} /\ o.announced = TRUE
        BY <4>1 DEF Cell
      <4>3. o = Opened(c)
        BY <3>1, <4>1 DEF Opened
      <4>. QED  BY <3>1, <4>2, <4>3
    <3>2. CASE ~AtBoundary(c)
      BY <3>2 DEF Opened
    <3>. QED  BY <3>1, <3>2
  <2>3. PICK u : u = CASE o.state = "Wait" /\ o.notified           -> "WaitComplete"
                       [] o.state = "Pull" /\ "Pull" \in ended       -> "PullComplete"
                       [] o.state = "Compute" /\ "Compute" \in ended -> "AwaitFlush"
                       [] OTHER                                      -> o.state
    OBVIOUS
  <2>4. o.state \in States /\ o.notified \in BOOLEAN
    BY DEF Cell
  <2>5. /\ u \in States
        /\ (u = "AwaitFlush") <=> (o.state = "AwaitFlush" \/ Ends(o, ended))
        /\ (o.state = "Wait" /\ ~o.notified) => u = "Wait"
        /\ u = "Compute" => o.state = "Compute"
    BY <2>3, <2>4 DEF States, Timed, Ends
  <2>6. after[s] = [o EXCEPT !.state = u]
    BY <2>1, <2>2, <2>3 DEF Completed
  <2>7. /\ after[s] \in Cell /\ after[s].state = u
        /\ after[s].layer = o.layer /\ after[s].notified = o.notified
        /\ after[s].members = o.members /\ after[s].joining = o.joining
        /\ after[s].announced = o.announced
    <3>1. PICK a : a = [o EXCEPT !.state = u]
      OBVIOUS
    <3>2. a \in Cell /\ a.state = u /\ a.layer = o.layer /\ a.notified = o.notified
          /\ a.members = o.members /\ a.joining = o.joining /\ a.announced = o.announced
      BY <2>5, <3>1 DEF Cell
    <3>. QED  BY <2>6, <3>1, <3>2
  <2> HIDE DEF after
  <2>. QED  BY <2>1, <2>2, <2>5, <2>7 DEF Ends
<1>2. \A s \in Slots : /\ s \in Up <=> /\ after[s].state = "WaitComplete"
                                       /\ \A t \in Slots : after[t].state # "Pull"
                                       /\ \A t \in Slots : after[t].state = "WaitComplete" => s <= t
                       /\ s \in Run <=> /\ after[s].state = "PullComplete"
                                        /\ \A t \in Slots : after[t].state # "Compute"
                                        /\ \A t \in Slots : after[t].state = "PullComplete" => s <= t
  BY DEF Starting
<1>3. tt = [s \in Slots |-> IF s \in Up THEN [after[s] EXCEPT !.state = "Pull"]
                            ELSE IF s \in Run THEN [after[s] EXCEPT !.state = "Compute"]
                            ELSE after[s]]
  BY DEF Driven
<1> HIDE DEF after, Up, Run
<1>4. ASSUME NEW s \in Slots
      PROVE  /\ tt[s] \in Cell
             /\ tt[s].layer = after[s].layer /\ tt[s].notified = after[s].notified
             /\ tt[s].members = after[s].members /\ tt[s].joining = after[s].joining
             /\ tt[s].announced = after[s].announced
             /\ tt[s].state = IF s \in Up THEN "Pull" ELSE IF s \in Run THEN "Compute"
                              ELSE after[s].state
  <2>1. PICK a \in Cell : a = after[s]
    BY <1>1
  <2>2. \A u \in States :
           /\ [a EXCEPT !.state = u] \in Cell /\ [a EXCEPT !.state = u].state = u
           /\ [a EXCEPT !.state = u].layer = a.layer
           /\ [a EXCEPT !.state = u].notified = a.notified
           /\ [a EXCEPT !.state = u].members = a.members
           /\ [a EXCEPT !.state = u].joining = a.joining
           /\ [a EXCEPT !.state = u].announced = a.announced
    BY DEF Cell
  <2>3. "Pull" \in States /\ "Compute" \in States
    BY DEF States, Timed
  <2>4. tt[s] = IF s \in Up THEN [a EXCEPT !.state = "Pull"]
                ELSE IF s \in Run THEN [a EXCEPT !.state = "Compute"] ELSE a
    BY <1>3, <2>1
  <2>. QED  BY <2>1, <2>2, <2>3, <2>4
<1>5. ASSUME NEW s \in Slots PROVE DrivenCell(ss[s], tt[s], ended)
  <2>1. (tt[s].state = "AwaitFlush") <=> (after[s].state = "AwaitFlush")
    BY <1>2, <1>4
  <2>2. after[s].state = "Wait" => tt[s].state = "Wait"
    BY <1>2, <1>4
  <2>. QED  BY <1>1, <1>4, <2>1, <2>2, ZenonT(30) DEF DrivenCell
<1>6. OneOf(tt)
  <2>1. SUFFICES ASSUME NEW s \in Slots, NEW t \in Slots,
                        tt[s].state = "Compute", tt[t].state = "Compute"
                 PROVE  s = t
    BY DEF OneOf
  <2>2. /\ s \in Run \/ after[s].state = "Compute"
        /\ t \in Run \/ after[t].state = "Compute"
    BY <1>4, <2>1
  <2>3. CASE after[s].state = "Compute" /\ after[t].state = "Compute"
    BY <1>1, <2>3 DEF OneOf
  <2>4. CASE s \in Run /\ t \in Run
    <3>1. s <= t /\ t <= s
      BY <1>2, <2>4
    <3>. QED  BY <3>1, Universe
  <2>. QED  BY <1>2, <2>2, <2>3, <2>4
<1>7. tt \in [Slots -> Cell]
  BY <1>3, <1>4
<1>. QED  BY <1>5, <1>6, <1>7

\* What a report says.
Reported(e, w, ss, ended) ==
    /\ e.worker = w /\ e.slot \in Slots
    /\ \/ /\ AtBoundary(ss[e.slot]) /\ e.layer = Start
          /\ e.reqs = ss[e.slot].members \cup ss[e.slot].joining
       \/ /\ Ends(ss[e.slot], ended) /\ e.layer = ss[e.slot].layer
          /\ e.reqs = ss[e.slot].members

ReportsAll(R, w, ss, ended) ==
    /\ R \in Seq(Reports)
    /\ \A i \in 1 .. Len(R) : Reported(R[i], w, ss, ended)
    /\ \A i, j \in 1 .. Len(R) : R[i].slot = R[j].slot => i = j
    /\ \A s \in Slots : (AtBoundary(ss[s]) \/ Ends(ss[s], ended)) =>
          \E i \in 1 .. Len(R) : R[i].slot = s

\* A pass reports every slot it opened or whose layer it completed, once.
LEMMA ReportsOfIs ==
    ASSUME NEW w \in Attn, NEW ss \in [Slots -> Cell], NEW ended
    PROVE  ReportsAll(ReportsOf(w, ss, ended), w, ss, ended)
<1> DEFINE A == { s \in Slots : AtBoundary(ss[s]) }
           B == { s \in Slots : ss[s].state = "Compute" /\ "Compute" \in ended }
           opening == Ascending(A)
           ending == Ascending(B)
           m == Cardinality(A)
           n == Cardinality(B)
           P == [i \in 1 .. Len(opening) |->
                   [worker |-> w, slot |-> opening[i], layer |-> Start,
                    reqs |-> Opened(ss[opening[i]]).members]]
           Q == [i \in 1 .. Len(ending) |->
                   [worker |-> w, slot |-> ending[i], layer |-> ss[ending[i]].layer,
                    reqs |-> ss[ending[i]].members]]
<1>0. \A S \in SUBSET Slots :
         /\ Cardinality(S) \in Nat /\ Ascending(S) \in [1 .. Cardinality(S) -> S]
         /\ \A i, j \in 1 .. Cardinality(S) : Ascending(S)[i] = Ascending(S)[j] => i = j
         /\ \A x \in S : \E i \in 1 .. Cardinality(S) : Ascending(S)[i] = x
  BY AscendingIs
<1>1. /\ m \in Nat /\ opening \in [1 .. m -> A]
      /\ \A i, j \in 1 .. m : opening[i] = opening[j] => i = j
      /\ \A x \in A : \E i \in 1 .. m : opening[i] = x
  <2>1. A \in SUBSET Slots
    OBVIOUS
  <2> HIDE DEF A
  <2>. QED  BY <1>0, <2>1
<1>2. /\ n \in Nat /\ ending \in [1 .. n -> B]
      /\ \A i, j \in 1 .. n : ending[i] = ending[j] => i = j
      /\ \A x \in B : \E i \in 1 .. n : ending[i] = x
  <2>1. B \in SUBSET Slots
    OBVIOUS
  <2> HIDE DEF B
  <2>. QED  BY <1>0, <2>1
<1>3. ReportsOf(w, ss, ended) = P \o Q
  BY DEF ReportsOf
<1>4. A \subseteq Slots /\ B \subseteq Slots /\ A \cap B = {}
      /\ (\A s \in Slots : s \in A <=> AtBoundary(ss[s]))
      /\ (\A s \in Slots : s \in B <=> Ends(ss[s], ended))
  BY DEF AtBoundary, Ends
<1>5. \A s \in A : Opened(ss[s]).members = ss[s].members \cup ss[s].joining
  <2>1. ASSUME NEW s \in A PROVE Opened(ss[s]).members = ss[s].members \cup ss[s].joining
    <3>1. AtBoundary(ss[s]) /\ ss[s] \in Cell
      OBVIOUS
    <3>. QED  BY <3>1 DEF Opened, Cell
  <2>. QED  BY <2>1
<1> HIDE DEF A, B, opening, ending, m, n
<1>6. Len(opening) = m /\ Len(ending) = n
  BY <1>1, <1>2
<1>7. /\ DOMAIN P = 1 .. m
      /\ \A i \in 1 .. m : /\ P[i].worker = w /\ P[i].slot = opening[i] /\ P[i].layer = Start
                           /\ P[i].reqs = ss[opening[i]].members \cup ss[opening[i]].joining
                           /\ P[i] \in Reports
  <2>1. ASSUME NEW i \in 1 .. m
        PROVE  /\ P[i].worker = w /\ P[i].slot = opening[i] /\ P[i].layer = Start
               /\ P[i].reqs = ss[opening[i]].members \cup ss[opening[i]].joining
               /\ P[i] \in Reports
    <3>1. P[i] = [worker |-> w, slot |-> opening[i], layer |-> Start,
                  reqs |-> Opened(ss[opening[i]]).members]
      BY <1>6
    <3>2. opening[i] \in A /\ opening[i] \in Slots /\ ss[opening[i]] \in Cell
      BY <1>1, <1>4
    <3>3. Opened(ss[opening[i]]).members = ss[opening[i]].members \cup ss[opening[i]].joining
      BY <1>5, <3>2
    <3>4. ss[opening[i]].members \cup ss[opening[i]].joining \in SUBSET Requests
      BY <3>2 DEF Cell
    <3>5. Start \in Start .. Last
      BY Universe
    <3> HIDE DEF P
    <3>. QED  BY <3>1, <3>2, <3>3, <3>4, <3>5 DEF Reports
  <2>. QED  BY <1>6, <2>1
<1>8. /\ DOMAIN Q = 1 .. n
      /\ \A i \in 1 .. n : /\ Q[i].worker = w /\ Q[i].slot = ending[i]
                           /\ Q[i].layer = ss[ending[i]].layer
                           /\ Q[i].reqs = ss[ending[i]].members
                           /\ Q[i] \in Reports
  <2>1. ASSUME NEW i \in 1 .. n
        PROVE  /\ Q[i].worker = w /\ Q[i].slot = ending[i]
               /\ Q[i].layer = ss[ending[i]].layer
               /\ Q[i].reqs = ss[ending[i]].members
               /\ Q[i] \in Reports
    <3>1. Q[i] = [worker |-> w, slot |-> ending[i], layer |-> ss[ending[i]].layer,
                  reqs |-> ss[ending[i]].members]
      BY <1>6
    <3>2. ending[i] \in Slots /\ ss[ending[i]] \in Cell
      BY <1>2, <1>4
    <3>3. ss[ending[i]].members \in SUBSET Requests /\ ss[ending[i]].layer \in Start .. Last
      BY <3>2, Universe DEF Cell
    <3> HIDE DEF Q
    <3>. QED  BY <3>1, <3>2, <3>3 DEF Reports
  <2>. QED  BY <1>6, <2>1
<1>9. P \in Seq(Reports) /\ Len(P) = m /\ Q \in Seq(Reports) /\ Len(Q) = n
  <2>1. P = [i \in 1 .. m |-> P[i]] /\ Q = [i \in 1 .. n |-> Q[i]]
    BY <1>6
  <2> HIDE DEF P, Q
  <2>2. P \in Seq(Reports) /\ Len(P) = m
    BY <1>1, <1>7, <2>1, SMTT(30)
  <2>3. Q \in Seq(Reports) /\ Len(Q) = n
    BY <1>2, <1>8, <2>1
  <2>. QED  BY <2>2, <2>3
<1> HIDE DEF P, Q
<1>10. PICK R : R = P \o Q
  OBVIOUS
<1>11. /\ R \in Seq(Reports) /\ Len(R) = m + n
       /\ \A i \in 1 .. m : R[i] = P[i]
       /\ \A i \in 1 .. n : R[m + i] = Q[i]
  <2>1. \A p, q \in Seq(Reports) :
           /\ p \o q \in Seq(Reports) /\ Len(p \o q) = Len(p) + Len(q)
           /\ \A i \in 1 .. Len(p) : (p \o q)[i] = p[i]
           /\ \A i \in 1 .. Len(q) : (p \o q)[Len(p) + i] = q[i]
    <3>1. SUFFICES ASSUME NEW p \in Seq(Reports), NEW q \in Seq(Reports)
                   PROVE  /\ p \o q \in Seq(Reports) /\ Len(p \o q) = Len(p) + Len(q)
                          /\ \A i \in 1 .. Len(p) : (p \o q)[i] = p[i]
                          /\ \A i \in 1 .. Len(q) : (p \o q)[Len(p) + i] = q[i]
      OBVIOUS
    <3>2. p \o q \in Seq(Reports) /\ Len(p \o q) = Len(p) + Len(q)
      OBVIOUS
    <3>3. \A i \in 1 .. Len(p) : (p \o q)[i] = p[i]
      OBVIOUS
    <3>4. ASSUME NEW i \in 1 .. Len(q) PROVE (p \o q)[Len(p) + i] = q[i]
      OBVIOUS
    <3>. QED  BY <3>2, <3>3, <3>4
  <2>2. /\ R \in Seq(Reports) /\ Len(R) = Len(P) + Len(Q)
        /\ \A i \in 1 .. Len(P) : R[i] = P[i]
        /\ \A i \in 1 .. Len(Q) : R[Len(P) + i] = Q[i]
    BY <1>9, <1>10, <2>1, Zenon
  <2>. QED  BY <1>9, <2>2, Zenon
<1>12. \A k \in 1 .. m + n : k \in 1 .. m \/ \E i \in 1 .. n : k = m + i
  <2>1. SUFFICES ASSUME NEW k \in 1 .. m + n, k \notin 1 .. m PROVE \E i \in 1 .. n : k = m + i
    OBVIOUS
  <2>2. k - m \in 1 .. n /\ k = m + (k - m)
    BY <1>1, <1>2, <2>1
  <2>. QED  BY <2>2
<1>13. ASSUME NEW k \in 1 .. Len(R)
       PROVE  \/ \E i \in 1 .. m : k = i /\ R[k] = P[i]
              \/ \E i \in 1 .. n : k = m + i /\ R[k] = Q[i]
  BY <1>11, <1>12
<1>14. \A k \in 1 .. Len(R) : Reported(R[k], w, ss, ended)
  <2>1. ASSUME NEW k \in 1 .. Len(R) PROVE Reported(R[k], w, ss, ended)
    <3>1. CASE \E i \in 1 .. m : k = i /\ R[k] = P[i]
      BY <1>1, <1>4, <1>7, <3>1 DEF Reported
    <3>2. CASE \E i \in 1 .. n : k = m + i /\ R[k] = Q[i]
      BY <1>2, <1>4, <1>8, <3>2 DEF Reported
    <3>. QED  BY <1>13, <3>1, <3>2
  <2>. QED  BY <2>1
<1>15. \A k, l \in 1 .. Len(R) : R[k].slot = R[l].slot => k = l
  <2>1. SUFFICES ASSUME NEW k \in 1 .. Len(R), NEW l \in 1 .. Len(R), R[k].slot = R[l].slot
                 PROVE  k = l
    OBVIOUS
  <2>2. \A i \in 1 .. m : P[i].slot \in A
    BY <1>1, <1>7
  <2>3. \A i \in 1 .. n : Q[i].slot \in B
    BY <1>2, <1>8
  <2>4. CASE (\E i \in 1 .. m : k = i /\ R[k] = P[i]) /\ (\E i \in 1 .. m : l = i /\ R[l] = P[i])
    BY <1>1, <1>7, <2>1, <2>4
  <2>5. CASE (\E i \in 1 .. n : k = m + i /\ R[k] = Q[i]) /\ (\E i \in 1 .. n : l = m + i /\ R[l] = Q[i])
    BY <1>2, <1>8, <2>1, <2>5
  <2>6. CASE (\E i \in 1 .. m : k = i /\ R[k] = P[i]) /\ (\E i \in 1 .. n : l = m + i /\ R[l] = Q[i])
    BY <1>4, <2>1, <2>2, <2>3, <2>6
  <2>7. CASE (\E i \in 1 .. n : k = m + i /\ R[k] = Q[i]) /\ (\E i \in 1 .. m : l = i /\ R[l] = P[i])
    BY <1>4, <2>1, <2>2, <2>3, <2>7
  <2>. QED  BY <1>13, <2>4, <2>5, <2>6, <2>7
<1>16. ASSUME NEW s \in Slots, AtBoundary(ss[s]) \/ Ends(ss[s], ended)
       PROVE  \E i \in 1 .. Len(R) : R[i].slot = s
  <2>1. CASE AtBoundary(ss[s])
    <3>1. PICK i \in 1 .. m : opening[i] = s
      BY <1>1, <1>4, <2>1
    <3>2. i \in 1 .. Len(R) /\ R[i].slot = s
      BY <1>1, <1>2, <1>7, <1>11, <3>1
    <3>. QED  BY <3>2
  <2>2. CASE Ends(ss[s], ended)
    <3>1. PICK i \in 1 .. n : ending[i] = s
      BY <1>2, <1>4, <2>2
    <3>2. m + i \in 1 .. Len(R)
      BY <1>1, <1>2, <1>11, <3>1
    <3>3. R[m + i].slot = s
      BY <1>8, <1>11, <3>1
    <3>. QED  BY <3>2, <3>3
  <2>. QED  BY <1>16, <2>1, <2>2
<1>. QED  BY <1>3, <1>10, <1>11, <1>14, <1>15, <1>16 DEF ReportsAll

\* What the end of the last layer leaves of a batch with the tokens E.
Layered(st, new, members, E) ==
    /\ new \in Kv!Store /\ new.placement = st.placement
    /\ \A r \in Requests \ members :
          /\ new.promised[r] = st.promised[r] /\ new.context[r] = st.context[r]
          /\ new.remaining[r] = st.remaining[r]
          /\ r \in new.decodes[0] <=> r \in st.decodes[0]
    /\ \A r \in members : /\ MemberAgrees(new, r, E[r], TRUE, FALSE)
                          /\ st.placement[r] = 0

\* What is known of the batch before it.
BatchKnown(st, members, E) ==
    /\ st \in Kv!Store /\ members \subseteq Requests /\ E \in [Requests -> Nat]
    /\ \A r \in members : MemberAgrees(st, r, E[r], FALSE, FALSE) /\ st.placement[r] = 0

\* complete_layer: the requests that were prefilled are decodes, the others have
\* grown by a token.
LEMMA AfterLayerIs ==
    ASSUME NEW st, NEW cell, BatchKnown(st, cell.members, emitted)
    PROVE  Layered(st, AfterLayer(st, cell), cell.members, emitted)
<1> DEFINE S == { r \in cell.members : st.promised[r] > 0 }
           tokens == [r \in Requests |-> ContextOf(r)]
           left == [r \in Requests |-> Target[r] - emitted[r]]
           live == cell.members \ S
<1>1. PICK m : m = cell.members
  OBVIOUS
<1>2. /\ st \in KF!Store /\ m \in SUBSET Requests /\ emitted \in [Requests -> Nat]
      /\ \A r \in m : MemberAgrees(st, r, emitted[r], FALSE, FALSE) /\ st.placement[r] = 0
  BY <1>1, StoreParts DEF BatchKnown
<1>3. AfterLayer(st, cell) = KF!Advanced(KF!Committed(st, S, tokens, left), live)
  BY StoreOps DEF AfterLayer
<1>4. /\ st.promised \in [Requests -> Nat] /\ st.context \in [Requests -> Nat]
      /\ st.remaining \in [Requests -> Nat] /\ st.decodes \in [{0} -> SUBSET Requests]
  BY <1>2, StoreParts DEF KF!Store
<1>5. ASSUME NEW r \in m
      PROVE  /\ r \in S <=> r \notin st.decodes[0]
             /\ r \in S => emitted[r] = 0
             /\ r \in live <=> r \in st.decodes[0]
             /\ r \in live => /\ st.promised[r] = 0
                              /\ st.context[r] + st.remaining[r] = ContextOf(r) + Target[r]
                              /\ st.remaining[r] = Target[r] - emitted[r] + 1
                              /\ emitted[r] < Target[r]
  <2>1. /\ FootprintOf(r) > 0
        /\ MemberAgrees(st, r, emitted[r], FALSE, FALSE)
    BY <1>2, FootprintIs
  <2>2. CASE r \in st.decodes[0]
    BY <1>1, <2>1, <2>2 DEF MemberAgrees
  <2>3. CASE r \notin st.decodes[0]
    BY <1>1, <2>1, <2>3 DEF MemberAgrees
  <2>. QED  BY <2>2, <2>3
<1>6. /\ S \in SUBSET Requests /\ live \in SUBSET Requests /\ live \cap S = {}
      /\ S \cup live = m
  BY <1>1, <1>2
<1>7. tokens \in [Requests -> Nat] /\ \A r \in Requests : tokens[r] = ContextOf(r)
  BY FootprintIs
<1>8. left \in [Requests -> Int] /\ \A r \in Requests : left[r] = Target[r] - emitted[r]
  <2>1. \A r \in Requests : Target[r] - emitted[r] \in Int
    BY <1>2, FootprintIs
  <2>. QED  BY <2>1
<1> HIDE DEF S, live, tokens, left
<1>9. \A r \in S : left[r] \in Nat /\ left[r] = Target[r]
  <2>1. ASSUME NEW r \in S PROVE left[r] \in Nat /\ left[r] = Target[r]
    <3>1. r \in m /\ r \in Requests
      BY <1>2, <1>6
    <3>. QED  BY <1>5, <1>8, <3>1, FootprintIs
  <2>. QED  BY <2>1
<1>10. \A r \in live : st.remaining[r] > 0
  <2>1. ASSUME NEW r \in live PROVE st.remaining[r] > 0
    <3>1. r \in m /\ r \in Requests
      BY <1>2, <1>6
    <3>. QED  BY <1>2, <1>5, <3>1, FootprintIs
  <2>. QED  BY <2>1
<1>11. PICK new : new = AfterLayer(st, cell)
  OBVIOUS
<1>12. KF!LayerLeaves(st, S, tokens, left, live, new)
  <2>1. /\ \A r \in S : left[r] \in Nat
        /\ live \cap S = {} /\ \A r \in live : st.remaining[r] > 0
    BY <1>6, <1>9, <1>10
  <2>. QED  BY <1>2, <1>3, <1>6, <1>7, <1>8, <1>11, <2>1, StoreAssumptions, KF!LayerLeavesIt
<1>13. /\ new \in Kv!Store /\ new.placement = st.placement
       /\ new.promised = [r \in Requests |-> IF r \in S THEN 0 ELSE st.promised[r]]
       /\ new.decodes[0] = st.decodes[0] \cup (S \cap { r \in Requests : st.placement[r] = 0 })
       /\ \A r \in Requests :
             /\ r \in S => new.context[r] = ContextOf(r) /\ new.remaining[r] = Target[r]
             /\ r \in live => /\ new.context[r] = st.context[r] + 1
                              /\ new.remaining[r] = st.remaining[r] - 1
             /\ r \notin m => /\ new.context[r] = st.context[r]
                              /\ new.remaining[r] = st.remaining[r]
  <2>1. \A r \in Requests :
             /\ r \in S => new.context[r] = ContextOf(r) /\ new.remaining[r] = Target[r]
             /\ r \in live => /\ new.context[r] = st.context[r] + 1
                              /\ new.remaining[r] = st.remaining[r] - 1
             /\ r \notin m => /\ new.context[r] = st.context[r]
                              /\ new.remaining[r] = st.remaining[r]
    BY <1>6, <1>7, <1>9, <1>12 DEF KF!LayerLeaves
  <2>2. KF!PlacedOn(st, 0) = { r \in Requests : st.placement[r] = 0 }
    BY DEF KF!PlacedOn
  <2>. QED  BY <1>12, <2>1, <2>2, StoreParts DEF KF!LayerLeaves
<1>14. ASSUME NEW r \in Requests \ m
       PROVE  /\ new.promised[r] = st.promised[r] /\ new.context[r] = st.context[r]
              /\ new.remaining[r] = st.remaining[r]
              /\ r \in new.decodes[0] <=> r \in st.decodes[0]
  BY <1>6, <1>13
<1>15. ASSUME NEW r \in m PROVE MemberAgrees(new, r, emitted[r], TRUE, FALSE)
  <2>0. /\ r \in Requests /\ r \in new.decodes[0] /\ emitted[r] \in Nat
        /\ Target[r] \in Nat /\ Target[r] > 0 /\ ContextOf(r) \in Nat
        /\ st.context[r] \in Nat /\ st.remaining[r] \in Nat
    BY <1>2, <1>4, <1>5, <1>13, FootprintIs
  <2>1. CASE r \in S
    <3>1. new.promised[r] = 0 /\ new.context[r] = ContextOf(r) /\ new.remaining[r] = Target[r]
          /\ emitted[r] = 0
      BY <1>5, <1>13, <2>0, <2>1
    <3>. QED  BY <2>0, <3>1 DEF MemberAgrees
  <2>2. CASE r \in live
    <3>1. new.promised[r] = 0 /\ new.context[r] = st.context[r] + 1
          /\ new.remaining[r] = st.remaining[r] - 1
      BY <1>5, <1>6, <1>13, <2>0, <2>2
    <3>. QED  BY <1>5, <2>0, <2>2, <3>1 DEF MemberAgrees
  <2>. QED  BY <1>6, <2>1, <2>2
<1>. QED  BY <1>1, <1>2, <1>11, <1>13, <1>14, <1>15 DEF Layered

\* The reports R follow the reports E.
Joined(E, R, D) ==
    /\ D \in Seq(Reports) /\ Len(D) \in Nat
    /\ \A k \in 1 .. Len(D) : \/ \E i \in 1 .. Len(E) : k = i /\ D[k] = E[i]
                              \/ \E i \in 1 .. Len(R) : k = Len(E) + i /\ D[k] = R[i]
    /\ \A i \in 1 .. Len(E) : i \in 1 .. Len(D) /\ D[i] = E[i]
    /\ \A i \in 1 .. Len(R) : Len(E) + i \in 1 .. Len(D) /\ D[Len(E) + i] = R[i]

\* One sequence after the other is what Joined says.
LEMMA JoinedIs ==
    \A E \in Seq(Reports), R \in Seq(Reports) : Joined(E, R, E \o R)
<1>1. SUFFICES ASSUME NEW E \in Seq(Reports), NEW R \in Seq(Reports) PROVE Joined(E, R, E \o R)
  OBVIOUS
<1>2. Len(E) \in Nat /\ Len(R) \in Nat
  OBVIOUS
<1>3. E \o R \in Seq(Reports) /\ Len(E \o R) = Len(E) + Len(R)
  OBVIOUS
<1>4. \A i \in 1 .. Len(E) : (E \o R)[i] = E[i]
  OBVIOUS
<1>5. ASSUME NEW i \in 1 .. Len(R) PROVE (E \o R)[Len(E) + i] = R[i]
  OBVIOUS
<1> DEFINE m == Len(E)
           n == Len(R)
           D == E \o R
<1>6. m \in Nat /\ n \in Nat /\ Len(D) = m + n
  BY <1>2, <1>3
<1>7. D \in Seq(Reports) /\ (\A i \in 1 .. m : D[i] = E[i]) /\ (\A i \in 1 .. n : D[m + i] = R[i])
  BY <1>3, <1>4, <1>5
<1> HIDE DEF m, n, D
<1>8. \A k \in 1 .. m + n : k \in 1 .. m \/ \E i \in 1 .. n : k = m + i
  <2>1. SUFFICES ASSUME NEW k \in 1 .. m + n, k \notin 1 .. m PROVE \E i \in 1 .. n : k = m + i
    OBVIOUS
  <2>2. k - m \in 1 .. n /\ k = m + (k - m)
    BY <1>6, <2>1
  <2>. QED  BY <2>2
<1>9. /\ \A i \in 1 .. m : i \in 1 .. m + n
      /\ \A i \in 1 .. n : m + i \in 1 .. m + n
  BY <1>6
<1>10. ASSUME NEW k \in 1 .. Len(D)
       PROVE  \/ \E i \in 1 .. m : k = i /\ D[k] = E[i]
              \/ \E i \in 1 .. n : k = m + i /\ D[k] = R[i]
  <2>1. k \in 1 .. m + n
    BY <1>6
  <2>2. CASE k \in 1 .. m
    BY <1>7, <2>2
  <2>3. CASE \E i \in 1 .. n : k = m + i
    BY <1>7, <2>3
  <2>. QED  BY <1>8, <2>1, <2>2, <2>3
<1>11. \A i \in 1 .. m : i \in 1 .. Len(D) /\ D[i] = E[i]
  BY <1>6, <1>7, <1>9
<1>12. \A i \in 1 .. n : m + i \in 1 .. Len(D) /\ D[m + i] = R[i]
  BY <1>6, <1>7, <1>9
<1>13. D \in Seq(Reports) /\ Len(D) \in Nat
  BY <1>6, <1>7
<1>. QED  BY <1>10, <1>11, <1>12, <1>13, Zenon DEF Joined, D, m, n

\* A worker's pass over its slots, and what it reports.
Drove(w, tt, ended, R, D) ==
    /\ tick.stage = "attn" /\ tick'.stage = "attn" /\ tick'.due = tick.due /\ tick'.driving = TRUE
    /\ tick'.events = D /\ tick.events \in Seq(Reports) /\ Joined(tick.events, R, D)
    /\ slots \in [Attn -> [Slots -> Cell]] /\ slots' \in [Attn -> [Slots -> Cell]]
    /\ slots'[w] = tt /\ \A v \in Attn \ {w} : slots'[v] = slots[v]
    /\ OneOf(tt) /\ \A s \in Slots : DrivenCell(slots[w][s], tt[s], ended)
    /\ ReportsAll(R, w, slots[w], ended)
    /\ UNCHANGED << arrived, queue, home, wake, sched, ffn, next, emitted, done >>

\* drive_slots, one pass.
LEMMA DrivePassIs ==
    ASSUME IInv, NEW w \in Attn, DrivePass(w)
    PROVE  \E tt, R, D : Drove(w, tt, timers[w], R, D)
<1>1. /\ tick.stage = "attn" /\ tick.events \in Seq(Reports)
      /\ tick = [stage |-> tick.stage, due |-> tick.due, driving |-> tick.driving, events |-> tick.events]
      /\ slots \in [Attn -> [Slots -> Cell]]
  BY Types DEF IInv, TypeOK, DrivePass, IsDriving, IsTicking
<1>2. PICK ss, ended, tt, R, D :
         /\ ss = slots[w] /\ ended = timers[w] /\ tt = Driven(ss, ended)
         /\ R = ReportsOf(w, ss, ended) /\ D = tick.events \o R
  OBVIOUS
<1>3. ss \in [Slots -> Cell] /\ OneOf(ss)
  BY <1>1, <1>2 DEF IInv, OneComputes, OneOf
<1>4. /\ tt \in [Slots -> Cell] /\ OneOf(tt)
      /\ \A s \in Slots : DrivenCell(ss[s], tt[s], ended)
  BY <1>2, <1>3, DrivenIs
<1>5. ReportsAll(R, w, ss, ended)
  BY <1>2, <1>3, ReportsOfIs
<1>6. Joined(tick.events, R, D)
  <2>1. R \in Seq(Reports)
    BY <1>5 DEF ReportsAll
  <2>. QED  BY <1>1, <1>2, <2>1, JoinedIs
<1>7. slots' = [slots EXCEPT ![w] = tt]
  BY <1>1, <1>2 DEF DrivePass
<1>8. slots' \in [Attn -> [Slots -> Cell]] /\ slots'[w] = tt /\ \A v \in Attn \ {w} : slots'[v] = slots[v]
  BY <1>1, <1>4, <1>7
<1>9. tick' = [tick EXCEPT !.driving = TRUE, !.events = D]
  BY <1>1, <1>2 DEF DrivePass
<1>10. tick'.stage = "attn" /\ tick'.due = tick.due /\ tick'.driving = TRUE /\ tick'.events = D
  BY <1>1, <1>9
<1>11. UNCHANGED << arrived, queue, home, wake, sched, ffn, next, emitted, done >>
  BY DEF DrivePass
<1>12. Drove(w, tt, ended, R, D)
  BY <1>1, <1>2, <1>4, <1>5, <1>6, <1>8, <1>10, <1>11 DEF Drove
<1>. QED  BY <1>2, <1>12

\* The pass reports the slot.
Told(cell, ended) == AtBoundary(cell) \/ Ends(cell, ended)

\* What the pass does not report is the same to the others.
LEMMA UntoldCell ==
    ASSUME NEW c, NEW d, NEW ended, DrivenCell(c, d, ended), ~Told(c, ended)
    PROVE  SameCell(c, d) /\ d.joining = c.joining
BY DEF DrivenCell, Told, SameCell

\* The reports of a slot that are not aggregated yet.
LEMMA DroveUnheard ==
    ASSUME NEW w \in Attn, NEW tt, NEW ended, NEW R, NEW D, Drove(w, tt, ended, R, D),
           NEW s \in Slots
    PROVE  /\ Unheard(s)' = IF Told(slots[w][s], ended) THEN Unheard(s) \cup {w} ELSE Unheard(s)
           /\ ~Delivered(s) /\ ~Delivered(s)' /\ Unheard(s) \subseteq Attn
<1> DEFINE E == tick.events
           U == { E[i].worker : i \in { j \in 1 .. Len(E) : E[j].slot = s } }
           V == { D[i].worker : i \in { j \in 1 .. Len(D) : D[j].slot = s } }
<1>1. Unheard(s) = U /\ Unheard(s)' = V
  BY DEF Drove, Unheard
<1>2. Joined(E, R, D) /\ ReportsAll(R, w, slots[w], ended)
  BY DEF Drove
<1>3. \A i \in 1 .. Len(E) : E[i].worker \in Attn
  <2>1. \A i \in 1 .. Len(E) : E[i] \in Reports
    BY DEF Drove
  <2>. QED  BY <2>1 DEF Reports
<1> HIDE DEF E
<1>4. ASSUME NEW i \in 1 .. Len(R)
      PROVE  R[i].worker = w /\ Told(slots[w][R[i].slot], ended)
  BY <1>2 DEF ReportsAll, Reported, Told
<1>5. ASSUME NEW v \in V PROVE v \in U \/ (v = w /\ Told(slots[w][s], ended))
  <2>1. PICK k \in 1 .. Len(D) : D[k].slot = s /\ D[k].worker = v
    OBVIOUS
  <2>2. CASE \E i \in 1 .. Len(E) : k = i /\ D[k] = E[i]
    BY <2>1, <2>2
  <2>3. CASE \E i \in 1 .. Len(R) : k = Len(E) + i /\ D[k] = R[i]
    BY <1>4, <2>1, <2>3
  <2>. QED  BY <1>2, <2>2, <2>3 DEF Joined
<1>6. ASSUME NEW v \in U PROVE v \in V
  <2>1. PICK i \in 1 .. Len(E) : E[i].slot = s /\ E[i].worker = v
    OBVIOUS
  <2>2. i \in 1 .. Len(D) /\ D[i] = E[i]
    BY <1>2 DEF Joined
  <2>. QED  BY <2>1, <2>2
<1>7. ASSUME Told(slots[w][s], ended) PROVE w \in V
  <2>1. PICK i \in 1 .. Len(R) : R[i].slot = s
    BY <1>2, <1>7 DEF ReportsAll, Told
  <2>2. PICK k : k = Len(E) + i
    OBVIOUS
  <2>3. k \in 1 .. Len(D) /\ D[k] = R[i]
    BY <1>2, <2>2 DEF Joined
  <2>. QED  BY <1>4, <2>1, <2>3
<1>8. U \subseteq Attn
  BY <1>3
<1> HIDE DEF U, V
<1>9. V = IF Told(slots[w][s], ended) THEN U \cup {w} ELSE U
  BY <1>5, <1>6, <1>7
<1>10. ~Delivered(s) /\ ~Delivered(s)'
  BY DEF Drove, Delivered
<1>. QED  BY <1>1, <1>8, <1>9, <1>10

\* The tasks stay where they are.
LEMMA SameFlight ==
    ASSUME IInv, UNCHANGED ffn, tick.stage = "attn", tick'.stage = "attn", NEW s \in Slots
    PROVE  InFlightTasks(s)' = InFlightTasks(s) /\ Moved(InFlightTasks(s), InFlightTasks(s)')
<1>1. InFlightTasks(s)' = InFlightTasks(s)
  BY DEF InFlightTasks, CarriedBy, Carries, Carried
<1>2. Carrying(ffn, NowDelivered(tick))
  BY Types DEF IInv
<1>3. Moved(Flight(ffn, NowDelivered(tick), s), Flight(ffn, NowDelivered(tick), s))
  BY <1>2, StayedFlight
<1>4. Moved(InFlightTasks(s), InFlightTasks(s))
  BY <1>3, InFlightIs
<1>. QED  BY <1>1, <1>4

\* A reported slot is not being served.
LEMMA DroveSlot ==
    ASSUME IInv, NEW w \in Attn, NEW tt, NEW ended, NEW R, NEW D, Drove(w, tt, ended, R, D),
           NEW s \in Slots
    PROVE  /\ LockstepOf(View(s), done)' /\ SameBarrier(View(s), View(s)')
           /\ Told(slots[w][s], ended) =>
                 sched[s].inFlight = (slots[w][s].state = "Compute")
<1>1. /\ Unheard(s)' = IF Told(slots[w][s], ended) THEN Unheard(s) \cup {w} ELSE Unheard(s)
      /\ Unheard(s) \subseteq Attn
  BY DroveUnheard
<1>2. /\ UNCHANGED << ffn, sched, done >> /\ tick.stage = "attn" /\ tick'.stage = "attn"
      /\ DrivenCell(slots[w][s], slots'[w][s], ended)
      /\ \A v \in Attn \ {w} : slots'[v][s] = slots[v][s]
  BY DEF Drove
<1>3. InFlightTasks(s)' = InFlightTasks(s) /\ Moved(InFlightTasks(s), InFlightTasks(s)')
  BY <1>2, SameFlight
<1>4. CASE ~Told(slots[w][s], ended)
  <2>1. \A v \in Attn : SameCell(slots[v][s], slots'[v][s])
    <3>1. SameCell(slots[w][s], slots'[w][s])
      BY <1>2, <1>4, UntoldCell
    <3>2. \A v \in Attn \ {w} : SameCell(slots[v][s], slots'[v][s])
      BY <1>2 DEF SameCell
    <3>. QED  BY <3>1, <3>2
  <2>2. \A v \in Attn : slots[v][s].members \cap done' = {}
    BY <1>2, MembersNotDone DEF IInv
  <2>3. sched'[s] = sched[s] /\ Unheard(s)' = Unheard(s) /\ done \subseteq done'
    BY <1>1, <1>2, <1>4
  <2>4. LockstepOf(View(s), done)' /\ SameBarrier(View(s), View(s)')
    BY <1>3, <2>1, <2>2, <2>3, SlotKept
  <2>. QED  BY <1>4, <2>4
<1>5. CASE Told(slots[w][s], ended)
  <2> DEFINE x == View(s)
             y == View(s)'
  <2>1. LockstepOf(x, done) /\ IsView(x)
    BY Types DEF IInv, Lockstep
  <2>2. /\ x.sched = sched[s] /\ y.sched = sched'[s] /\ x.unheard = Unheard(s)
        /\ y.unheard = Unheard(s)' /\ x.tasks = InFlightTasks(s) /\ y.tasks = InFlightTasks(s)'
        /\ \A v \in Attn : x.cells[v] = slots[v][s] /\ y.cells[v] = slots'[v][s]
    BY DEF View
  <2> HIDE DEF x, y
  <2>3. y.sched = x.sched /\ y.unheard = x.unheard \cup {w} /\ y.tasks = x.tasks
    BY <1>1, <1>2, <1>3, <1>5, <2>2
  <2>4. \A v \in Attn \ {w} : y.cells[v] = x.cells[v]
    BY <1>2, <2>2
  <2>5. DrivenCell(x.cells[w], y.cells[w], ended) /\ Told(x.cells[w], ended)
    BY <1>2, <1>5, <2>2
  <2>6. /\ y.cells[w].layer = x.cells[w].layer /\ y.cells[w].notified = x.cells[w].notified
        /\ \/ /\ x.cells[w].layer = 0 /\ x.cells[w].state = "Wait"
              /\ ~x.cells[w].announced
              /\ ~x.cells[w].notified => y.cells[w].state = "Wait"
           \/ /\ x.cells[w].state = "Compute" /\ y.cells[w].state = "AwaitFlush"
              /\ y.cells[w].announced = x.cells[w].announced
    BY <2>5 DEF DrivenCell, Told, AtBoundary, Ends
  <2>7. /\ LockstepOf(y, done) /\ SameBarrier(x, y)
        /\ x.sched.inFlight = (x.cells[w].state = "Compute")
    BY <2>1, <2>3, <2>4, <2>6, ReportedSlot
  <2>8. x.sched.inFlight = (slots[w][s].state = "Compute")
    BY <2>2, <2>7
  <2>9. sched[s].inFlight = (slots[w][s].state = "Compute")
    BY <2>2, <2>8
  <2>10. LockstepOf(View(s), done)' /\ SameBarrier(View(s), View(s)')
    BY <1>2, <2>7 DEF x, y
  <2>. QED  BY <2>9, <2>10
<1>. QED  BY <1>4, <1>5

\* What was reported before the pass stays true, and what it reports is.
LEMMA DroveReports ==
    ASSUME IInv, NEW w \in Attn, NEW tt, NEW ended, NEW R, NEW D, Drove(w, tt, ended, R, D)
    PROVE  ReportsTrue' /\ OneComputes' /\ BatchesAgree'
<1>1. /\ tick.stage = "attn" /\ tick'.stage = "attn" /\ tick'.events = D
      /\ UNCHANGED << sched, ffn, done, emitted >>
      /\ slots'[w] = tt /\ \A v \in Attn \ {w} : slots'[v] = slots[v]
      /\ OneOf(tt)
      /\ \A s \in Slots : DrivenCell(slots[w][s], slots'[w][s], ended)
  BY DEF Drove
<1>2. PICK E : E = tick.events
  OBVIOUS
<1>3. Joined(E, R, D) /\ ReportsAll(R, w, slots[w], ended) /\ E \in Seq(Reports)
  BY <1>2 DEF Drove
<1>4. \A i \in 1 .. Len(E) : E[i].worker \in Attn /\ E[i].slot \in Slots
  <2>1. \A i \in 1 .. Len(E) : E[i] \in Reports
    BY <1>3
  <2>. QED  BY <2>1 DEF Reports
<1>5. /\ \A i, j \in 1 .. Len(E) : (E[i].worker = E[j].worker /\ E[i].slot = E[j].slot) => i = j
      /\ \A i \in 1 .. Len(E) :
              LET e    == E[i]
                  cell == slots[e.worker][e.slot]
              IN  /\ e.reqs = cell.members
                  /\ IF sched[e.slot].inFlight
                     THEN e.layer = cell.layer /\ cell.state = "AwaitFlush"
                     ELSE e.layer = Start /\ cell.announced
  BY <1>1, <1>2 DEF IInv, ReportsTrue, ReportTrue
<1>6. \A s \in Slots : Told(slots[w][s], ended) =>
                          sched[s].inFlight = (slots[w][s].state = "Compute")
  BY DroveSlot
<1>7. ASSUME NEW i \in 1 .. Len(E), E[i].worker = w
      PROVE  ~Told(slots[w][E[i].slot], ended)
  <2>1. PICK s \in Slots : s = E[i].slot
    BY <1>4
  <2>2. IF sched[s].inFlight THEN slots[w][s].state = "AwaitFlush" ELSE slots[w][s].announced
    BY <1>5, <1>7, <2>1
  <2>3. ~Told(slots[w][s], ended)
    BY <1>6, <2>2 DEF Told, AtBoundary, Ends
  <2>. QED  BY <2>1, <2>3
<1>8. ASSUME NEW i \in 1 .. Len(R)
      PROVE  /\ R[i].worker = w /\ R[i].slot \in Slots /\ Told(slots[w][R[i].slot], ended)
             /\ Reported(R[i], w, slots[w], ended)
  BY <1>3 DEF ReportsAll, Reported, Told
<1>9. ASSUME NEW i \in 1 .. Len(E)
      PROVE  LET e    == E[i]
                 cell == slots'[e.worker][e.slot]
             IN  /\ e.reqs = cell.members
                 /\ IF sched'[e.slot].inFlight
                    THEN e.layer = cell.layer /\ cell.state = "AwaitFlush"
                    ELSE e.layer = Start /\ cell.announced
  <2>1. PICK e, v, s : e = E[i] /\ v = e.worker /\ s = e.slot
    OBVIOUS
  <2>2. v \in Attn /\ s \in Slots
    BY <1>4, <2>1
  <2>3. PICK c, d : c = slots[v][s] /\ d = slots'[v][s]
    OBVIOUS
  <2>4. SameCell(c, d)
    <3>1. CASE v = w
      <4>1. ~Told(slots[w][s], ended) /\ DrivenCell(slots[w][s], slots'[w][s], ended)
        BY <1>1, <1>7, <2>1, <2>2, <3>1
      <4>2. SameCell(slots[w][s], slots'[w][s])
        BY <4>1, UntoldCell
      <4>. QED  BY <2>3, <3>1, <4>2
    <3>2. CASE v # w
      BY <1>1, <2>2, <2>3, <3>2 DEF SameCell
    <3>. QED  BY <3>1, <3>2
  <2>5. /\ e.reqs = c.members
        /\ IF sched[s].inFlight THEN e.layer = c.layer /\ c.state = "AwaitFlush"
           ELSE e.layer = Start /\ c.announced
    BY <1>5, <2>1, <2>3
  <2>6. /\ e.reqs = d.members
        /\ IF sched'[s].inFlight THEN e.layer = d.layer /\ d.state = "AwaitFlush"
           ELSE e.layer = Start /\ d.announced
    BY <1>1, <2>4, <2>5 DEF SameCell
  <2>. QED  BY <2>1, <2>3, <2>6
<1>10. ASSUME NEW i \in 1 .. Len(R)
       PROVE  LET e    == R[i]
                  cell == slots'[e.worker][e.slot]
              IN  /\ e.reqs = cell.members
                  /\ IF sched'[e.slot].inFlight
                     THEN e.layer = cell.layer /\ cell.state = "AwaitFlush"
                     ELSE e.layer = Start /\ cell.announced
  <2>1. PICK e, s : e = R[i] /\ s = e.slot
    OBVIOUS
  <2>2. PICK c, d : c = slots[w][s] /\ d = slots'[w][s]
    OBVIOUS
  <2>3. /\ e.worker = w /\ s \in Slots /\ DrivenCell(c, d, ended)
        /\ sched'[s].inFlight = (c.state = "Compute")
    BY <1>1, <1>6, <1>8, <2>1, <2>2
  <2>4. \/ AtBoundary(c) /\ e.layer = Start /\ e.reqs = c.members \cup c.joining
        \/ Ends(c, ended) /\ e.layer = c.layer /\ e.reqs = c.members
    BY <1>8, <2>1, <2>2 DEF Reported
  <2>5. /\ e.reqs = d.members
        /\ IF sched'[s].inFlight THEN e.layer = d.layer /\ d.state = "AwaitFlush"
           ELSE e.layer = Start /\ d.announced
    BY <2>3, <2>4 DEF DrivenCell, AtBoundary, Ends
  <2>. QED  BY <2>1, <2>2, <2>3, <2>5
<1>11. ASSUME NEW k \in 1 .. Len(D)
       PROVE  LET e    == D[k]
                  cell == slots'[e.worker][e.slot]
              IN  /\ e.reqs = cell.members
                  /\ IF sched'[e.slot].inFlight
                     THEN e.layer = cell.layer /\ cell.state = "AwaitFlush"
                     ELSE e.layer = Start /\ cell.announced
  <2>1. CASE \E i \in 1 .. Len(E) : k = i /\ D[k] = E[i]
    BY <1>9, <2>1
  <2>2. CASE \E i \in 1 .. Len(R) : k = Len(E) + i /\ D[k] = R[i]
    BY <1>10, <2>2
  <2>. QED  BY <1>3, <2>1, <2>2 DEF Joined
<1>12. ASSUME NEW k \in 1 .. Len(D), NEW l \in 1 .. Len(D),
              D[k].worker = D[l].worker, D[k].slot = D[l].slot
       PROVE  k = l
  <2>0. \A i, j \in 1 .. Len(R) : R[i].slot = R[j].slot => i = j
    BY <1>3 DEF ReportsAll
  <2>1. CASE (\E i \in 1 .. Len(E) : k = i /\ D[k] = E[i]) /\ (\E i \in 1 .. Len(E) : l = i /\ D[l] = E[i])
    BY <1>5, <1>12, <2>1
  <2>2. CASE (\E i \in 1 .. Len(R) : k = Len(E) + i /\ D[k] = R[i])
             /\ (\E i \in 1 .. Len(R) : l = Len(E) + i /\ D[l] = R[i])
    BY <1>12, <2>0, <2>2
  <2>3. CASE (\E i \in 1 .. Len(E) : k = i /\ D[k] = E[i])
             /\ (\E i \in 1 .. Len(R) : l = Len(E) + i /\ D[l] = R[i])
    BY <1>7, <1>8, <1>12, <2>3
  <2>4. CASE (\E i \in 1 .. Len(R) : k = Len(E) + i /\ D[k] = R[i])
             /\ (\E i \in 1 .. Len(E) : l = i /\ D[l] = E[i])
    BY <1>7, <1>8, <1>12, <2>4
  <2>. QED  BY <1>3, <2>1, <2>2, <2>3, <2>4 DEF Joined
<1>13. ReportsTrue'
  <2>1. \A k, l \in 1 .. Len(D) : (D[k].worker = D[l].worker /\ D[k].slot = D[l].slot) => k = l
    BY <1>12
  <2>. QED  BY <1>1, <1>11, <2>1 DEF ReportsTrue, ReportTrue
<1>14. OneComputes'
  <2>1. ASSUME NEW v \in Attn, NEW s \in Slots, NEW t \in Slots,
               slots'[v][s].state = "Compute", slots'[v][t].state = "Compute"
        PROVE  s = t
    <3>1. CASE v = w
      BY <1>1, <2>1, <3>1 DEF OneOf
    <3>2. CASE v # w
      BY <1>1, <2>1, <3>2 DEF IInv, OneComputes
    <3>. QED  BY <3>1, <3>2
  <2>. QED  BY <2>1 DEF OneComputes
<1>15. BatchesAgree'
  <2>1. \A s \in Slots : InFlightTasks(s)' = InFlightTasks(s)
    BY <1>1, SameFlight
  <2>2. Uncompleted'
    BY <1>1, <2>1 DEF IInv, BatchesAgree, Uncompleted
  <2>3. LeavingTrue'
    BY <1>1 DEF LeavingTrue
  <2>. QED  BY <2>2, <2>3 DEF BatchesAgree
<1>. QED  BY <1>13, <1>14, <1>15

\* The stores after the pass: that of the worker counts the last layer.
StoresDrove(w, ended) ==
    \/ /\ kv' = kv
       /\ \A s \in Slots : Ends(slots[w][s], ended) => slots[w][s].layer # Last
    \/ \E z \in Slots :
          /\ Ends(slots[w][z], ended) /\ slots[w][z].layer = Last
          /\ kv' \in [Attn -> Kv!Store] /\ \A v \in Attn \ {w} : kv'[v] = kv[v]
          /\ Layered(kv[w], kv'[w], slots[w][z].members, emitted)

\* The store of the worker after the pass.
LEMMA DriveStores ==
    ASSUME IInv, NEW w \in Attn, DrivePass(w)
    PROVE  StoresDrove(w, timers[w])
<1>1. PICK ss, ended : ss = slots[w] /\ ended = timers[w]
  OBVIOUS
<1> DEFINE final == { s \in Slots : /\ ss[s].state = "Compute" /\ "Compute" \in ended
                                    /\ ss[s].layer = Last }
<1>2. kv' = [kv EXCEPT ![w] = IF final = {} THEN kv[w]
                              ELSE AfterLayer(kv[w], ss[CHOOSE s \in final : TRUE])]
  BY <1>1 DEF DrivePass
<1>3. \A s \in Slots : s \in final <=> Ends(ss[s], ended) /\ ss[s].layer = Last
  BY DEF Ends
<1>4. final \subseteq Slots
  OBVIOUS
<1>5. kv \in [Attn -> Kv!Store] /\ emitted \in [Requests -> Nat] /\ tick.stage = "attn"
      /\ ss \in [Slots -> Cell]
  BY <1>1, Types DEF IInv, TypeOK, DrivePass, IsDriving, IsTicking
<1> HIDE DEF final
<1>6. CASE final = {}
  <2>1. kv' = kv
    BY <1>2, <1>5, <1>6
  <2>2. \A s \in Slots : Ends(ss[s], ended) => ss[s].layer # Last
    BY <1>3, <1>6
  <2>. QED  BY <1>1, <2>1, <2>2 DEF StoresDrove
<1>7. CASE final # {}
  <2>1. PICK z \in final : z = CHOOSE s \in final : TRUE
    BY <1>7
  <2>2. PICK new : new = AfterLayer(kv[w], ss[z])
    OBVIOUS
  <2>3. kv' = [kv EXCEPT ![w] = new]
    BY <1>2, <1>7, <2>1, <2>2
  <2>4. z \in Slots /\ Ends(ss[z], ended) /\ ss[z].layer = Last
    BY <1>3, <1>4
  <2>5. BatchKnown(kv[w], ss[z].members, emitted)
    <3>1. ss[z].members \subseteq Requests /\ kv[w] \in Kv!Store
      BY <1>5, <2>4 DEF Cell
    <3>2. ~LayersDone(ss[z]) /\ ~Delivered(z)
      BY <1>5, <2>4 DEF LayersDone, Ends, Delivered
    <3>3. ASSUME NEW r \in ss[z].members
          PROVE  MemberAgrees(kv[w], r, emitted[r], FALSE, FALSE) /\ kv[w].placement[r] = 0
      <4>1. MemberAgrees(kv[w], r, emitted[r], LayersDone(ss[z]), Delivered(z))
        BY <1>1, <2>4 DEF IInv, TokensAgree
      <4>2. r \in Seated(w, z) /\ r \in Requests
        BY <1>1, <3>1 DEF Seated
      <4>3. kv[w].placement[r] = 0
        BY <2>4, <4>2 DEF IInv, StoresAgree
      <4>. QED  BY <3>2, <4>1, <4>3 DEF MemberAgrees
    <3>. QED  BY <1>5, <3>1, <3>3 DEF BatchKnown
  <2>6. Layered(kv[w], new, ss[z].members, emitted)
    BY <2>2, <2>5, AfterLayerIs
  <2>7. kv' \in [Attn -> Kv!Store] /\ kv'[w] = new /\ \A v \in Attn \ {w} : kv'[v] = kv[v]
    BY <1>5, <2>3, <2>6 DEF Layered
  <2>. QED  BY <1>1, <2>4, <2>6, <2>7 DEF StoresDrove
<1>. QED  BY <1>6, <1>7

\* Nobody changes places, and the requests that wait at the boundary join.
LEMMA DroveRequests ==
    ASSUME IInv, NEW w \in Attn, NEW tt, NEW ended, NEW R, NEW D, Drove(w, tt, ended, R, D),
           StoresDrove(w, ended)
    PROVE  Places' /\ StoresAgree' /\ TokensAgree' /\ kv' \in [Attn -> Kv!Store]
<1>1. /\ slots \in [Attn -> [Slots -> Cell]]
      /\ \A v \in Attn \ {w} : slots'[v] = slots[v]
      /\ \A s \in Slots : DrivenCell(slots[w][s], slots'[w][s], ended)
      /\ UNCHANGED << arrived, queue, home, emitted, done >>
  BY DEF Drove
<1>2. ASSUME NEW v \in Attn, NEW s \in Slots
      PROVE  /\ Seated(v, s)' = Seated(v, s)
             /\ slots'[v][s].members \cap slots'[v][s].joining = {}
             /\ slots'[v][s].members \subseteq slots[v][s].members \cup slots[v][s].joining
             /\ slots'[v][s].joining \subseteq slots[v][s].joining
             /\ slots[v][s].members \cup slots[v][s].joining \subseteq Requests
  <2>0. PICK c \in Cell : c = slots[v][s]
    BY <1>1
  <2>1. PICK d : c = slots[v][s] /\ d = slots'[v][s]
    BY <2>0
  <2>2. c.members \cap c.joining = {}
    BY <2>1 DEF IInv, Places
  <2>3. \/ d = c \/ DrivenCell(c, d, ended)
    BY <1>1, <2>1
  <2>4. /\ d.members \cup d.joining = c.members \cup c.joining
        /\ d.members \cap d.joining = {} /\ d.members \subseteq c.members \cup c.joining
        /\ d.joining \subseteq c.joining
    BY <2>2, <2>3 DEF DrivenCell
  <2>5. c.members \cup c.joining \subseteq Requests
    BY DEF Cell
  <2>. QED  BY <2>1, <2>4, <2>5 DEF Seated
<1>3. \A v \in Attn, s, t \in Slots : s # t => Seated(v, s) \cap Seated(v, t) = {}
  BY DEF IInv, Places
<1>4. kv' \in [Attn -> Kv!Store]
  <2>1. kv \in [Attn -> Kv!Store]
    BY DEF IInv, TypeOK
  <2>. QED  BY <2>1 DEF StoresDrove
<1>5. ASSUME NEW v \in Attn, NEW r \in Requests
      PROVE  /\ kv'[v].placement[r] = kv[v].placement[r]
             /\ r \in kv'[v].decodes[0] => (r \in kv[v].decodes[0] \/ kv[v].placement[r] = 0)
  <2>1. CASE kv' = kv
    BY <2>1
  <2>2. CASE kv' # kv
    <3>1. PICK z \in Slots :
             /\ \A u \in Attn \ {w} : kv'[u] = kv[u]
             /\ Layered(kv[w], kv'[w], slots[w][z].members, emitted)
      BY <2>2 DEF StoresDrove
    <3>2. CASE v = w
      BY <3>1, <3>2 DEF Layered
    <3>3. CASE v # w
      BY <3>1, <3>3
    <3>. QED  BY <3>2, <3>3
  <2>. QED  BY <2>1, <2>2
<1>6. Places' /\ StoresAgree'
  BY <1>1, <1>2, <1>5, SameSeats
<1>7. \A s \in Slots : ~Delivered(s) /\ ~Delivered(s)'
  BY DroveUnheard
\* What the store says of a request is the same, but for the batch of the last layer.
<1>8. ASSUME NEW v \in Attn, NEW r \in Requests,
             v = w => \A z \in Slots : (Ends(slots[w][z], ended) /\ slots[w][z].layer = Last)
                                            => r \notin slots[w][z].members
      PROVE  /\ kv'[v].promised[r] = kv[v].promised[r] /\ kv'[v].context[r] = kv[v].context[r]
             /\ kv'[v].remaining[r] = kv[v].remaining[r]
             /\ r \in kv'[v].decodes[0] <=> r \in kv[v].decodes[0]
  <2>1. CASE kv' = kv
    BY <2>1
  <2>2. CASE kv' # kv
    <3>1. PICK z \in Slots :
             /\ Ends(slots[w][z], ended) /\ slots[w][z].layer = Last
             /\ \A u \in Attn \ {w} : kv'[u] = kv[u]
             /\ Layered(kv[w], kv'[w], slots[w][z].members, emitted)
      BY <2>2 DEF StoresDrove
    <3>2. CASE v = w
      BY <1>8, <3>1, <3>2 DEF Layered
    <3>3. CASE v # w
      BY <3>1, <3>3
    <3>. QED  BY <3>2, <3>3
  <2>. QED  BY <2>1, <2>2
<1>9. ASSUME NEW v \in Attn, NEW s \in Slots, NEW r \in slots'[v][s].joining
      PROVE  JoiningAgrees(kv'[v], r, emitted'[r])
  <2>1. r \in slots[v][s].joining /\ r \in Requests
    BY <1>2
  <2>2. JoiningAgrees(kv[v], r, emitted[r])
    BY <2>1 DEF IInv, TokensAgree
  <2>3. \A z \in Slots : r \notin slots[v][z].members
    <3>1. ASSUME NEW z \in Slots, r \in slots[v][z].members PROVE FALSE
      <4>1. r \in Seated(v, z) /\ r \in Seated(v, s)
        BY <2>1, <3>1 DEF Seated
      <4>2. z = s
        BY <1>3, <4>1
      <4>. QED  BY <2>1, <3>1, <4>2 DEF IInv, Places
    <3>. QED  BY <3>1
  <2>4. kv'[v].promised[r] = kv[v].promised[r] /\ (r \in kv'[v].decodes[0] <=> r \in kv[v].decodes[0])
    BY <1>8, <2>1, <2>3
  <2>. QED  BY <1>1, <2>2, <2>4 DEF JoiningAgrees
<1>10. ASSUME NEW v \in Attn, NEW s \in Slots, NEW r \in slots'[v][s].members
       PROVE  MemberAgrees(kv'[v], r, emitted'[r], LayersDone(slots'[v][s]), Delivered(s)')
  <2>0. /\ r \in Requests /\ r \in Seated(v, s)
        /\ r \in slots[v][s].members \cup slots[v][s].joining
    BY <1>2 DEF Seated
  <2>1. CASE v = w /\ Ends(slots[w][s], ended) /\ slots[w][s].layer = Last
    <3>1. PICK z \in Slots :
             /\ Ends(slots[w][z], ended) /\ slots[w][z].layer = Last
             /\ Layered(kv[w], kv'[w], slots[w][z].members, emitted)
      BY <2>1 DEF StoresDrove
    <3>2. z = s
      BY <2>1, <3>1 DEF IInv, OneComputes, Ends
    <3>3. PICK c, d : c = slots[w][s] /\ d = slots'[w][s]
      OBVIOUS
    <3>4. DrivenCell(c, d, ended) /\ Ends(c, ended) /\ c.layer = Last
      BY <1>1, <2>1, <3>3
    <3>5. d.members = c.members /\ LayersDone(d)
      BY <3>4 DEF DrivenCell, Ends, AtBoundary, LayersDone
    <3>6. r \in slots[w][z].members
      BY <1>10, <2>1, <3>2, <3>3, <3>5
    <3>7. MemberAgrees(kv'[w], r, emitted[r], TRUE, FALSE)
      BY <3>1, <3>6 DEF Layered
    <3>8. LayersDone(slots'[v][s]) /\ ~Delivered(s)'
      BY <1>7, <2>1, <3>3, <3>5
    <3>. QED  BY <1>1, <2>1, <3>7, <3>8 DEF MemberAgrees
  <2>2. CASE ~(v = w /\ Ends(slots[w][s], ended) /\ slots[w][s].layer = Last)
    <3>1. v = w => \A z \in Slots : (Ends(slots[w][z], ended) /\ slots[w][z].layer = Last)
                                            => r \notin slots[w][z].members
      <4>1. ASSUME v = w, NEW z \in Slots, Ends(slots[w][z], ended), slots[w][z].layer = Last,
                   r \in slots[w][z].members
            PROVE  FALSE
        <5>1. r \in Seated(v, z)
          BY <4>1 DEF Seated
        <5>2. z = s
          BY <1>3, <2>0, <5>1
        <5>. QED  BY <2>2, <4>1, <5>2
      <4>. QED  BY <4>1
    <3>2. /\ kv'[v].promised[r] = kv[v].promised[r] /\ kv'[v].context[r] = kv[v].context[r]
          /\ kv'[v].remaining[r] = kv[v].remaining[r]
          /\ r \in kv'[v].decodes[0] <=> r \in kv[v].decodes[0]
      BY <1>8, <2>0, <3>1
    <3>3. PICK c, d : c = slots[v][s] /\ d = slots'[v][s]
      OBVIOUS
    <3>4. \/ d = c
          \/ v = w /\ DrivenCell(c, d, ended)
      BY <1>1, <3>3
    <3>5. /\ LayersDone(d) <=> LayersDone(c)
          /\ (r \in c.joining /\ r \in d.members /\ r \notin c.members) => ~LayersDone(d)
      <4>1. c.members \cap c.joining = {}
        BY <3>3 DEF IInv, Places
      <4>. QED  BY <2>2, <3>3, <3>4, <4>1 DEF DrivenCell, LayersDone, AtBoundary, Ends
    <3>6. MemberAgrees(kv[v], r, emitted[r], LayersDone(d), FALSE)
      <4>1. CASE r \in c.members
        <5>1. MemberAgrees(kv[v], r, emitted[r], LayersDone(c), Delivered(s))
          BY <3>3, <4>1 DEF IInv, TokensAgree
        <5>. QED  BY <1>7, <3>5, <5>1 DEF MemberAgrees
      <4>2. CASE r \notin c.members
        <5>1. r \in c.joining /\ r \in d.members
          BY <1>10, <2>0, <3>3, <4>2
        <5>2. JoiningAgrees(kv[v], r, emitted[r])
          BY <3>3, <5>1 DEF IInv, TokensAgree
        <5>. QED  BY <3>5, <4>2, <5>1, <5>2 DEF MemberAgrees, JoiningAgrees
      <4>. QED  BY <4>1, <4>2
    <3>. QED  BY <1>1, <1>7, <3>2, <3>3, <3>6 DEF MemberAgrees
  <2>. QED  BY <2>1, <2>2
<1>11. TokensAgree'
  <2>1. /\ \A r \in Requests \ Arrived' : emitted'[r] = 0
        /\ \A r \in done' : emitted'[r] = Target[r]
        /\ \A v \in Attn : \A r \in queue'[v] : emitted'[r] = 0
    BY <1>1 DEF IInv, TokensAgree, Arrived
  <2>. QED  BY <1>9, <1>10, <2>1 DEF TokensAgree
<1>. QED  BY <1>4, <1>6, <1>11

\* A pass that changes something.
LEMMA DrivePassKeeps ==
    ASSUME IInv, NEW w \in Attn, DrivePass(w)
    PROVE  IInv' /\ Steps
<1>1. PICK tt, ended, R, D : Drove(w, tt, ended, R, D) /\ ended = timers[w]
  BY DrivePassIs
<1>2. StoresDrove(w, ended)
  BY <1>1, DriveStores
<1>3. Places' /\ StoresAgree' /\ TokensAgree' /\ kv' \in [Attn -> Kv!Store]
  BY <1>1, <1>2, DroveRequests
<1>4. ReportsTrue' /\ OneComputes' /\ BatchesAgree'
  BY <1>1, DroveReports
<1>5. Lockstep' /\ Steps
  <2>1. ASSUME NEW s \in Slots
        PROVE  LockstepOf(View(s), done)' /\ SameBarrier(View(s), View(s)')
    BY <1>1, DroveSlot
  <2>. QED  BY <2>1 DEF Lockstep, Steps, BarrierStep
<1>6. TypeOK'
  <2>1. /\ slots' \in [Attn -> [Slots -> Cell]]
        /\ UNCHANGED << arrived, queue, home, wake, sched, ffn, next, emitted, done >>
        /\ tick.stage = "attn" /\ tick'.stage = "attn" /\ tick'.due = tick.due
        /\ tick'.driving = TRUE /\ tick'.events = D /\ D \in Seq(Reports)
    BY <1>1 DEF Drove, Joined
  <2>2. timers' \in [Attn -> SUBSET Timed]
    <3>1. \A b, a : EndedAtStart(b, a) \in SUBSET Timed
      BY DEF EndedAtStart
    <3>2. timers' = [timers EXCEPT ![w] = EndedAtStart(slots[w], slots'[w])]
      BY DEF DrivePass
    <3>3. timers \in [Attn -> SUBSET Timed]
      BY DEF IInv, TypeOK
    <3>. QED  BY <3>1, <3>2, <3>3
  <2>3. tick' \in [stage : {"between", "ffn", "attn"}, due : SUBSET (Attn \cup Ffn),
                   driving : BOOLEAN, events : Seq(FfnEvents) \cup Seq(Reports)]
        /\ tick'.due \subseteq Attn
    <3>1. tick' = [stage |-> tick'.stage, due |-> tick'.due, driving |-> tick'.driving,
                   events |-> tick'.events]
      BY DEF DrivePass, IInv, TypeOK
    <3>2. tick.due \subseteq Attn
      BY <2>1 DEF IInv, TypeOK
    <3>. QED  BY <2>1, <3>1, <3>2
  <2>. QED  BY <1>3, <2>1, <2>2, <2>3 DEF IInv, TypeOK, Cell
<1>. QED  BY <1>3, <1>4, <1>5, <1>6 DEF IInv
-----------------------------------------------------------------------------
(* The controller aggregates the reports.                                   *)

\* The report e of worker w on slot s is the first, and is aggregated.
HeardOne(e, w, s) ==
    /\ tick.stage = "attn" /\ tick'.stage = "attn" /\ tick'.due = {}
    /\ tick'.events \in Seq(Reports)
    /\ tick' \in [stage : {"between", "ffn", "attn"}, due : SUBSET (Attn \cup Ffn),
                  driving : BOOLEAN, events : Seq(FfnEvents) \cup Seq(Reports)]
    /\ w \in Attn /\ s \in Slots /\ e \in Reports /\ e.worker = w /\ e.slot = s
    /\ e.reqs = slots[w][s].members
    /\ IF sched[s].inFlight THEN e.layer = slots[w][s].layer /\ slots[w][s].state = "AwaitFlush"
       ELSE e.layer = Start /\ slots[w][s].announced
    /\ w \in Unheard(s) /\ Unheard(s)' = Unheard(s) \ {w}
    /\ \A t \in Slots \ {s} : Unheard(t)' = Unheard(t)
    /\ \A t \in Slots : ~Delivered(t) /\ ~Delivered(t)'

\* Tail(E) is E without its first element.
LEMMA TailIs ==
    \A E \in Seq(Reports) : E # << >> =>
        /\ Tail(E) \in Seq(Reports) /\ Head(E) = E[1] /\ Head(E) \in Reports
        /\ 1 \in 1 .. Len(E)
        /\ \A i \in 1 .. Len(Tail(E)) : i + 1 \in 1 .. Len(E) /\ Tail(E)[i] = E[i + 1]
        /\ \A i \in 1 .. Len(E) : i = 1 \/ (i - 1 \in 1 .. Len(Tail(E)) /\ Tail(E)[i - 1] = E[i])
<1>1. SUFFICES ASSUME NEW E \in Seq(Reports), E # << >>
      PROVE  /\ Tail(E) \in Seq(Reports) /\ Head(E) = E[1] /\ Head(E) \in Reports
             /\ 1 \in 1 .. Len(E)
             /\ \A i \in 1 .. Len(Tail(E)) : i + 1 \in 1 .. Len(E) /\ Tail(E)[i] = E[i + 1]
             /\ \A i \in 1 .. Len(E) : i = 1 \/ (i - 1 \in 1 .. Len(Tail(E)) /\ Tail(E)[i - 1] = E[i])
  OBVIOUS
<1>2. Len(E) \in Nat /\ Len(E) > 0 /\ Head(E) = E[1]
  BY <1>1
<1>3. Tail(E) \in Seq(Reports) /\ Len(Tail(E)) = Len(E) - 1
      /\ \A i \in 1 .. Len(Tail(E)) : Tail(E)[i] = E[i + 1]
  BY <1>1
<1>4. 1 \in 1 .. Len(E)
  BY <1>2
<1>5. Head(E) \in Reports
  BY <1>1, <1>2, <1>4
<1>6. PICK D, n : D = Tail(E) /\ n = Len(E)
  OBVIOUS
<1>7. n \in Nat /\ n > 0 /\ Len(D) = n - 1 /\ \A i \in 1 .. Len(D) : D[i] = E[i + 1]
  BY <1>2, <1>3, <1>6
<1>8. /\ \A i \in 1 .. Len(D) : i + 1 \in 1 .. n
      /\ \A i \in 1 .. n : i = 1 \/ (i - 1 \in 1 .. Len(D) /\ i - 1 + 1 = i)
  BY <1>7
<1>9. \A i \in 1 .. n : i = 1 \/ (i - 1 \in 1 .. Len(D) /\ D[i - 1] = E[i])
  BY <1>7, <1>8
<1>. QED  BY <1>3, <1>2, <1>4, <1>5, <1>6, <1>7, <1>8, <1>9

\* The first report is true of its slot, and no other is heard.
LEMMA FirstHeard ==
    ASSUME IInv, Aggregating, tick' = [tick EXCEPT !.events = Tail(@)],
           NEW e, NEW w, NEW s, e = Head(tick.events), w = e.worker, s = e.slot
    PROVE  HeardOne(e, w, s)
<1>1. /\ tick.stage = "attn" /\ tick.due = {} /\ tick.events # << >> /\ tick.events \in Seq(Reports)
      /\ tick'.stage = "attn" /\ tick'.due = {} /\ tick'.events = Tail(tick.events)
      /\ tick' = [stage |-> "attn", due |-> {}, driving |-> tick.driving,
                  events |-> Tail(tick.events)]
      /\ tick.driving \in BOOLEAN
  BY DEF Aggregating, IInv, TypeOK
<1>2. PICK E, D : E = tick.events /\ D = Tail(tick.events)
  OBVIOUS
<1>3. /\ E \in Seq(Reports) /\ D \in Seq(Reports) /\ e = E[1] /\ e \in Reports /\ 1 \in 1 .. Len(E)
      /\ \A i \in 1 .. Len(D) : i + 1 \in 1 .. Len(E) /\ D[i] = E[i + 1]
      /\ \A i \in 1 .. Len(E) : i = 1 \/ (i - 1 \in 1 .. Len(D) /\ D[i - 1] = E[i])
  BY <1>1, <1>2, TailIs
<1>4. w \in Attn /\ s \in Slots
  BY <1>3 DEF Reports
<1>5. /\ \A i, j \in 1 .. Len(E) : (E[i].worker = E[j].worker /\ E[i].slot = E[j].slot) => i = j
      /\ \A i \in 1 .. Len(E) :
              LET u    == E[i]
                  cell == slots[u.worker][u.slot]
              IN  /\ u.reqs = cell.members
                  /\ IF sched[u.slot].inFlight
                     THEN u.layer = cell.layer /\ cell.state = "AwaitFlush"
                     ELSE u.layer = Start /\ cell.announced
  BY <1>1, <1>2 DEF IInv, ReportsTrue, ReportTrue
<1>6. /\ e.reqs = slots[w][s].members
      /\ IF sched[s].inFlight THEN e.layer = slots[w][s].layer /\ slots[w][s].state = "AwaitFlush"
         ELSE e.layer = Start /\ slots[w][s].announced
  <2>1. PICK i \in 1 .. Len(E) : E[i] = e
    BY <1>3
  <2>2. /\ e.reqs = slots[e.worker][e.slot].members
        /\ IF sched[e.slot].inFlight
           THEN e.layer = slots[e.worker][e.slot].layer /\ slots[e.worker][e.slot].state = "AwaitFlush"
           ELSE e.layer = Start /\ slots[e.worker][e.slot].announced
    <3>1. LET u    == E[i]
              cell == slots[u.worker][u.slot]
          IN  /\ u.reqs = cell.members
              /\ IF sched[u.slot].inFlight
                 THEN u.layer = cell.layer /\ cell.state = "AwaitFlush"
                 ELSE u.layer = Start /\ cell.announced
      BY <1>5
    <3>. QED  BY <2>1, <3>1, Zenon
  <2>3. w = e.worker /\ s = e.slot
    OBVIOUS
  <2>. QED  BY <2>2, <2>3, Zenon
<1>7. \A t \in Slots : /\ Unheard(t) = { E[i].worker : i \in { j \in 1 .. Len(E) : E[j].slot = t } }
                       /\ Unheard(t)' = { D[i].worker : i \in { j \in 1 .. Len(D) : D[j].slot = t } }
                       /\ ~Delivered(t) /\ ~Delivered(t)'
  BY <1>1, <1>2 DEF Unheard, Delivered
<1>8. \A i \in 1 .. Len(D) : i \in Int /\ i > 0
  BY <1>3
<1>9. ASSUME NEW t \in Slots, NEW v
      PROVE  v \in Unheard(t)' <=> v \in Unheard(t) /\ ~(v = w /\ t = s)
  <2>1. ASSUME NEW i \in 1 .. Len(D), D[i].slot = t, D[i].worker = v
        PROVE  v \in Unheard(t) /\ ~(v = w /\ t = s)
    <3>1. i + 1 \in 1 .. Len(E) /\ D[i] = E[i + 1] /\ i + 1 # 1
      BY <1>3, <1>8
    <3>2. v \in Unheard(t)
      BY <1>7, <2>1, <3>1
    <3>3. ~(v = w /\ t = s)
      BY <1>3, <1>5, <2>1, <3>1
    <3>. QED  BY <3>2, <3>3
  <2>2. ASSUME NEW i \in 1 .. Len(E), E[i].slot = t, E[i].worker = v, ~(v = w /\ t = s)
        PROVE  v \in Unheard(t)'
    <3>1. i # 1
      BY <1>3, <2>2
    <3>2. i - 1 \in 1 .. Len(D) /\ D[i - 1] = E[i]
      BY <1>3, <3>1
    <3>. QED  BY <1>7, <2>2, <3>2
  <2>3. v \in Unheard(t)' => \E i \in 1 .. Len(D) : D[i].slot = t /\ D[i].worker = v
    BY <1>7
  <2>4. v \in Unheard(t) => \E i \in 1 .. Len(E) : E[i].slot = t /\ E[i].worker = v
    BY <1>7
  <2>. QED  BY <2>1, <2>2, <2>3, <2>4
<1>10. w \in Unheard(s)
  <2>1. PICK i \in 1 .. Len(E) : E[i] = e
    BY <1>3
  <2>2. E[i].slot = s /\ E[i].worker = w
    BY <2>1
  <2>3. i \in { j \in 1 .. Len(E) : E[j].slot = s }
    BY <2>2
  <2>4. w \in { E[k].worker : k \in { j \in 1 .. Len(E) : E[j].slot = s } }
    BY <2>2, <2>3
  <2>. QED  BY <1>4, <1>7, <2>4
<1>11. Unheard(s)' = Unheard(s) \ {w} /\ \A t \in Slots \ {s} : Unheard(t)' = Unheard(t)
  BY <1>4, <1>9
<1>12. tick' \in [stage : {"between", "ffn", "attn"}, due : SUBSET (Attn \cup Ffn),
                  driving : BOOLEAN, events : Seq(FfnEvents) \cup Seq(Reports)]
       /\ tick'.events \in Seq(Reports)
  BY <1>1, <1>2, <1>3
<1>. QED  BY <1>1, <1>3, <1>4, <1>6, <1>7, <1>10, <1>11, <1>12 DEF HeardOne

\* The other reports stay true when the slots they are about stay as they are.
LEMMA ReportsLeft ==
    ASSUME IInv, Aggregating, tick' = [tick EXCEPT !.events = Tail(@)],
           \A t \in Slots : Unheard(t)' # {} =>
               /\ sched'[t].inFlight = sched[t].inFlight
               /\ \A v \in Attn : slots'[v][t] = slots[v][t]
    PROVE  ReportsTrue'
<1>1. /\ tick.stage = "attn" /\ tick.events # << >> /\ tick.events \in Seq(Reports)
      /\ tick'.stage = "attn" /\ tick'.events = Tail(tick.events)
  BY DEF Aggregating, IInv, TypeOK
<1>2. PICK E, D : E = tick.events /\ D = Tail(tick.events)
  OBVIOUS
<1>3. /\ E \in Seq(Reports) /\ D \in Seq(Reports)
      /\ \A i \in 1 .. Len(D) : i + 1 \in 1 .. Len(E) /\ D[i] = E[i + 1]
  BY <1>1, <1>2, TailIs
<1>4. /\ \A i, j \in 1 .. Len(E) : (E[i].worker = E[j].worker /\ E[i].slot = E[j].slot) => i = j
      /\ \A i \in 1 .. Len(E) :
              LET u    == E[i]
                  cell == slots[u.worker][u.slot]
              IN  /\ u.reqs = cell.members
                  /\ IF sched[u.slot].inFlight
                     THEN u.layer = cell.layer /\ cell.state = "AwaitFlush"
                     ELSE u.layer = Start /\ cell.announced
  BY <1>1, <1>2 DEF IInv, ReportsTrue, ReportTrue
<1>5. \A i \in 1 .. Len(D) : D[i].worker \in Attn /\ D[i].slot \in Slots /\ i \in Int
  <2>1. \A i \in 1 .. Len(D) : D[i] \in Reports /\ i \in Int
    BY <1>3
  <2>. QED  BY <2>1 DEF Reports
<1>6. ASSUME NEW i \in 1 .. Len(D)
      PROVE  LET u    == D[i]
                 cell == slots'[u.worker][u.slot]
             IN  /\ u.reqs = cell.members
                 /\ IF sched'[u.slot].inFlight
                    THEN u.layer = cell.layer /\ cell.state = "AwaitFlush"
                    ELSE u.layer = Start /\ cell.announced
  <2>1. PICK u, v, t : u = D[i] /\ v = u.worker /\ t = u.slot
    OBVIOUS
  <2>2. v \in Attn /\ t \in Slots
    BY <1>5, <2>1
  <2>3. Unheard(t)' = { D[k].worker : k \in { j \in 1 .. Len(D) : D[j].slot = t } }
    BY <1>1, <1>2 DEF Unheard
  <2>4. Unheard(t)' # {}
    BY <2>1, <2>3
  <2>5. sched'[t].inFlight = sched[t].inFlight /\ slots'[v][t] = slots[v][t]
    BY <2>2, <2>4
  <2>6. u = E[i + 1] /\ i + 1 \in 1 .. Len(E)
    BY <1>3, <2>1
  <2>7. /\ u.reqs = slots[v][t].members
        /\ IF sched[t].inFlight THEN u.layer = slots[v][t].layer /\ slots[v][t].state = "AwaitFlush"
           ELSE u.layer = Start /\ slots[v][t].announced
    BY <1>4, <2>1, <2>6
  <2>. QED  BY <2>1, <2>5, <2>7
<1>7. ASSUME NEW i \in 1 .. Len(D), NEW j \in 1 .. Len(D),
             D[i].worker = D[j].worker, D[i].slot = D[j].slot
      PROVE  i = j
  <2>1. PICK k \in 1 .. Len(E), l \in 1 .. Len(E) :
           k = i + 1 /\ l = j + 1 /\ D[i] = E[k] /\ D[j] = E[l]
    BY <1>3
  <2>2. E[k].worker = E[l].worker /\ E[k].slot = E[l].slot
    BY <1>7, <2>1
  <2>3. k = l
    BY <1>4, <2>2
  <2>. QED  BY <1>5, <2>1, <2>3
<1>8. \A i, j \in 1 .. Len(D) : (D[i].worker = D[j].worker /\ D[i].slot = D[j].slot) => i = j
  BY <1>7
<1>9. ASSUME NEW i \in 1 .. Len(D)
      PROVE  ReportTrue(D[i], slots'[D[i].worker][D[i].slot], sched'[D[i].slot].inFlight)
  BY <1>6 DEF ReportTrue
<1>10. tick'.events = D
  BY <1>1, <1>2
<1>. QED  BY ONLY <1>8, <1>9, <1>10, SMTT(30) DEF ReportsTrue

\* submit: the task is queued with the next FFN worker, the others stay.
TaskAdded(s, layer, reqs) ==
    \E p : InFlightTasks(s)' = {p} /\ p.at[1] # -1 /\ p.task.layer = layer /\ p.task.reqs = reqs

\* submit puts one task with the FFN pool, in the slot it is of.
LEMMA SubmitIs ==
    ASSUME IInv, tick.stage = "attn", tick'.stage = "attn", NEW task \in Tasks, Submit(task)
    PROVE  /\ ffn' \in [Ffn ->
                 [incoming : Seq(Tasks), pulling : Tasks \cup {NoTask},
                  computing : Tasks \cup {NoTask}, ended : SUBSET Timed, wake : Wakes]]
           /\ next' \in Ffn
           /\ \A t \in Slots : t # task.slot => Moved(InFlightTasks(t), InFlightTasks(t)')
           /\ InFlightTasks(task.slot) = {} => TaskAdded(task.slot, task.layer, task.reqs)
<1>1. PICK n \in Ffn : n = next
  BY DEF IInv, TypeOK
<1> DEFINE Worker == [incoming : Seq(Tasks), pulling : Tasks \cup {NoTask},
                      computing : Tasks \cup {NoTask}, ended : SUBSET Timed, wake : Wakes]
<1>2. ffn \in [Ffn -> Worker]
  BY DEF IInv, TypeOK
<1>3. PICK fw \in Worker : fw = ffn[n]
  BY <1>2
<1>4. PICK gw : gw = [fw EXCEPT !.incoming = Append(fw.incoming, task), !.wake = Woken(fw.wake)]
  OBVIOUS
<1>5. /\ gw \in Worker /\ gw.incoming = Append(fw.incoming, task)
      /\ gw.pulling = fw.pulling /\ gw.computing = fw.computing
  <2>1. Append(fw.incoming, task) \in Seq(Tasks) /\ Woken(fw.wake) \in Wakes
    BY DEF Woken, Wakes
  <2>. QED  BY <1>4, <2>1
<1>6. ffn' = [ffn EXCEPT ![n] = gw]
  <2>1. ffn' = [ffn EXCEPT ![n].incoming = Append(ffn[n].incoming, task),
                           ![n].wake     = Woken(ffn[n].wake)]
    BY <1>1 DEF Submit
  <2>2. PICK g : g = [ffn EXCEPT ![n].incoming = Append(ffn[n].incoming, task)]
    OBVIOUS
  <2>3. g = [ffn EXCEPT ![n] = [fw EXCEPT !.incoming = Append(fw.incoming, task)]]
    BY <1>3, <2>2
  <2>4. ffn' = [g EXCEPT ![n].wake = Woken(fw.wake)]
    BY <1>3, <2>1, <2>2
  <2>5. g[n] = [fw EXCEPT !.incoming = Append(fw.incoming, task)]
    BY <1>2, <2>3
  <2>6. ffn' = [g EXCEPT ![n] = gw]
    BY <1>4, <2>4, <2>5
  <2>. QED  BY <2>3, <2>6
<1> HIDE DEF Worker
<1>7. ffn' \in [Ffn -> Worker] /\ ffn'[n] = gw /\ \A f \in Ffn \ {n} : ffn'[f] = ffn[f]
  BY <1>2, <1>5, <1>6
<1>8. next' \in Ffn
  <2>1. n \in Int /\ NumFfn \in Nat \ {0}
    BY <1>1, Universe, AfdAssumption
  <2>2. (n + 1) % NumFfn \in 0 .. NumFfn - 1
    BY <2>1
  <2>. QED  BY <1>1, <2>2 DEF Submit, NextFfn, Ffn
<1>9. Submitted(ffn, ffn', n, task)
  BY <1>3, <1>5, <1>7 DEF Submitted
<1>10. /\ NowDelivered(tick) = << >> /\ NowDelivered(tick') = << >>
       /\ Carrying(ffn, << >>)
  <2>1. Carrying(ffn, NowDelivered(tick))
    BY Types DEF IInv
  <2>. QED  BY <2>1 DEF NowDelivered
<1>11. \A t : InFlightTasks(t) = Flight(ffn, << >>, t) /\ InFlightTasks(t)' = Flight(ffn', << >>, t)
  BY <1>10, InFlightIs
<1>12. ASSUME NEW t \in Slots, t # task.slot PROVE Moved(InFlightTasks(t), InFlightTasks(t)')
  <2>1. ASSUME NEW E, Carrying(ffn, E) PROVE Moved(Flight(ffn, E, t), Flight(ffn', E, t))
    BY <1>9, <1>12, <2>1, SubmittedFlight
  <2>. QED  BY <1>10, <1>11, <2>1
<1>13. ASSUME InFlightTasks(task.slot) = {} PROVE TaskAdded(task.slot, task.layer, task.reqs)
  <2>1. PICK s : s = task.slot
    OBVIOUS
  <2>2. Flight(ffn, << >>, s) = {}
    BY <1>11, <1>13, <2>1
  <2>3. \E p : /\ Flight(ffn', << >>, s) = {p} /\ p.at[1] # -1
               /\ p.task.layer = task.layer /\ p.task.reqs = task.reqs
    <3>1. (s = task.slot /\ Flight(ffn, << >>, s) = {}) =>
             \E p : /\ Flight(ffn', << >>, s) = {p} /\ p.at[1] # -1
                    /\ p.task.layer = task.layer /\ p.task.reqs = task.reqs
      <4>1. ASSUME NEW E, Carrying(ffn, E), NEW G, Submitted(ffn, G, n, task)
            PROVE  (s = task.slot /\ Flight(ffn, E, s) = {}) =>
                      \E p : /\ Flight(G, E, s) = {p} /\ p.at[1] # -1
                             /\ p.task.layer = task.layer /\ p.task.reqs = task.reqs
        BY <4>1, SubmittedFlight
      <4>. QED  BY <1>9, <1>10, <4>1
    <3>. QED  BY <2>1, <2>2, <3>1
  <2>4. TaskAdded(s, task.layer, task.reqs)
    BY <1>11, <2>3 DEF TaskAdded
  <2>. QED  BY <2>1, <2>4
<1>. QED  BY <1>7, <1>8, <1>12, <1>13 DEF Worker

\* Nothing of the batch of a new task is completed.
LEMMA AddedUncompleted ==
    ASSUME IInv, tick'.stage = "attn", UNCHANGED done, NEW s \in Slots, NEW layer, NEW reqs,
           \A t \in Slots : t # s => Moved(InFlightTasks(t), InFlightTasks(t)'),
           Moved(InFlightTasks(s), InFlightTasks(s)')
               \/ (TaskAdded(s, layer, reqs) /\ reqs \cap done = {})
    PROVE  BatchesAgree'
<1>1. LeavingTrue'
  BY DEF LeavingTrue
<1>2. ASSUME NEW t \in Slots, NEW q \in InFlightTasks(t)', q.at[1] # -1 \/ q.task.layer # Last
      PROVE  q.task.reqs \cap done' = {}
  <2>1. CASE Moved(InFlightTasks(t), InFlightTasks(t)')
    <3>1. PICK p \in InFlightTasks(t) :
             SameTask(p.task, q.task) /\ (q.at[1] # -1 => p.at[1] # -1)
      BY <2>1 DEF Moved
    <3>2. p.task.reqs \cap done = {}
      BY <1>2, <3>1 DEF IInv, BatchesAgree, Uncompleted, SameTask
    <3>. QED  BY <3>1, <3>2 DEF SameTask
  <2>2. CASE t = s /\ TaskAdded(s, layer, reqs) /\ reqs \cap done = {}
    BY <2>2 DEF TaskAdded
  <2>. QED  BY <2>1, <2>2
<1>. QED  BY <1>1, <1>2 DEF BatchesAgree, Uncompleted

\* What aggregating the report e of worker w on slot s does.
Aggregates(e, w, s, layer, reqs) ==
    /\ HeardOne(e, w, s)
    /\ tick' = [tick EXCEPT !.events = Tail(@)]
    /\ UNCHANGED << arrived, kv, queue, home, emitted, done >>
    /\ \A t \in Slots \ {s} : /\ sched'[t] = sched[t]
                              /\ Moved(InFlightTasks(t), InFlightTasks(t)')
                              /\ \A v \in Attn : slots'[v][t] = slots[v][t]
    /\ LockstepOf(View(s), done)' /\ Hears(View(s), View(s)')
    /\ \/ Moved(InFlightTasks(s), InFlightTasks(s)')
       \/ TaskAdded(s, layer, reqs) /\ reqs \cap done = {}
    /\ Unheard(s)' # {} => /\ sched'[s].inFlight = sched[s].inFlight
                           /\ \A v \in Attn : slots'[v][s] = slots[v][s]
    /\ \A v \in Attn, t \in Slots :
          /\ slots'[v][t].members = slots[v][t].members
          /\ slots'[v][t].joining = slots[v][t].joining
          /\ LayersDone(slots'[v][t]) <=> LayersDone(slots[v][t])
          /\ slots'[v][t].state = "Compute" => slots[v][t].state = "Compute"

\* A report that is aggregated so keeps the invariant.
LEMMA AggregatesKeeps ==
    ASSUME IInv, TypeOK', Aggregating,
           NEW e, NEW w, NEW s, NEW layer, NEW reqs, Aggregates(e, w, s, layer, reqs)
    PROVE  IInv' /\ Steps
<1>1. /\ tick'.stage = "attn" /\ s \in Slots /\ tick' = [tick EXCEPT !.events = Tail(@)]
      /\ \A t \in Slots \ {s} : Unheard(t)' = Unheard(t)
      /\ \A t \in Slots : ~Delivered(t) /\ ~Delivered(t)'
  BY DEF Aggregates, HeardOne
<1>2. UNCHANGED << arrived, kv, queue, home, emitted, done >>
  BY DEF Aggregates
<1>3. \A t \in Slots \ {s} : /\ sched'[t] = sched[t]
                             /\ Moved(InFlightTasks(t), InFlightTasks(t)')
                             /\ \A v \in Attn : slots'[v][t] = slots[v][t]
  BY DEF Aggregates
<1>4. \A v \in Attn, t \in Slots :
          /\ slots'[v][t].members = slots[v][t].members
          /\ slots'[v][t].joining = slots[v][t].joining
          /\ LayersDone(slots'[v][t]) <=> LayersDone(slots[v][t])
          /\ slots'[v][t].state = "Compute" => slots[v][t].state = "Compute"
  BY DEF Aggregates
<1>5. ASSUME NEW t \in Slots, t # s
      PROVE  LockstepOf(View(t), done)' /\ SameBarrier(View(t), View(t)')
  <2>1. \A v \in Attn : SameCell(slots[v][t], slots'[v][t])
    BY <1>3, <1>5 DEF SameCell
  <2>2. \A v \in Attn : slots[v][t].members \cap done' = {}
    BY <1>2, MembersNotDone DEF IInv
  <2>3. sched'[t] = sched[t] /\ Unheard(t)' = Unheard(t) /\ done \subseteq done'
        /\ Moved(InFlightTasks(t), InFlightTasks(t)')
    BY <1>1, <1>2, <1>3, <1>5
  <2>. QED  BY <2>1, <2>2, <2>3, SlotKept
<1>6. LockstepOf(View(s), done)' /\ Hears(View(s), View(s)')
  BY DEF Aggregates
<1>7. Lockstep' /\ Steps
  BY <1>5, <1>6 DEF Lockstep, Steps, BarrierStep
<1>8. ReportsTrue'
  <2>1. Unheard(s)' # {} => /\ sched'[s].inFlight = sched[s].inFlight
                            /\ \A v \in Attn : slots'[v][s] = slots[v][s]
    BY DEF Aggregates
  <2>2. \A t \in Slots : Unheard(t)' # {} =>
               /\ sched'[t].inFlight = sched[t].inFlight
               /\ \A v \in Attn : slots'[v][t] = slots[v][t]
    BY <1>3, <2>1
  <2>. QED  BY <1>1, <2>2, ReportsLeft
<1>9. BatchesAgree'
  <2>1. \/ Moved(InFlightTasks(s), InFlightTasks(s)')
        \/ TaskAdded(s, layer, reqs) /\ reqs \cap done = {}
    BY DEF Aggregates
  <2>2. \A t \in Slots : t # s => Moved(InFlightTasks(t), InFlightTasks(t)')
    BY <1>3
  <2>. QED  BY <1>1, <1>2, <2>1, <2>2, AddedUncompleted
<1>10. OneComputes'
  BY <1>4 DEF IInv, OneComputes
<1>11. Places' /\ StoresAgree'
  <2>1. \A v \in Attn, t \in Slots : Seated(v, t)' = Seated(v, t)
                                     /\ slots'[v][t].members \cap slots'[v][t].joining = {}
    BY <1>4 DEF Seated, IInv, Places
  <2>. QED  BY <1>2, <2>1, SameSeats
<1>12. TokensAgree'
  <2>1. Arrived' = Arrived
    BY <1>2 DEF Arrived
  <2>2. ASSUME NEW v \in Attn, NEW t \in Slots, NEW r \in slots'[v][t].members
        PROVE  MemberAgrees(kv'[v], r, emitted'[r], LayersDone(slots'[v][t]), Delivered(t)')
    <3>1. MemberAgrees(kv[v], r, emitted[r], LayersDone(slots[v][t]), Delivered(t))
      BY <1>4, <2>2 DEF IInv, TokensAgree
    <3>2. LayersDone(slots'[v][t]) <=> LayersDone(slots[v][t])
      BY <1>4
    <3>3. ~Delivered(t) /\ ~Delivered(t)'
      BY <1>1
    <3>. QED  BY <1>2, <3>1, <3>2, <3>3 DEF MemberAgrees
  <2>3. \A v \in Attn, t \in Slots : \A r \in slots'[v][t].joining :
           JoiningAgrees(kv'[v], r, emitted'[r])
    BY <1>2, <1>4 DEF IInv, TokensAgree
  <2>. QED  BY <1>2, <2>1, <2>2, <2>3 DEF IInv, TokensAgree
<1>. QED  BY <1>7, <1>8, <1>9, <1>10, <1>11, <1>12 DEF IInv

\* The controller hears that a worker is at the boundary before layer 0.
LEMMA OnIterStartKeeps ==
    ASSUME IInv, OnIterStart
    PROVE  IInv' /\ Steps
<1>0. PICK e, w, s : e = Head(tick.events) /\ w = e.worker /\ s = e.slot
  OBVIOUS
<1>1. /\ Aggregating /\ e.layer = Start /\ tick' = [tick EXCEPT !.events = Tail(@)]
      /\ UNCHANGED << arrived, kv, queue, home, slots, timers, wake, emitted, done >>
  BY <1>0 DEF OnIterStart
<1>2. HeardOne(e, w, s)
  BY <1>0, <1>1, FirstHeard
<1>3. /\ w \in Attn /\ s \in Slots /\ w \in Unheard(s) /\ Unheard(s)' = Unheard(s) \ {w}
      /\ tick.stage = "attn" /\ tick'.stage = "attn" /\ tick'.due = {}
      /\ tick'.events \in Seq(Reports)
      /\ tick' \in [stage : {"between", "ffn", "attn"}, due : SUBSET (Attn \cup Ffn),
                    driving : BOOLEAN, events : Seq(FfnEvents) \cup Seq(Reports)]
  BY <1>2 DEF HeardOne
<1>4. /\ slots \in [Attn -> [Slots -> Cell]] /\ sched \in [Slots -> Sched]
      /\ \A t \in Slots : IsView(View(t))
  BY Types DEF IInv
<1>5. PICK c \in Cell : c = slots[w][s]
  BY <1>3, <1>4
<1>6. PICK d \in Sched : d = sched[s]
  BY <1>3, <1>4
<1>7. ~d.inFlight /\ c.announced /\ e.reqs = c.members
  <2>1. /\ e.reqs = c.members
        /\ IF d.inFlight THEN e.layer = c.layer /\ c.state = "AwaitFlush"
           ELSE e.layer = Start /\ c.announced
    BY <1>2, <1>5, <1>6 DEF HeardOne
  <2>2. c.layer \in 0 .. Last
    BY DEF Cell
  <2>. QED  BY <1>1, <2>1, <2>2 DEF Start
<1>8. PICK b : b = [count |-> d.start.count + 1, reqs |-> d.start.reqs \cup e.reqs]
  OBVIOUS
<1>9. /\ b \in [count : Nat, reqs : SUBSET Requests]
      /\ b.count = d.start.count + 1 /\ b.reqs = d.start.reqs \cup c.members
  <2>1. d.start.count \in Nat /\ d.start.reqs \subseteq Requests /\ c.members \subseteq Requests
    BY DEF Sched, Cell
  <2>. QED  BY <1>7, <1>8, <2>1
<1>10. PICK task : task = [slot |-> s, layer |-> Start, reqs |-> b.reqs]
  OBVIOUS
<1>11. task \in Tasks /\ task.slot = s /\ task.layer = Start /\ task.reqs = b.reqs
  BY <1>3, <1>9, <1>10, Universe DEF Tasks
<1>12. \/ /\ b.count # NumAttn /\ sched' = [sched EXCEPT ![s].start = b]
          /\ UNCHANGED << ffn, next >>
       \/ /\ b.count = NumAttn
          /\ sched' = [sched EXCEPT ![s] =
                [sched[s] EXCEPT !.inFlight = TRUE, !.start = EmptyStart,
                                 !.barrier = EmptyBarrier]]
          /\ Submit(task)
  BY <1>0, <1>6, <1>7, <1>8, <1>10 DEF OnIterStart
<1> DEFINE x == View(s)
           y == View(s)'
<1>13. /\ x.sched = d /\ y.sched = sched'[s] /\ x.tasks = InFlightTasks(s)
       /\ y.tasks = InFlightTasks(s)' /\ x.unheard = Unheard(s) /\ y.unheard = Unheard(s)'
       /\ y.cells = x.cells /\ x.cells[w] = c
  BY <1>1, <1>3, <1>5, <1>6 DEF View
<1>14. LockstepOf(x, done) /\ IsView(x) /\ BatchOf(x, Attn) \cap done = {}
  BY <1>3, <1>4, MembersInService DEF IInv, Lockstep
<1> HIDE DEF x, y
<1>15. InFlightTasks(s) = {}
  BY <1>7, <1>13, <1>14, NotInFlight
<1>16. /\ \A t \in Slots : t # s => Moved(InFlightTasks(t), InFlightTasks(t)')
       /\ \/ /\ b.count # NumAttn /\ InFlightTasks(s)' = InFlightTasks(s)
             /\ Moved(InFlightTasks(s), InFlightTasks(s)')
          \/ b.count = NumAttn /\ TaskAdded(s, Start, b.reqs)
       /\ next' \in Ffn
       /\ ffn' \in [Ffn ->
             [incoming : Seq(Tasks), pulling : Tasks \cup {NoTask},
              computing : Tasks \cup {NoTask}, ended : SUBSET Timed, wake : Wakes]]
  <2>1. CASE b.count # NumAttn
    <3>1. \A t \in Slots : /\ InFlightTasks(t)' = InFlightTasks(t)
                           /\ Moved(InFlightTasks(t), InFlightTasks(t)')
      BY <1>3, <1>12, <2>1, SameFlight
    <3>2. ffn' = ffn /\ next' = next
      BY <1>12, <2>1
    <3>. QED  BY <1>3, <2>1, <3>1, <3>2 DEF IInv, TypeOK
  <2>2. CASE b.count = NumAttn
    <3>1. Submit(task)
      BY <1>12, <2>2
    <3>2. /\ ffn' \in [Ffn ->
                [incoming : Seq(Tasks), pulling : Tasks \cup {NoTask},
                 computing : Tasks \cup {NoTask}, ended : SUBSET Timed, wake : Wakes]]
          /\ next' \in Ffn
          /\ \A t \in Slots : t # task.slot => Moved(InFlightTasks(t), InFlightTasks(t)')
          /\ InFlightTasks(task.slot) = {} => TaskAdded(task.slot, task.layer, task.reqs)
      BY <1>3, <1>11, <3>1, SubmitIs
    <3>3. TaskAdded(s, Start, b.reqs)
      BY <1>11, <1>15, <3>2
    <3>. QED  BY <1>11, <2>2, <3>2, <3>3
  <2>. QED  BY <2>1, <2>2
<1>17. /\ sched' \in [Slots -> Sched] /\ \A t \in Slots \ {s} : sched'[t] = sched[t]
       /\ \/ /\ b.count # NumAttn /\ ~sched'[s].inFlight
             /\ sched'[s].barrier = d.barrier /\ sched'[s].start = b
          \/ /\ b.count = NumAttn /\ sched'[s].inFlight
             /\ sched'[s].barrier = EmptyBarrier /\ sched'[s].start = EmptyStart
  <2>1. PICK g : g = IF b.count # NumAttn THEN [d EXCEPT !.start = b]
                     ELSE [d EXCEPT !.inFlight = TRUE, !.start = EmptyStart,
                                    !.barrier = EmptyBarrier]
    OBVIOUS
  <2>2. sched' = [sched EXCEPT ![s] = g]
    <3>1. CASE b.count # NumAttn
      <4>1. sched' = [sched EXCEPT ![s].start = b]
        BY <1>12, <3>1
      <4>. QED  BY <1>6, <2>1, <3>1, <4>1
    <3>2. CASE b.count = NumAttn
      <4>1. sched' = [sched EXCEPT ![s] = [d EXCEPT !.inFlight = TRUE, !.start = EmptyStart,
                                                    !.barrier = EmptyBarrier]]
        BY <1>6, <1>12, <3>2
      <4>. QED  BY <2>1, <3>2, <4>1
    <3>. QED  BY <3>1, <3>2
  <2>3. /\ EmptyBarrier \in [layer : 0 .. Last, count : Nat, reqs : SUBSET Requests,
                             weighted : SUBSET Attn]
        /\ EmptyStart \in [count : Nat, reqs : SUBSET Requests]
    BY Universe DEF EmptyBarrier, EmptyStart
  <2>4. /\ g \in Sched
        /\ \/ b.count # NumAttn /\ ~g.inFlight /\ g.barrier = d.barrier /\ g.start = b
           \/ b.count = NumAttn /\ g.inFlight /\ g.barrier = EmptyBarrier /\ g.start = EmptyStart
    <3>1. CASE b.count # NumAttn
      BY <1>7, <1>9, <2>1, <3>1 DEF Sched
    <3>2. CASE b.count = NumAttn
      BY <2>1, <2>3, <3>2 DEF Sched
    <3>. QED  BY <3>1, <3>2
  <2>5. sched'[s] = g /\ sched' \in [Slots -> Sched] /\ \A t \in Slots \ {s} : sched'[t] = sched[t]
    BY <1>3, <1>4, <2>2, <2>4
  <2>. QED  BY <2>4, <2>5
<1>18. \/ /\ b.count # NumAttn /\ y.tasks = x.tasks
          /\ ~y.sched.inFlight /\ y.sched.barrier = x.sched.barrier
          /\ y.sched.start.count = b.count /\ y.sched.start.reqs = b.reqs
       \/ /\ b.count = NumAttn
          /\ y.sched.inFlight /\ y.sched.start = EmptyStart /\ y.sched.barrier = EmptyBarrier
          /\ \E p : y.tasks = {p} /\ p.task.layer = Start /\ p.task.reqs = b.reqs
  <2>1. CASE b.count # NumAttn
    BY <1>13, <1>16, <1>17, <2>1
  <2>2. CASE b.count = NumAttn
    <3>1. \E p : y.tasks = {p} /\ p.task.layer = Start /\ p.task.reqs = b.reqs
      BY <1>13, <1>16, <2>2 DEF TaskAdded
    <3>. QED  BY <1>13, <1>17, <2>2, <3>1
  <2>. QED  BY <2>1, <2>2
<1>19. /\ ~x.sched.inFlight /\ w \in x.unheard /\ x.cells[w].announced
       /\ y.cells = x.cells /\ y.unheard = x.unheard \ {w}
       /\ b.count = x.sched.start.count + 1
       /\ b.reqs = x.sched.start.reqs \cup x.cells[w].members
  BY <1>3, <1>7, <1>9, <1>13
<1>20. /\ LockstepOf(y, done) /\ Hears(x, y) /\ (b.count = NumAttn => y.unheard = {})
       /\ b.reqs \subseteq BatchOf(x, Attn)
  BY <1>14, <1>18, <1>19, HeardStart
<1>21. TypeOK'
  BY <1>1, <1>3, <1>16, <1>17 DEF IInv, TypeOK, Sched
<1>22. Aggregates(e, w, s, Start, b.reqs)
  <2>1. LockstepOf(View(s), done)' /\ Hears(View(s), View(s)')
    BY <1>1, <1>20 DEF x, y
  <2>2. \/ Moved(InFlightTasks(s), InFlightTasks(s)')
        \/ TaskAdded(s, Start, b.reqs) /\ b.reqs \cap done = {}
    BY <1>14, <1>16, <1>20
  <2>3. Unheard(s)' # {} => /\ sched'[s].inFlight = sched[s].inFlight
                            /\ \A v \in Attn : slots'[v][s] = slots[v][s]
    <3>1. Unheard(s)' # {} => b.count # NumAttn
      BY <1>13, <1>20
    <3>2. b.count # NumAttn => ~sched'[s].inFlight
      BY <1>17
    <3>3. sched'[s].inFlight \in BOOLEAN
      BY <1>3, <1>17 DEF Sched
    <3>4. sched[s].inFlight = FALSE
      BY <1>6, <1>7 DEF Sched
    <3>. QED  BY <1>1, <3>1, <3>2, <3>3, <3>4
  <2>4. \A t \in Slots \ {s} : /\ sched'[t] = sched[t]
                               /\ Moved(InFlightTasks(t), InFlightTasks(t)')
                               /\ \A v \in Attn : slots'[v][t] = slots[v][t]
    BY <1>1, <1>16, <1>17
  <2>5. \A v \in Attn, t \in Slots :
          /\ slots'[v][t].members = slots[v][t].members
          /\ slots'[v][t].joining = slots[v][t].joining
          /\ LayersDone(slots'[v][t]) <=> LayersDone(slots[v][t])
          /\ slots'[v][t].state = "Compute" => slots[v][t].state = "Compute"
    BY <1>1
  <2>. QED  BY <1>1, <1>2, <2>1, <2>2, <2>3, <2>4, <2>5 DEF Aggregates
<1>. QED  BY <1>1, <1>21, <1>22, AggregatesKeeps

\* The controller hears that a worker has computed a layer.
LEMMA OnLayerOutputKeeps ==
    ASSUME IInv, OnLayerOutput
    PROVE  IInv' /\ Steps
<1>0. PICK e, w, s : e = Head(tick.events) /\ w = e.worker /\ s = e.slot
  OBVIOUS
<1>1. /\ Aggregating /\ e.layer # Start /\ tick' = [tick EXCEPT !.events = Tail(@)]
      /\ UNCHANGED << arrived, kv, queue, home, timers, emitted, done >>
  BY <1>0 DEF OnLayerOutput
<1>2. HeardOne(e, w, s)
  BY <1>0, <1>1, FirstHeard
<1>3. /\ w \in Attn /\ s \in Slots /\ w \in Unheard(s) /\ Unheard(s)' = Unheard(s) \ {w}
      /\ tick.stage = "attn" /\ tick'.stage = "attn" /\ tick'.due = {}
      /\ tick'.events \in Seq(Reports)
      /\ tick' \in [stage : {"between", "ffn", "attn"}, due : SUBSET (Attn \cup Ffn),
                    driving : BOOLEAN, events : Seq(FfnEvents) \cup Seq(Reports)]
  BY <1>2 DEF HeardOne
<1>4. /\ slots \in [Attn -> [Slots -> Cell]] /\ sched \in [Slots -> Sched]
      /\ \A t \in Slots : IsView(View(t))
  BY Types DEF IInv
<1>5. PICK c \in Cell : c = slots[w][s]
  BY <1>3, <1>4
<1>6. PICK d \in Sched : d = sched[s]
  BY <1>3, <1>4
<1>7. /\ d.inFlight /\ c.state = "AwaitFlush" /\ e.layer = c.layer /\ e.reqs = c.members
      /\ c.layer \in 0 .. Last /\ c.members \subseteq Requests
  <2>1. /\ e.reqs = c.members
        /\ IF d.inFlight THEN e.layer = c.layer /\ c.state = "AwaitFlush"
           ELSE e.layer = Start /\ c.announced
    BY <1>2, <1>5, <1>6 DEF HeardOne
  <2>2. c.layer \in 0 .. Last /\ c.members \subseteq Requests
    BY DEF Cell
  <2>. QED  BY <1>1, <2>1, <2>2
<1>8. PICK layer : layer = c.layer
  OBVIOUS
<1>9. PICK b : b = [layer    |-> IF d.barrier.count = 0 THEN layer ELSE d.barrier.layer,
                    count    |-> d.barrier.count + 1,
                    reqs     |-> d.barrier.reqs \cup e.reqs,
                    weighted |-> d.barrier.weighted \cup IF e.reqs = {} THEN {} ELSE {w}]
  OBVIOUS
<1>10. /\ b \in [layer : 0 .. Last, count : Nat, reqs : SUBSET Requests, weighted : SUBSET Attn]
       /\ b.count = d.barrier.count + 1 /\ b.reqs = d.barrier.reqs \cup c.members
       /\ b.reqs \subseteq Requests /\ b.weighted \subseteq Attn
  <2>1. /\ d.barrier.count \in Nat /\ d.barrier.reqs \subseteq Requests
        /\ d.barrier.layer \in 0 .. Last /\ d.barrier.weighted \subseteq Attn
    BY DEF Sched
  <2>2. (d.barrier.weighted \cup IF e.reqs = {} THEN {} ELSE {w}) \subseteq Attn
    BY <1>3, <2>1
  <2>. QED  BY <1>7, <1>8, <1>9, <2>1, <2>2
<1>11. PICK task : task = [slot |-> s, layer |-> layer, reqs |-> b.reqs]
  OBVIOUS
<1>12. task \in Tasks /\ task.slot = s /\ task.layer = layer /\ task.reqs = b.reqs
  <2>1. layer \in Start .. Last
    BY <1>7, <1>8, Universe
  <2>. QED  BY <1>3, <1>10, <1>11, <2>1 DEF Tasks
<1>13. \/ /\ b.count # NumAttn /\ sched' = [sched EXCEPT ![s].barrier = b]
          /\ UNCHANGED << slots, wake, ffn, next >>
       \/ /\ b.count = NumAttn
          /\ sched' = [sched EXCEPT ![s] =
                [sched[s] EXCEPT !.barrier = EmptyBarrier, !.share = b.weighted]]
          /\ Submit(task)
          /\ IF layer = Last THEN UNCHANGED << slots, wake >>
             ELSE slots' = Flushed(slots, s, layer) /\ wake' = AllWoken
  BY <1>0, <1>6, <1>7, <1>8, <1>9, <1>11, Zenon DEF OnLayerOutput, BarrierOpens
<1> DEFINE x == View(s)
           y == View(s)'
<1>14. /\ x.sched = d /\ y.sched = sched'[s] /\ x.tasks = InFlightTasks(s)
       /\ y.tasks = InFlightTasks(s)' /\ x.unheard = Unheard(s) /\ y.unheard = Unheard(s)'
       /\ slots' = slots => y.cells = x.cells
       /\ x.cells[w] = c
       /\ \A v \in Attn : x.cells[v] = slots[v][s] /\ y.cells[v] = slots'[v][s]
  BY <1>1, <1>3, <1>5, <1>6 DEF View
<1>15. LockstepOf(x, done) /\ IsView(x) /\ BatchOf(x, Attn) \cap done = {}
  BY <1>3, <1>4, MembersInService DEF IInv, Lockstep
<1> HIDE DEF x, y
<1>16. InFlightTasks(s) = {} /\ \A v \in Attn : slots[v][s].layer = layer
  <2>1. w \in x.unheard /\ x.unheard \subseteq Attn /\ x.sched.inFlight
    BY <1>3, <1>7, <1>14, <1>15 DEF IsView
  <2>2. x.tasks = {} /\ \A v \in Attn : InLayer(x.cells[v], x.cells[w].layer)
    BY <1>15, <2>1, ReportsLayer
  <2>. QED  BY <1>8, <1>14, <2>2 DEF InLayer
<1>17. /\ \A t \in Slots : t # s => Moved(InFlightTasks(t), InFlightTasks(t)')
       /\ \/ /\ b.count # NumAttn /\ InFlightTasks(s)' = InFlightTasks(s)
             /\ Moved(InFlightTasks(s), InFlightTasks(s)')
          \/ b.count = NumAttn /\ TaskAdded(s, layer, b.reqs)
       /\ next' \in Ffn
       /\ ffn' \in [Ffn ->
             [incoming : Seq(Tasks), pulling : Tasks \cup {NoTask},
              computing : Tasks \cup {NoTask}, ended : SUBSET Timed, wake : Wakes]]
  <2>1. CASE b.count # NumAttn
    <3>1. \A t \in Slots : /\ InFlightTasks(t)' = InFlightTasks(t)
                           /\ Moved(InFlightTasks(t), InFlightTasks(t)')
      BY <1>3, <1>13, <2>1, SameFlight
    <3>2. ffn' = ffn /\ next' = next
      BY <1>13, <2>1
    <3>. QED  BY <1>3, <2>1, <3>1, <3>2 DEF IInv, TypeOK
  <2>2. CASE b.count = NumAttn
    <3>1. Submit(task)
      BY <1>13, <2>2
    <3>2. /\ ffn' \in [Ffn ->
                [incoming : Seq(Tasks), pulling : Tasks \cup {NoTask},
                 computing : Tasks \cup {NoTask}, ended : SUBSET Timed, wake : Wakes]]
          /\ next' \in Ffn
          /\ \A t \in Slots : t # task.slot => Moved(InFlightTasks(t), InFlightTasks(t)')
          /\ InFlightTasks(task.slot) = {} => TaskAdded(task.slot, task.layer, task.reqs)
      BY <1>3, <1>12, <3>1, SubmitIs
    <3>3. TaskAdded(s, layer, b.reqs)
      BY <1>12, <1>16, <3>2
    <3>. QED  BY <1>12, <2>2, <3>2, <3>3
  <2>. QED  BY <2>1, <2>2
<1>18. /\ sched' \in [Slots -> Sched] /\ \A t \in Slots \ {s} : sched'[t] = sched[t]
       /\ sched'[s].inFlight = d.inFlight /\ sched'[s].start = d.start
       /\ IF b.count = NumAttn THEN sched'[s].barrier = EmptyBarrier
          ELSE sched'[s].barrier = b
  <2>1. PICK g : g = IF b.count # NumAttn THEN [d EXCEPT !.barrier = b]
                     ELSE [d EXCEPT !.barrier = EmptyBarrier, !.share = b.weighted]
    OBVIOUS
  <2>2. sched' = [sched EXCEPT ![s] = g]
    <3>1. CASE b.count # NumAttn
      <4>1. sched' = [sched EXCEPT ![s].barrier = b]
        BY <1>13, <3>1
      <4>. QED  BY <1>6, <2>1, <3>1, <4>1
    <3>2. CASE b.count = NumAttn
      <4>1. sched' = [sched EXCEPT ![s] = [d EXCEPT !.barrier = EmptyBarrier,
                                                    !.share = b.weighted]]
        BY <1>6, <1>13, <3>2
      <4>. QED  BY <2>1, <3>2, <4>1
    <3>. QED  BY <3>1, <3>2
  <2>3. EmptyBarrier \in [layer : 0 .. Last, count : Nat, reqs : SUBSET Requests,
                          weighted : SUBSET Attn]
    BY Universe DEF EmptyBarrier
  <2>4. /\ g \in Sched /\ g.inFlight = d.inFlight /\ g.start = d.start
        /\ IF b.count = NumAttn THEN g.barrier = EmptyBarrier ELSE g.barrier = b
    <3>1. CASE b.count # NumAttn
      BY <1>10, <2>1, <3>1 DEF Sched
    <3>2. CASE b.count = NumAttn
      BY <1>10, <2>1, <2>3, <3>2 DEF Sched
    <3>. QED  BY <3>1, <3>2
  <2>5. sched'[s] = g /\ sched' \in [Slots -> Sched] /\ \A t \in Slots \ {s} : sched'[t] = sched[t]
    BY <1>3, <1>4, <2>2, <2>4
  <2>. QED  BY <2>4, <2>5
<1>19. /\ slots' \in [Attn -> [Slots -> Cell]] /\ wake' \in [Attn -> Wakes]
       /\ \A v \in Attn, t \in Slots :
             /\ slots'[v][t].members = slots[v][t].members
             /\ slots'[v][t].joining = slots[v][t].joining
             /\ t # s => slots'[v][t] = slots[v][t]
       /\ b.count # NumAttn \/ layer = Last => slots' = slots
       /\ b.count = NumAttn /\ layer # Last =>
             \A v \in Attn : slots'[v][s] =
                 IF slots[v][s].state = "AwaitFlush" /\ slots[v][s].layer = layer
                 THEN NextLayer(slots[v][s]) ELSE slots[v][s]
  <2>0. wake \in [Attn -> Wakes]
    BY DEF IInv, TypeOK
  <2>1. CASE b.count # NumAttn \/ layer = Last
    <3>1. slots' = slots /\ wake' = wake
      BY <1>13, <2>1
    <3>. QED  BY <1>4, <2>0, <2>1, <3>1
  <2>2. CASE b.count = NumAttn /\ layer # Last
    <3>1. slots' = Flushed(slots, s, layer) /\ wake' = AllWoken
      BY <1>13, <2>2
    <3>2. wake' \in [Attn -> Wakes]
      BY <2>0, <3>1 DEF AllWoken, Woken, Wakes
    <3>3. /\ slots' \in [Attn -> [Slots -> Cell]]
          /\ \A v \in Attn, t \in Slots :
                /\ slots'[v][t].members = slots[v][t].members
                /\ slots'[v][t].joining = slots[v][t].joining
                /\ t # s => slots'[v][t] = slots[v][t]
          /\ \A v \in Attn :
                slots'[v][s] = IF slots[v][s].state = "AwaitFlush" /\ slots[v][s].layer = layer
                               THEN NextLayer(slots[v][s]) ELSE slots[v][s]
      BY <1>3, <1>4, <3>1, FlushedIs
    <3>. QED  BY <2>2, <3>2, <3>3
  <2>. QED  BY <2>1, <2>2
<1>20. ASSUME b.count = NumAttn, layer # Last, NEW v \in Attn,
              slots[v][s].state = "AwaitFlush", slots[v][s].layer = layer
       PROVE  FlushedCell(slots[v][s], slots'[v][s])
  <2>1. slots[v][s] \in Cell /\ slots'[v][s] = NextLayer(slots[v][s])
    BY <1>3, <1>4, <1>19, <1>20
  <2>. QED  BY <1>20, <2>1, NextLayerIs DEF FlushedCell
<1>21. \/ /\ b.count # NumAttn /\ y.tasks = x.tasks /\ y.cells = x.cells
          /\ y.sched.barrier.count = b.count /\ y.sched.barrier.reqs = b.reqs
       \/ /\ b.count = NumAttn /\ y.sched.barrier = EmptyBarrier
          /\ IF layer = Last THEN y.cells = x.cells
             ELSE \A v \in Attn :
                    (x.cells[v].state = "AwaitFlush" /\ x.cells[v].layer = layer)
                        => FlushedCell(x.cells[v], y.cells[v])
          /\ \E p : y.tasks = {p} /\ p.task.layer = layer /\ p.task.reqs = b.reqs
  <2>1. CASE b.count # NumAttn
    BY <1>14, <1>17, <1>18, <1>19, <2>1
  <2>2. CASE b.count = NumAttn
    <3>1. \E p : y.tasks = {p} /\ p.task.layer = layer /\ p.task.reqs = b.reqs
      BY <1>14, <1>17, <2>2 DEF TaskAdded
    <3>2. layer = Last => y.cells = x.cells
      BY <1>14, <1>19
    <3>3. layer # Last => \A v \in Attn :
             (x.cells[v].state = "AwaitFlush" /\ x.cells[v].layer = layer)
                 => FlushedCell(x.cells[v], y.cells[v])
      BY <1>14, <1>20, <2>2
    <3>. QED  BY <1>14, <1>18, <2>2, <3>1, <3>2, <3>3
  <2>. QED  BY <2>1, <2>2
<1>22. /\ x.sched.inFlight /\ w \in x.unheard /\ x.cells[w].state = "AwaitFlush"
       /\ layer = x.cells[w].layer /\ y.unheard = x.unheard \ {w}
       /\ b.count = x.sched.barrier.count + 1
       /\ b.reqs = x.sched.barrier.reqs \cup x.cells[w].members
       /\ y.sched.inFlight /\ y.sched.start = x.sched.start
  BY <1>3, <1>7, <1>8, <1>10, <1>14, <1>18
<1>23. /\ LockstepOf(y, done) /\ Hears(x, y) /\ (b.count = NumAttn => y.unheard = {})
       /\ b.reqs \subseteq BatchOf(x, Attn)
  BY <1>15, <1>21, <1>22, HeardLayer, ZenonT(30)
<1>24. TypeOK'
  BY <1>1, <1>3, <1>17, <1>18, <1>19 DEF IInv, TypeOK, Sched, Cell
<1>25. ASSUME NEW v \in Attn, NEW t \in Slots
       PROVE  /\ LayersDone(slots'[v][t]) <=> LayersDone(slots[v][t])
              /\ slots'[v][t].state = "Compute" => slots[v][t].state = "Compute"
  <2>1. CASE slots'[v][t] = slots[v][t]
    BY <2>1
  <2>2. CASE slots'[v][t] # slots[v][t]
    <3>1. t = s /\ b.count = NumAttn /\ layer # Last
      BY <1>19, <2>2
    <3>2. slots[v][s].layer = layer /\ slots[v][s] \in Cell
      BY <1>3, <1>4, <1>16
    <3>3. slots'[v][s] = NextLayer(slots[v][s])
      BY <1>19, <2>2, <3>1
    <3>4. slots'[v][s].state = "Wait"
      BY <3>2, <3>3, NextLayerIs
    <3>. QED  BY <3>1, <3>2, <3>4 DEF LayersDone
  <2>. QED  BY <2>1, <2>2
<1>26. Aggregates(e, w, s, layer, b.reqs)
  <2>1. LockstepOf(View(s), done)' /\ Hears(View(s), View(s)')
    BY <1>1, <1>23 DEF x, y
  <2>2. \/ Moved(InFlightTasks(s), InFlightTasks(s)')
        \/ TaskAdded(s, layer, b.reqs) /\ b.reqs \cap done = {}
    BY <1>15, <1>17, <1>23
  <2>3. Unheard(s)' # {} => /\ sched'[s].inFlight = sched[s].inFlight
                            /\ \A v \in Attn : slots'[v][s] = slots[v][s]
    <3>1. Unheard(s)' # {} => b.count # NumAttn
      BY <1>14, <1>23
    <3>. QED  BY <1>6, <1>18, <1>19, <3>1
  <2>4. \A t \in Slots \ {s} : /\ sched'[t] = sched[t]
                               /\ Moved(InFlightTasks(t), InFlightTasks(t)')
                               /\ \A v \in Attn : slots'[v][t] = slots[v][t]
    BY <1>17, <1>18, <1>19
  <2>5. \A v \in Attn, t \in Slots :
          /\ slots'[v][t].members = slots[v][t].members
          /\ slots'[v][t].joining = slots[v][t].joining
          /\ LayersDone(slots'[v][t]) <=> LayersDone(slots[v][t])
          /\ slots'[v][t].state = "Compute" => slots[v][t].state = "Compute"
    BY <1>19, <1>25
  <2>. QED  BY <1>1, <1>2, <2>1, <2>2, <2>3, <2>4, <2>5 DEF Aggregates
<1>. QED  BY <1>1, <1>24, <1>26, AggregatesKeeps, SMTT(30)

-----------------------------------------------------------------------------
(* The theorems.                                                            *)

\* Every step of the flow keeps the invariant, and moves the barriers as allowed.
LEMMA NextKeeps ==
    ASSUME IInv, [Next]_vars
    PROVE  IInv' /\ Steps
<1>1. ASSUME NEW r \in Requests, OnArrival(r) PROVE IInv' /\ Steps
  BY <1>1, OnArrivalKeeps
<1>2. ASSUME NEW E \in SUBSET Running, BeginTick(E) PROVE IInv' /\ Steps
  BY <1>2, BeginTickKeeps
<1>3. ASSUME NEW f \in Ffn, FfnPass(f) PROVE IInv' /\ Steps
  BY <1>3, FfnPassKeeps
<1>4. ASSUME NEW f \in Ffn, FfnRest(f) PROVE IInv' /\ Steps
  BY <1>4, FfnRestKeeps
<1>5. CASE Scatter
  BY <1>5, ScatterKeeps
<1>6. ASSUME NEW r \in Requests, ReleaseDone(r) PROVE IInv' /\ Steps
  BY <1>6, ReleaseDoneKeeps
<1>7. CASE FinishIteration
  BY <1>7, FinishIterationKeeps
<1>8. CASE BeginAttn
  BY <1>8, BeginAttnKeeps
<1>9. ASSUME NEW w \in Attn, NEW r \in Requests, AdmitHead(w, r) PROVE IInv' /\ Steps
  BY <1>9, AdmitHeadKeeps
<1>10. ASSUME NEW w \in Attn, DrivePass(w) PROVE IInv' /\ Steps
  BY <1>10, DrivePassKeeps
<1>11. ASSUME NEW w \in Attn, AttnRest(w) PROVE IInv' /\ Steps
  BY <1>11, AttnRestKeeps
<1>12. CASE OnIterStart
  BY <1>12, OnIterStartKeeps
<1>13. CASE OnLayerOutput
  BY <1>13, OnLayerOutputKeeps
<1>14. CASE EndTick
  BY <1>14, EndTickKeeps
<1>15. CASE UNCHANGED vars
  BY <1>15, StutterKeeps
<1>. QED
  BY <1>1, <1>2, <1>3, <1>4, <1>5, <1>6, <1>7, <1>8, <1>9, <1>10, <1>11, <1>12, <1>13,
     <1>14, <1>15 DEF Next, FlowStep

\* The inductive invariant holds: the lockstep of every slot, the truth of every report,
\* the place and the tokens of every request.
THEOREM Invariance == Spec => []IInv
<1>1. Init => IInv
  BY FirstInv
<1>2. IInv /\ [Next]_vars => IInv'
  BY NextKeeps
<1>. QED  BY <1>1, <1>2, PTL DEF Spec

\* Type correctness of AfdFlow, its controller and both pools.
THEOREM TypeCorrect == Spec => []TypeOK
<1>1. IInv => TypeOK
  BY DEF IInv
<1>. QED  BY <1>1, Invariance, PTL

\* on_msg_ready_notification and on_msg_slot_flushed never drop a message: a slot
\* has one task at most, all workers are where its result expects them, and nobody
\* joined or left the slot since the task's batch was collected.
THEOREM NothingDropped == Spec => []NoneDropped
<1>1. ASSUME IInv, NEW s \in Slots
      PROVE  /\ Cardinality(InFlightTasks(s)) <= 1
             /\ \A p \in InFlightTasks(s) :
                   /\ sched[s].inFlight
                   /\ \A w \in Attn :
                         IF p.task.layer = Last
                         THEN slots[w][s].state = "AwaitFlush" /\ slots[w][s].layer = Last
                         ELSE /\ Accepts(slots[w][s], p.task.layer + 1)
                              /\ ~slots[w][s].notified
                   /\ MembersOf(s) = p.task.reqs \ done
  <2>1. CASE InFlightTasks(s) = {}
    BY <2>1, FS_EmptySet
  <2>2. ASSUME NEW p \in InFlightTasks(s)
        PROVE  /\ sched[s].inFlight
               /\ \A w \in Attn :
                     IF p.task.layer = Last
                     THEN slots[w][s].state = "AwaitFlush" /\ slots[w][s].layer = Last
                     ELSE /\ Accepts(slots[w][s], p.task.layer + 1)
                          /\ ~slots[w][s].notified
               /\ MembersOf(s) = p.task.reqs \ done
    <3>1. /\ sched[s].inFlight
          /\ \A w \in Attn : /\ Expects(slots[w][s], p.task.layer)
                             /\ slots[w][s].members \subseteq p.task.reqs \ done
          /\ \A r \in p.task.reqs \ done : \E w \in Attn : r \in slots[w][s].members
      BY <1>1, Served
    <3>. QED  BY <3>1 DEF Expects, Accepts, MembersOf
  <2>3. ASSUME NEW p \in InFlightTasks(s) PROVE Cardinality(InFlightTasks(s)) <= 1
    <3>1. InFlightTasks(s) = {p}
      BY <1>1, Served
    <3>2. Cardinality({p}) = 1
      BY FS_Singleton
    <3>. QED  BY <3>1, <3>2
  <2>. QED  BY <2>1, <2>2, <2>3
<1>2. IInv => NoneDropped
  BY <1>1 DEF NoneDropped
<1>. QED  BY <1>2, Invariance, PTL

\* A request waits in one queue or sits in one slot of the worker it is pinned to,
\* where its KV is; its store and its record differ by a token exactly from the end
\* of the last layer to the Terminal (admit_next_batch, complete_layer and
\* finish_iteration).
THEOREM OnePlaceEach == Spec => []OnePlace
<1>1. ASSUME IInv, NEW r \in Requests
      PROVE  LET places == { p \in Attn \X Slots :
                                r \in slots[p[1]][p[2]].members \cup slots[p[1]][p[2]].joining }
                 queues == { w \in Attn : r \in queue[w] }
             IN  /\ Cardinality(places) + Cardinality(queues)
                      = IF r \in Arrived \ done THEN 1 ELSE 0
                 /\ \A w \in Attn :
                       /\ (w \in queues \/ \E s \in Slots : << w, s >> \in places)
                             => home[r] = w
                       /\ (\E s \in Slots : << w, s >> \in places)
                             <=> kv[w].placement[r] = 0
  <2> DEFINE places == { p \in Attn \X Slots :
                            r \in slots[p[1]][p[2]].members \cup slots[p[1]][p[2]].joining }
             queues == { w \in Attn : r \in queue[w] }
  <2>1. \A w \in Attn, s \in Slots : << w, s >> \in places <=> r \in Seated(w, s)
    BY DEF Seated
  <2>2. \A p \in places : \E w \in Attn, s \in Slots : p = << w, s >> /\ r \in Seated(w, s)
    BY DEF Seated
  <2>3. \A w \in Attn, v \in Attn, s \in Slots, t \in Slots :
           (r \in Seated(w, s) /\ r \in Seated(v, t)) => w = v /\ s = t
    BY <1>1, SeatsApart DEF IInv
  <2>4. \A w \in Attn : w \in queues <=> r \in queue[w]
    OBVIOUS
  <2>5. \A w \in Attn : r \in queue[w] =>
           r \in InService /\ home[r] = w /\ \A s \in Slots : r \notin Seated(w, s)
    BY <1>1 DEF IInv, Places
  <2>6. \A w \in Attn, s \in Slots : r \in Seated(w, s) => r \in InService /\ home[r] = w
    BY <1>1 DEF IInv, Places
  <2> HIDE DEF places
  <2>7. Cardinality(places) + Cardinality(queues) = IF r \in InService THEN 1 ELSE 0
    <3>1. Cardinality({}) = 0 /\ \A x : Cardinality({x}) = 1
      BY FS_EmptySet, FS_Singleton
    <3>2. CASE \E w \in Attn : r \in queue[w]
      <4>1. PICK w \in Attn : r \in queue[w]
        BY <3>2
      <4>2. r \in InService /\ home[r] = w
        BY <2>5, <4>1
      <4>3. queues = {w}
        BY <2>4, <2>5, <4>1, <4>2
      <4>4. places = {}
        BY <2>2, <2>5, <2>6, <4>1, <4>2
      <4>5. Cardinality(places) = 0 /\ Cardinality(queues) = 1
        <5> HIDE DEF queues
        <5>. QED  BY <3>1, <4>3, <4>4, Zenon
      <4> HIDE DEF queues
      <4>. QED  BY <4>2, <4>5
    <3>3. CASE \E w \in Attn, s \in Slots : r \in Seated(w, s)
      <4>1. PICK w \in Attn, s \in Slots : r \in Seated(w, s)
        BY <3>3
      <4>2. r \in InService /\ home[r] = w
        BY <2>6, <4>1
      <4>3. queues = {}
        BY <2>4, <2>5, <4>1, <4>2
      <4>4. places = {<< w, s >>}
        BY <2>1, <2>2, <2>3, <4>1
      <4>5. Cardinality(places) = 1 /\ Cardinality(queues) = 0
        <5> HIDE DEF queues
        <5>. QED  BY <3>1, <4>3, <4>4, Zenon
      <4> HIDE DEF queues
      <4>. QED  BY <4>2, <4>5
    <3>4. CASE ~(\E w \in Attn : r \in queue[w])
               /\ ~(\E w \in Attn, s \in Slots : r \in Seated(w, s))
      <4>1. r \notin InService
        BY <1>1, <3>4 DEF IInv, Places
      <4>2. queues = {} /\ places = {}
        BY <2>2, <2>4, <3>4
      <4>. QED  BY <3>1, <4>1, <4>2
    <3>. QED  BY <3>2, <3>3, <3>4
  <2>8. \A w \in Attn : (w \in queues \/ \E s \in Slots : << w, s >> \in places) => home[r] = w
    BY <2>1, <2>4, <2>5, <2>6
  <2>9. \A w \in Attn : (\E s \in Slots : << w, s >> \in places) <=> kv[w].placement[r] = 0
    BY <1>1, <2>1 DEF IInv, StoresAgree
  <2> HIDE DEF queues
  <2>. QED  BY <2>7, <2>8, <2>9 DEF places, queues, InService
<1>2. ASSUME IInv, NEW w \in Attn, NEW s \in Slots, NEW r \in slots[w][s].members
      PROVE  LET st == kv[w]
                 left == Target[r] - emitted[r]
                 computed == slots[w][s].layer = Last /\ slots[w][s].state = "AwaitFlush"
             IN  IF r \notin st.decodes[0]
                 THEN emitted[r] = 0 /\ st.promised[r] = FootprintOf(r)
                 ELSE /\ st.context[r] + st.remaining[r] = ContextOf(r) + Target[r]
                      /\ st.remaining[r] - left \in {0, 1}
                      /\ ~computed => st.remaining[r] = left + 1
  <2>1. MemberAgrees(kv[w], r, emitted[r], LayersDone(slots[w][s]), Delivered(s))
    BY <1>2 DEF IInv, TokensAgree
  <2>2. r \in Requests /\ emitted[r] \in Nat /\ Target[r] \in Nat
    <3>1. r \in Requests
      <4>1. slots[w][s] \in Cell
        BY <1>2, Types DEF IInv
      <4>. QED  BY <1>2, <4>1 DEF Cell
    <3>. QED  BY <1>2, <3>1, WorkloadAssumption DEF IInv, TypeOK
  <2>3. PICK left : left = Target[r] - emitted[r] /\ left \in Int
    BY <2>2
  <2>4. CASE r \notin kv[w].decodes[0]
    BY <2>1, <2>4 DEF MemberAgrees
  <2>5. CASE r \in kv[w].decodes[0]
    <3>1. /\ kv[w].context[r] + kv[w].remaining[r] = ContextOf(r) + Target[r]
          /\ kv[w].remaining[r]
                = left + (IF LayersDone(slots[w][s]) /\ ~Delivered(s) THEN 0 ELSE 1)
      BY <2>1, <2>3, <2>5 DEF MemberAgrees
    <3>2. kv[w].remaining[r] - left \in {0, 1}
          /\ (~LayersDone(slots[w][s]) => kv[w].remaining[r] = left + 1)
      BY <2>3, <3>1
    <3>. QED  BY <2>3, <2>5, <3>1, <3>2 DEF LayersDone
  <2>. QED  BY <2>4, <2>5
<1>3. IInv => OnePlace
  BY <1>1, <1>2 DEF OnePlace
<1>. QED  BY <1>3, Invariance, PTL

\* The layer of the task there is.
LayerOfOne(T) == (CHOOSE p \in T : TRUE).task.layer

\* The layer collected, by the tasks of the slot.
LEMMA CollectedLayer ==
    /\ \A x : CollectedOf(x) = IF x.tasks # {} THEN LayerOfOne(x.tasks)
                              ELSE IF x.sched.inFlight THEN x.cells[0].layer ELSE Start
    /\ \A s : Collected(s) = IF InFlightTasks(s) # {} THEN LayerOfOne(InFlightTasks(s))
                            ELSE IF sched[s].inFlight THEN slots[0][s].layer ELSE Start
    /\ \A s : Collected(s)' = IF InFlightTasks(s)' # {} THEN LayerOfOne(InFlightTasks(s)')
                             ELSE IF sched'[s].inFlight THEN slots'[0][s].layer ELSE Start
BY DEF CollectedOf, Collected, LayerOfOne

\* The barrier of a slot is read off its view.
LEMMA BarrierView ==
    ASSUME NEW s \in Slots
    PROVE  Collected(s) = CollectedOf(View(s)) /\ HeardOf(s) = HeardIn(View(s))
<1>1. /\ View(s).sched = sched[s] /\ View(s).unheard = Unheard(s)
      /\ View(s).tasks = InFlightTasks(s)
      /\ \A w \in Attn : View(s).cells[w] = slots[w][s]
  BY DEF View
<1>3. Collected(s) = CollectedOf(View(s))
  <2>1. View(s).cells[0] = slots[0][s]
    BY <1>1, Universe
  <2>. QED  BY <1>1, <2>1, CollectedLayer
<1>4. HeardOf(s) = HeardIn(View(s))
  BY <1>1 DEF HeardOf, HeardIn, Computed, Announced
<1>. QED  BY <1>3, <1>4

\* And so in the next state.
LEMMA NextBarrierView ==
    ASSUME NEW s \in Slots
    PROVE  Collected(s)' = CollectedOf(View(s)') /\ HeardOf(s)' = HeardIn(View(s)')
<1>1. /\ View(s)'.sched = sched'[s] /\ View(s)'.unheard = Unheard(s)'
      /\ View(s)'.tasks = InFlightTasks(s)'
      /\ \A w \in Attn : View(s)'.cells[w] = slots'[w][s]
  BY NextView
<1>3. Collected(s)' = CollectedOf(View(s)')
  <2>1. View(s)'.cells[0] = slots'[0][s]
    BY <1>1, Universe
  <2>. QED  BY <1>1, <2>1, CollectedLayer
<1>4. HeardOf(s)' = HeardIn(View(s)')
  BY <1>1 DEF HeardOf, HeardIn, Computed, Announced
<1>. QED  BY <1>3, <1>4

\* What the lockstep allows of a slot, LayerBarrier allows of its barrier.
LEMMA BarrierMoves ==
    ASSUME NEW s \in Slots, BarrierStep(View(s), View(s)')
    PROVE  Barrier(s)!Next \/ UNCHANGED Barrier(s)!vars
<1>1. /\ Collected(s) = CollectedOf(View(s)) /\ HeardOf(s) = HeardIn(View(s))
      /\ Collected(s)' = CollectedOf(View(s)') /\ HeardOf(s)' = HeardIn(View(s)')
  BY BarrierView, NextBarrierView
<1>2. View(s).tasks = InFlightTasks(s) /\ View(s)'.tasks = InFlightTasks(s)'
  BY NextView DEF View
<1>3. CASE SameBarrier(View(s), View(s)')
  <2>1. /\ Collected(s)' = Collected(s) /\ HeardOf(s)' = HeardOf(s)
        /\ (InFlightTasks(s)' # {}) = (InFlightTasks(s) # {})
    BY <1>1, <1>2, <1>3 DEF SameBarrier
  <2>. QED  BY <2>1 DEF Barrier!vars
<1>4. CASE Hears(View(s), View(s)')
  <2>1. PICK w \in Attn : w \notin HeardOf(s) /\ HeardOf(s)' = HeardOf(s) \cup {w}
    BY <1>1, <1>4 DEF Hears
  <2>2. /\ InFlightTasks(s) = {} /\ (InFlightTasks(s)' # {}) = (HeardOf(s)' = Attn)
        /\ Collected(s)' = Collected(s)
    BY <1>1, <1>2, <1>4 DEF Hears
  <2>3. Barrier(s)!Hear(w)
    BY <2>1, <2>2 DEF Barrier!Hear
  <2>. QED  BY <2>3 DEF Barrier!Next
<1>5. CASE Finishes(View(s), View(s)')
  <2>1. /\ InFlightTasks(s) # {} /\ InFlightTasks(s)' = {} /\ HeardOf(s)' = {}
        /\ Collected(s)' = IF Collected(s) = Last THEN Start ELSE Collected(s) + 1
    BY <1>1, <1>2, <1>5 DEF Finishes
  <2>2. Barrier(s)!Finish
    BY <2>1 DEF Barrier!Finish, Last, Start
  <2>. QED  BY <2>2 DEF Barrier!Next
<1>. QED  BY <1>3, <1>4, <1>5 DEF BarrierStep

\* The barriers of every slot are those of LayerBarrier: whoever reports is counted
\* once, the last of the workers makes the layer's task, and only its result
\* starts the next layer (on_iter_start, on_layer_output, scatter).
THEOREM BarriersKept == Spec => KeepsBarriers
<1>1. Init => \A s \in Slots : Barrier(s)!Init
  BY FirstInv
<1>2. IInv /\ [Next]_vars =>
         [\A s \in Slots : Barrier(s)!Next \/ UNCHANGED Barrier(s)!vars]_vars
  <2>. SUFFICES ASSUME IInv, [Next]_vars, NEW s \in Slots
                PROVE  Barrier(s)!Next \/ UNCHANGED Barrier(s)!vars
    OBVIOUS
  <2>1. BarrierStep(View(s), View(s)')
    BY NextKeeps DEF Steps
  <2>. QED  BY <2>1, BarrierMoves
<1>. QED  BY <1>1, <1>2, Invariance, PTL DEF Spec, KeepsBarriers

\* A request that a Terminal gives a token is in service and lacks one.
LEMMA TerminalLacks ==
    ASSUME IInv, NEW f \in Ffn, NEW task, task = ffn[f].computing, task \in Tasks,
           task.layer = Last, tick.stage = "ffn", NEW r \in task.reqs
    PROVE  r \in InService /\ emitted[r] < Target[r]
<1>1. /\ task.slot \in Slots
      /\ \A w \in Attn : Expects(slots[w][task.slot], Last)
      /\ \A i \in 1 .. Len(tick.events) : tick.events[i].slot # task.slot
  BY TerminalIs
<1>2. PICK w \in Attn : r \in slots[w][task.slot].members
  BY TerminalIs
<1>3. r \in InService
  BY <1>1, <1>2 DEF IInv, Places, Seated
<1>4. ~Delivered(task.slot)
  BY <1>1 DEF Delivered
<1>5. LayersDone(slots[w][task.slot])
  BY <1>1 DEF Expects, LayersDone
<1>6. MemberAgrees(kv[w], r, emitted[r], LayersDone(slots[w][task.slot]), Delivered(task.slot))
  BY <1>1, <1>2 DEF IInv, TokensAgree
<1>7. emitted[r] < Target[r]
  BY <1>4, <1>5, <1>6 DEF MemberAgrees
<1>. QED  BY <1>3, <1>7

\* The flow implements the safety part of the contract: no request gets a token more
\* than it asked for, and each is reported once, when it has all of them
\* (complete_task and finish_iteration).
THEOREM SafeContract == Spec => Contract!SafeSpec
<1>1. Init => Contract!Init
  BY DEF Init, Contract!Init, Arrived
<1>2. IInv /\ [Next]_vars => [Contract!Next]_(Contract!vars)
  <2>. SUFFICES ASSUME IInv, [Next]_vars PROVE [Contract!Next]_(Contract!vars)
    OBVIOUS
  <2>0. /\ emitted \in [Requests -> Nat] /\ Target \in [Requests -> Nat]
        /\ Arrived \in SUBSET Requests /\ done \in SUBSET Arrived /\ InService = Contract!InService
    BY WorkloadAssumption DEF IInv, TypeOK, Places, Arrived, InService, Contract!InService
  <2>1. ASSUME NEW r \in Requests, OnArrival(r) PROVE Contract!Release(r)
    <3>1. arrived \in Seq(Requests) /\ arrived' = Append(arrived, r)
      BY <2>1 DEF IInv, TypeOK, OnArrival
    <3>2. Arrived' = Arrived \cup {r}
      <4>1. /\ Len(arrived') = Len(arrived) + 1 /\ Len(arrived) \in Nat
            /\ \A i \in 1 .. Len(arrived) : arrived'[i] = arrived[i]
            /\ arrived'[Len(arrived) + 1] = r
        BY <3>1
      <4>. QED  BY <4>1 DEF Arrived
    <3>. QED  BY <2>1, <3>2 DEF OnArrival, Contract!Release
  <2>2. ASSUME NEW f \in Ffn, FfnPass(f)
        PROVE  (\E S \in SUBSET Contract!InService : Contract!Serve(S, {}))
                   \/ UNCHANGED Contract!vars
    <3>1. UNCHANGED << arrived, done >> /\ tick.stage = "ffn"
      BY <2>2 DEF FfnPass
    <3>2. Arrived' = Arrived
      BY <3>1 DEF Arrived
    <3>3. CASE emitted' = emitted
      BY <3>1, <3>2, <3>3 DEF Contract!vars
    <3>4. CASE emitted' # emitted
      <4>1. PICK task : task = ffn[f].computing
        OBVIOUS
      <4>2. /\ Completes(ffn[f])
            /\ task \in Tasks /\ emitted' = TokensAfter(task)
        BY <2>2, <3>4, <4>1, FfnPassMoves
      <4>3. task.layer = Last
        BY <2>0, <3>4, <4>2 DEF TokensAfter
      <4>4. \A r \in task.reqs : r \in InService /\ emitted[r] < Target[r]
        BY <3>1, <4>1, <4>2, <4>3, TerminalLacks
      <4>5. task.reqs \in SUBSET Contract!InService
        BY <2>0, <4>4
      <4>6. emitted' \in [Requests -> Nat]
            /\ \A r \in Requests : emitted'[r] = IF r \in task.reqs THEN emitted[r] + 1
                                                 ELSE emitted[r]
        BY <2>0, <4>2, <4>3 DEF TokensAfter
      <4>7. ASSUME NEW r \in task.reqs, r \in Requests
            PROVE  emitted'[r] \in emitted[r] + 1 .. Target[r]
        <5>1. emitted[r] \in Nat /\ Target[r] \in Nat /\ emitted[r] < Target[r]
          BY <2>0, <4>4, <4>7
        <5>. QED  BY <4>6, <4>7, <5>1
      <4>8. \A r \in Requests :
               IF r \in task.reqs THEN emitted'[r] \in emitted[r] + 1 .. Target[r]
                                  ELSE emitted'[r] = emitted[r]
        BY <4>6, <4>7
      <4>9. Contract!Serve(task.reqs, {})
        BY <3>1, <3>2, <4>6, <4>8 DEF Contract!Serve
      <4>. QED  BY <4>5, <4>9
    <3>. QED  BY <3>3, <3>4
  <2>3. ASSUME NEW r \in Requests, ReleaseDone(r)
        PROVE  r \in Contract!InService /\ Contract!Serve({}, {r})
    <3>1. UNCHANGED << arrived, emitted >> /\ done' = done \cup {r}
      BY <2>3 DEF ReleaseDone
    <3>2. Arrived' = Arrived
      BY <3>1 DEF Arrived
    <3>3. r \in InService
      <4>1. PICK w \in Attn, s \in Slots, st \in Kv!Store : Leaves(r, w, s, st)
        BY <2>3, ReleaseDoneIs
      <4>. QED  BY <4>1 DEF Leaves
    <3>4. emitted'[r] = Target[r]
      BY <3>1, NextKeeps DEF IInv, TokensAgree
    <3>. QED  BY <2>0, <3>1, <3>2, <3>3, <3>4 DEF Contract!Serve
  <2>4. ASSUME UNCHANGED << arrived, emitted, done >> PROVE UNCHANGED Contract!vars
    BY <2>4, SMTT(30) DEF Arrived, Contract!vars
  <2>5. \/ \E r \in Requests : OnArrival(r) \/ ReleaseDone(r)
        \/ \E f \in Ffn : FfnPass(f)
        \/ UNCHANGED << arrived, emitted, done >>
    BY DEF Next, FlowStep, vars, BeginTick, FfnRest, Scatter, FinishIteration, BeginAttn,
           AdmitHead, DrivePass, AttnRest, OnIterStart, OnLayerOutput, EndTick
  <2>6. CASE \E r \in Requests : OnArrival(r)
    BY <2>1, <2>6 DEF Contract!Next
  <2>7. CASE \E r \in Requests : ReleaseDone(r)
    <3>1. PICK r \in Requests : ReleaseDone(r)
      BY <2>7
    <3>2. {} \in SUBSET Contract!InService /\ {r} \in SUBSET Contract!InService
      BY <2>3, <3>1
    <3>. QED  BY <2>3, <3>1, <3>2 DEF Contract!Next
  <2>8. CASE \E f \in Ffn : FfnPass(f)
    BY <2>2, <2>8 DEF Contract!Next
  <2>. QED  BY <2>4, <2>5, <2>6, <2>7, <2>8
<1>. QED  BY <1>1, <1>2, Invariance, PTL DEF Spec, Contract!SafeSpec

=============================================================================
