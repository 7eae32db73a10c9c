---------------------------- MODULE Replay_proofs ----------------------------
(***************************************************************************)
(* The replay scheduler never has more units open than its cap, tool waits *)
(* included, and releases every round after the one before it, whatever    *)
(* the trace and whatever the flow does within its contract.               *)
(***************************************************************************)
EXTENDS Replay, FiniteSums_proofs, SequenceTheorems

N == Cardinality(Requests)

\* Two rows of one session.
SameSession(i, j) == HasSession(Trace[j]) /\ SessionOf[Trace[i]] = SessionOf[Trace[j]]

\* The trace is a sequence of all requests.
LEMMA TraceType ==
    /\ N \in Nat
    /\ DOMAIN Trace = 1 .. N /\ Len(Trace) = N
    /\ \A i \in 1 .. N : Trace[i] \in Requests
<1>1. N \in Nat
  BY WorkloadAssumption, FS_CardinalityType DEF N
<1>2. Trace \in Seq(Requests)
  BY <1>1, ReplayAssumption, SeqDef DEF N
<1>. QED  BY <1>1, <1>2, ReplayAssumption, LenProperties DEF N

\* No request has two rows: there are as many rows as requests.
LEMMA RowsDiffer == \A i, j \in 1 .. N : Trace[i] = Trace[j] => i = j
<1>1. Trace \in Surjection(1 .. N, Requests)
  BY TraceType, ReplayAssumption DEF N, Surjection
<1>2. IsFiniteSet(1 .. N) /\ Cardinality(1 .. N) = N
  BY TraceType, FS_Interval
<1>3. Trace \in Injection(1 .. N, Requests)
  BY <1>1, <1>2, FS_SurjSameCardinalityImpliesInj DEF N
<1>. QED  BY <1>3 DEF Injection, IsInjective

Earlier(j) == { i \in 1 .. j - 1 : SameSession(i, j) }

\* What build_chains makes of a row: nothing before the first of a session, and
\* the latest of the earlier rows otherwise.
LEMMA RoundBefore ==
    ASSUME NEW j \in 1 .. N
    PROVE  /\ Before[Trace[j]] = NoRequest <=> Earlier(j) = {}
           /\ Earlier(j) # {} => \E k \in Earlier(j) :
                 Before[Trace[j]] = Trace[k] /\ \A i \in Earlier(j) : i <= k
<1>1. Before[Trace[j]] = IF Earlier(j) = {} THEN NoRequest ELSE Trace[Max(Earlier(j))]
  BY TraceType, ReplayAssumption DEF PreviousRound, Earlier, SameSession
<1>2. IsFiniteSet(Earlier(j)) /\ \A i \in Earlier(j) : i \in Int
  <2>1. Earlier(j) \subseteq 1 .. N /\ IsFiniteSet(1 .. N)
    BY TraceType, FS_Interval DEF Earlier
  <2>2. \A i \in 1 .. N : i \in Int
    OBVIOUS
  <2>. QED  BY <2>1, <2>2, FS_Subset
<1>3. Earlier(j) # {} => /\ Max(Earlier(j)) \in Earlier(j)
                         /\ \A i \in Earlier(j) : i <= Max(Earlier(j))
  BY <1>2, MaxIs
<1>4. \A k \in Earlier(j) : Trace[k] # NoRequest
  BY TraceType, WorkloadAssumption DEF Earlier
<1>. QED  BY <1>1, <1>3, <1>4

\* A row whose session has a later row has a successor: the next one.
LEMMA NextRound ==
    ASSUME NEW j \in 1 .. N, NEW k \in 1 .. N, j < k, SameSession(j, k)
    PROVE  Successors(Trace[j]) # {}
<1> DEFINE Later == { x \in -N .. -1 : j < -x /\ SameSession(j, -x) }
<1>1. IsFiniteSet(Later) /\ \A x \in Later : x \in Int
  <2>1. IsFiniteSet(-N .. -1)
    BY TraceType, FS_Interval
  <2>. QED  BY <2>1, TraceType, FS_Subset
<1>2. -k \in Later
  BY TraceType
<1>3. PICK x \in Later : \A y \in Later : x >= y
  BY <1>1, <1>2, MaxExists
<1> DEFINE next == -x
<1>4. next \in 1 .. N /\ j < next /\ SameSession(j, next)
  BY <1>3, TraceType
<1>5. \A i \in 1 .. N : j < i /\ SameSession(j, i) => next <= i
  <2>1. SUFFICES ASSUME NEW i \in 1 .. N, j < i, SameSession(j, i) PROVE next <= i
    OBVIOUS
  <2>2. -i \in Later
    <3>1. -i \in -N .. -1 /\ -(-i) = i
      BY <2>1, TraceType
    <3>. QED  BY <2>1, <3>1
  <2>3. x \in Int /\ x >= -i
    BY <1>1, <1>3, <2>2
  <2>. QED  BY <2>1, <2>3
<1> HIDE DEF next, Later
<1>6. j \in Earlier(next)
  BY <1>4, TraceType DEF Earlier
<1>7. PICK i \in Earlier(next) : Before[Trace[next]] = Trace[i] /\ j <= i
  BY <1>4, <1>6, RoundBefore
<1>8. i = j
  <2>1. i \in 1 .. N /\ i < next /\ SameSession(i, next)
    BY <1>4, <1>7, TraceType DEF Earlier
  <2>2. SameSession(j, i)
    BY <1>4, <2>1 DEF SameSession, HasSession
  <2>. QED  BY <1>4, <1>5, <1>7, <2>1, <2>2, TraceType
<1>. QED  BY <1>4, <1>7, <1>8, TraceType DEF Successors

-----------------------------------------------------------------------------
(* The inductive invariant. *)

\* What TypeOK leaves open of the two records.
Durations == { t \in Int : t >= -TickDt }
Waits == UNION { [D -> Durations] : D \in SUBSET Requests }
Sched ==
    [cursor : 1 .. N + 1, ready : Waits, open : SUBSET Sessions, standalone : Nat,
     backlogged : BOOLEAN]
Progress == [completed : Nat, admitted : Nat, tokens : Nat]
Watchdog == [gate : 0 .. SamplePeriod - 1, prev : Progress, idle : Nat]

Typed == TypeOK /\ sched \in Sched /\ watchdog \in Watchdog

Begun    == { s \in Sessions : \E r \in released : SessionOf[r] = s }
Over     == { s \in Sessions : \A r \in Requests : SessionOf[r] = s => r \in completed }
Alone(R) == { r \in R : ~HasSession(r) }

\* What the flow has of a request, it has in this order.
FlowInOrder == completed \subseteq admitted /\ admitted \subseteq released

\* The counters of the scheduler are about the requests in flight.
SlotsAgree ==
    /\ sched.open = Begun \ Over
    /\ sched.standalone = Cardinality(Alone(InFlight))

\* A released round has all earlier rounds of its session behind it.
RoundsInTurn ==
    \A i, j \in 1 .. N :
       i < j /\ SameSession(i, j) /\ Trace[j] \in released => Trace[i] \in completed

\* Only rounds that may be released are ready, and heads beyond the cursor are not
\* released yet.
ReadyWaits ==
    \A q \in DOMAIN sched.ready : Before[q] \in completed /\ q \notin released

HeadsAhead ==
    \A i \in 1 .. N : i >= sched.cursor /\ IsHeadRow(Trace[i]) => Trace[i] \notin released

IInv ==
    /\ Typed /\ FlowInOrder /\ SlotsAgree /\ ActiveUnits <= MaxUnits
    /\ RoundsInTurn /\ ReadyWaits /\ HeadsAhead

LEMMA PairBounds ==
    ASSUME NEW a \in Int, NEW b \in Int
    PROVE  /\ Max({a, b}) = IF a >= b THEN a ELSE b
           /\ Min({a, b}) = IF a <= b THEN a ELSE b
BY DEF Max, Min

\* The loop's constants, as the proofs use them.
LEMMA Constants ==
    /\ Horizon \in Nat /\ TickDt \in Nat \ {0} /\ MaxUnits \in Nat \ {0}
    /\ SamplePeriod \in Nat \ {0} /\ MaxQuiet \in 0 .. SamplePeriod - 1
    /\ Arrival \in [Requests -> Nat] /\ ToolWait \in [Requests -> Nat]
    /\ IsFiniteSet(Requests) /\ IsFiniteSet(Sessions)
    /\ NoSession \notin Sessions /\ NoRequest \notin Requests
    /\ SessionOf \in [Requests -> Sessions \cup {NoSession}]
    /\ Before \in [Requests -> Requests \cup {NoRequest}]
    /\ Target \in [Requests -> Nat \ {0}]
BY WorkloadAssumption, ReplayAssumption

\* The clock moves on by a tick at most, and not beyond the horizon.
LEMMA ClockStep ==
    ASSUME NEW t \in Nat
    PROVE  /\ Min({t + TickDt, Horizon}) \in 0 .. Horizon
           /\ Min({t + TickDt, Horizon}) - TickDt <= t
<1>1. t + TickDt \in Nat /\ Horizon \in Nat /\ TickDt \in Nat
  BY Constants
<1>2. Min({t + TickDt, Horizon}) = IF t + TickDt <= Horizon THEN t + TickDt ELSE Horizon
  BY <1>1, PairBounds
<1>. QED  BY <1>1, <1>2

\* A scheduler and a watchdog of these types have the parts TypeOK asks for.
LEMMA SchedParts ==
    ASSUME NEW sc \in Sched
    PROVE  /\ sc.cursor \in 1 .. Len(Trace) + 1 /\ sc.open \subseteq Sessions
           /\ DOMAIN sc.ready \subseteq Requests
           /\ \A q \in DOMAIN sc.ready : sc.ready[q] >= -TickDt
           /\ sc.standalone \in Nat /\ sc.backlogged \in BOOLEAN
<1>1. sc.ready \in Waits
  BY DEF Sched
<1>2. DOMAIN sc.ready \subseteq Requests /\ \A q \in DOMAIN sc.ready : sc.ready[q] \in Durations
  BY <1>1 DEF Waits
<1>. QED  BY <1>2, TraceType DEF Sched, Durations

LEMMA WatchdogParts ==
    ASSUME NEW wd \in Watchdog
    PROVE  wd.gate \in 0 .. SamplePeriod - 1 /\ wd.idle \in Nat
BY DEF Watchdog

\* The loop starts with nothing released.
LEMMA InitInv == Init => IInv
<1>. SUFFICES ASSUME Init PROVE IInv
  OBVIOUS
<1>1. Typed
  <2>1. << >> \in Waits
    BY DEF Waits
  <2>2. sched \in Sched
    BY <2>1, TraceType DEF Init, Sched
  <2>3. watchdog \in Watchdog
    BY Constants DEF Init, Watchdog, Progress, NoProgress
  <2>. QED  BY <2>2, <2>3, Constants, TraceType DEF Init, Typed, TypeOK, Watchdog
<1>2. SlotsAgree
  <2>1. Begun = {} /\ Alone(InFlight) = {}
    BY DEF Init, Begun, Alone, InFlight
  <2>. QED  BY <2>1, FS_EmptySet DEF Init, SlotsAgree
<1>3. ActiveUnits <= MaxUnits
  BY Constants, FS_EmptySet DEF Init, ActiveUnits
<1>. QED  BY <1>1, <1>2, <1>3
         DEF Init, IInv, FlowInOrder, RoundsInTurn, ReadyWaits, HeadsAhead

\* A ready round is a later round of a session, with all before it completed.
LEMMA ReadyRound ==
    ASSUME IInv, NEW q \in DOMAIN sched.ready
    PROVE  /\ q \in Requests \ released /\ HasSession(q) /\ ~IsHeadRow(q)
           /\ \E p \in completed : SessionOf[p] = SessionOf[q]
           /\ \A i, j \in 1 .. N : i < j /\ SameSession(i, j) /\ Trace[j] = q
                 => Trace[i] \in completed
<1>1. q \in Requests /\ Before[q] \in completed /\ q \notin released
  BY DEF IInv, Typed, TypeOK, ReadyWaits
<1>2. Before[q] \in Requests /\ Before[q] # NoRequest
  BY <1>1, Constants DEF IInv, Typed, TypeOK
<1>3. HasSession(q) /\ SessionOf[Before[q]] = SessionOf[q]
  BY <1>1, <1>2, ChainAssumption DEF HasSession
<1>4. ASSUME NEW i \in 1 .. N, NEW j \in 1 .. N, i < j, SameSession(i, j), Trace[j] = q
      PROVE  Trace[i] \in completed
  <2>1. i \in Earlier(j)
    BY <1>4 DEF Earlier
  <2>2. PICK k \in Earlier(j) : Before[q] = Trace[k] /\ i <= k
    BY <1>4, <2>1, RoundBefore
  <2>3. k \in 1 .. N /\ Trace[k] \in completed /\ SameSession(k, j)
    BY <1>1, <2>2, TraceType DEF Earlier
  <2>4. CASE i = k
    BY <2>3, <2>4
  <2>5. CASE i < k
    <3>1. SameSession(i, k)
      BY <1>4, <2>3 DEF SameSession, HasSession
    <3>2. Trace[k] \in released
      BY <2>3 DEF IInv, FlowInOrder
    <3>. QED  BY <2>3, <2>5, <3>1, <3>2 DEF IInv, RoundsInTurn
  <2>. QED  BY <2>2, <2>3, <2>4, <2>5
<1>. QED  BY <1>1, <1>2, <1>3, <1>4 DEF IsHeadRow

\* Steps that leave the requests and the units alone keep what is said of them.
LEMMA UnitsKept ==
    ASSUME IInv, UNCHANGED << released, admitted, completed >>,
           UNCHANGED << sched.open, sched.standalone, sched.cursor, DOMAIN sched.ready >>,
           Typed'
    PROVE  IInv'
BY DEF IInv, FlowInOrder, SlotsAgree, Begun, Over, Alone, InFlight, ActiveUnits,
       RoundsInTurn, ReadyWaits, HeadsAhead

\* A round that enters takes the slot its session holds already.
LEMMA SuccessorInv ==
    ASSUME IInv, NEW q \in Requests, ReleaseSuccessor(q)
    PROVE  IInv'
<1>1. /\ q \in DOMAIN sched.ready /\ phase = "drain" /\ sched \in Sched
      /\ released' = released \cup {q} /\ stamp' = [stamp EXCEPT ![q] = clock]
      /\ sched' = [sched EXCEPT !.ready =
                      [s \in DOMAIN sched.ready \ {q} |-> sched.ready[s]]]
      /\ UNCHANGED << clock, phase, cause, watchdog, admitted, produced, completed, quiet >>
  BY DEF ReleaseSuccessor, DueSuccessors, flowVars, IInv, Typed
<1>2. /\ sched'.ready = [s \in DOMAIN sched.ready \ {q} |-> sched.ready[s]]
      /\ UNCHANGED << sched.open, sched.standalone, sched.cursor, sched.backlogged >>
  BY <1>1 DEF Sched
<1>3. /\ q \in Requests \ released /\ HasSession(q) /\ ~IsHeadRow(q)
      /\ \E p \in completed : SessionOf[p] = SessionOf[q]
      /\ \A i, j \in 1 .. N : i < j /\ SameSession(i, j) /\ Trace[j] = q
            => Trace[i] \in completed
  BY <1>1, ReadyRound
<1>4. Typed'
  <2>1. sched.ready \in Waits => sched'.ready \in Waits
    BY <1>2 DEF Waits
  <2>2. sched' \in Sched
    BY <1>1, <2>1 DEF Sched
  <2>3. stamp' \in [Requests -> Nat] /\ released' \subseteq Requests
    BY <1>1, Constants, SMTT(30) DEF IInv, Typed, TypeOK
  <2>4. watchdog' \in Watchdog
    BY <1>1 DEF IInv, Typed
  <2>5. /\ clock' \in 0 .. Horizon /\ phase' \in {"drain", "serve", "check"}
        /\ cause' \in {"running", "DrainComplete", "DurationReached", "Stuck"}
        /\ completed' \subseteq Requests /\ admitted' \subseteq Requests
        /\ produced' \in [Requests -> Nat] /\ quiet' \in 0 .. MaxQuiet
    BY <1>1 DEF IInv, Typed, TypeOK
  <2>. QED  BY <2>2, <2>3, <2>4, <2>5, SchedParts, WatchdogParts DEF Typed, TypeOK
<1>5. Begun' = Begun /\ Over' = Over
  BY <1>1, <1>3 DEF Begun, Over, IInv, FlowInOrder
<1>6. Alone(InFlight)' = Alone(InFlight)
  BY <1>1, <1>3 DEF Alone, InFlight
<1>7. SlotsAgree' /\ ActiveUnits' <= MaxUnits
  BY <1>2, <1>5, <1>6 DEF IInv, SlotsAgree, ActiveUnits
<1>8. RoundsInTurn'
  BY <1>1, <1>3 DEF IInv, RoundsInTurn, SameSession
<1>9. ReadyWaits' /\ HeadsAhead' /\ FlowInOrder'
  BY <1>1, <1>2, <1>3 DEF IInv, ReadyWaits, HeadsAhead, FlowInOrder, IsHeadRow
<1>. QED  BY <1>4, <1>7, <1>8, <1>9 DEF IInv

\* The next head opens a unit that the cap has room for.
LEMMA HeadInv ==
    ASSUME IInv, NEW i \in DOMAIN Trace, ReleaseHead(i)
    PROVE  IInv'
<1> DEFINE r == Trace[i]
<1>1. /\ i \in 1 .. N /\ r \in Requests /\ i >= sched.cursor /\ IsHeadRow(r)
      /\ phase = "drain" /\ sched \in Sched /\ ActiveUnits < MaxUnits
      /\ released' = released \cup {r}
      /\ UNCHANGED << clock, phase, cause, watchdog, admitted, produced, completed, quiet >>
  BY TraceType DEF ReleaseHead, HeadIndex, AdmitsNewUnit, flowVars, IInv, Typed, Sched
<1>2. /\ sched'.cursor = i + 1 /\ sched'.ready = sched.ready
      /\ sched'.open = IF HasSession(r) THEN sched.open \cup {SessionOf[r]} ELSE sched.open
      /\ sched'.standalone = IF HasSession(r) THEN sched.standalone ELSE sched.standalone + 1
      /\ sched' \in Sched
  <2>1. sched' = [sched EXCEPT
                 !.cursor = i + 1,
                 !.backlogged = sched.backlogged,
                 !.open = IF HasSession(r) THEN @ \cup {SessionOf[r]} ELSE @,
                 !.standalone = IF HasSession(r) THEN @ ELSE @ + 1]
    BY DEF ReleaseHead, BackloggedAfterRelease
  <2>2. HasSession(r) => SessionOf[r] \in Sessions
    BY <1>1, Constants DEF HasSession
  <2>3. i + 1 \in 1 .. N + 1
    BY <1>1, TraceType
  <2> HIDE DEF r
  <2>4. CASE HasSession(r)
    BY <1>1, <2>1, <2>2, <2>3, <2>4 DEF Sched
  <2>5. CASE ~HasSession(r)
    <3>1. sched' = [sched EXCEPT !.cursor = i + 1, !.standalone = sched.standalone + 1]
      BY <1>1, <2>1, <2>5 DEF Sched
    <3>2. sched.standalone + 1 \in Nat
      BY <1>1 DEF Sched
    <3>. QED  BY <1>1, <2>3, <2>5, <3>1, <3>2 DEF Sched
  <2>. QED  BY <2>4, <2>5
<1>3. stamp' \in [Requests -> Nat]
  <2>1. clock \in Nat /\ ReleaseTime(r) \in Nat /\ stamp \in [Requests -> Nat]
    BY <1>1, Constants DEF IInv, Typed, TypeOK, ReleaseTime
  <2>2. Max({ReleaseTime(r), clock}) \in Nat
    BY <2>1, PairBounds
  <2>3. \E t \in Nat : stamp' = [stamp EXCEPT ![r] = t]
    BY <2>1, <2>2 DEF ReleaseHead
  <2>. QED  BY <1>1, <2>1, <2>3
<1>4. Typed'
  <2>1. watchdog' \in Watchdog /\ released' \subseteq Requests
    BY <1>1 DEF IInv, Typed, TypeOK
  <2>2. /\ clock' \in 0 .. Horizon /\ phase' \in {"drain", "serve", "check"}
        /\ cause' \in {"running", "DrainComplete", "DurationReached", "Stuck"}
        /\ completed' \subseteq Requests /\ admitted' \subseteq Requests
        /\ produced' \in [Requests -> Nat] /\ quiet' \in 0 .. MaxQuiet
    BY <1>1 DEF IInv, Typed, TypeOK
  <2>. QED  BY <1>2, <1>3, <2>1, <2>2, SchedParts, WatchdogParts DEF Typed, TypeOK
<1>5. r \notin released /\ r \notin completed
  BY <1>1 DEF IInv, HeadsAhead, FlowInOrder
<1>6. IsFiniteSet(sched.open) /\ IsFiniteSet(Alone(InFlight))
  <2>1. Alone(InFlight) \subseteq Requests /\ sched.open \subseteq Sessions
    BY DEF IInv, Typed, TypeOK, Alone, InFlight
  <2>. QED  BY <2>1, Constants, FS_Subset
<1>7. ASSUME HasSession(r) PROVE SlotsAgree' /\ ActiveUnits' <= MaxUnits
  <2>1. SessionOf[r] \in Sessions \ Over
    BY <1>1, <1>5, <1>7, Constants DEF HasSession, Over
  <2>2. Begun' = Begun \cup {SessionOf[r]} /\ Over' = Over
    BY <1>1, <2>1 DEF Begun, Over
  <2>3. Alone(InFlight)' = Alone(InFlight)
    BY <1>1, <1>7 DEF Alone, InFlight
  <2>4. SlotsAgree'
    BY <1>2, <1>7, <2>1, <2>2, <2>3 DEF IInv, SlotsAgree
  <2>5. Cardinality(sched'.open) <= Cardinality(sched.open) + 1
    <3>1. sched'.open = sched.open \cup {SessionOf[r]}
      BY <1>2, <1>7
    <3>2. Cardinality(sched.open) \in Nat
      BY <1>6, FS_CardinalityType
    <3>3. Cardinality(sched.open \cup {SessionOf[r]})
            = IF SessionOf[r] \in sched.open THEN Cardinality(sched.open)
                                             ELSE Cardinality(sched.open) + 1
      BY <1>6, FS_AddElement
    <3>. QED  BY <3>1, <3>2, <3>3
  <2>6. ActiveUnits' <= MaxUnits
    <3>1. Cardinality(sched.open) \in Nat /\ sched.standalone \in Nat /\ sched'.standalone = sched.standalone
      BY <1>1, <1>2, <1>6, <1>7, FS_CardinalityType DEF Sched
    <3>2. Cardinality(sched'.open) \in Nat
      BY <1>2, <1>6, <1>7, FS_AddElement, FS_CardinalityType
    <3>. QED  BY <1>1, <2>5, <3>1, <3>2, Constants DEF ActiveUnits
  <2>. QED  BY <2>4, <2>6
<1>8. ASSUME ~HasSession(r) PROVE SlotsAgree' /\ ActiveUnits' <= MaxUnits
  <2>1. Begun' = Begun /\ Over' = Over
    BY <1>1, <1>8, Constants DEF Begun, Over, HasSession
  <2>2. Alone(InFlight)' = Alone(InFlight) \cup {r} /\ r \notin Alone(InFlight)
    BY <1>1, <1>5, <1>8 DEF Alone, InFlight
  <2>3. Cardinality(Alone(InFlight)') = Cardinality(Alone(InFlight)) + 1
    BY <1>6, <2>2, FS_AddElement
  <2>4. SlotsAgree'
    BY <1>2, <1>8, <2>1, <2>3 DEF IInv, SlotsAgree
  <2>5. ActiveUnits' <= MaxUnits
    <3>1. Cardinality(sched.open) \in Nat /\ sched.standalone \in Nat
      BY <1>1, <1>6, FS_CardinalityType DEF Sched
    <3>. QED  BY <1>1, <1>2, <1>8, <3>1, Constants DEF ActiveUnits
  <2>. QED  BY <2>4, <2>5
<1>9. RoundsInTurn'
  <2>1. SUFFICES ASSUME NEW k \in 1 .. N, NEW j \in 1 .. N, k < j, SameSession(k, j),
                        Trace[j] \in released'
                 PROVE  Trace[k] \in completed
    BY <1>1 DEF RoundsInTurn, SameSession
  <2>2. Trace[j] # r
    <3>1. k \in Earlier(j)
      BY <2>1 DEF Earlier
    <3>. QED  BY <1>1, <3>1, RoundBefore DEF IsHeadRow
  <2>. QED  BY <1>1, <2>1, <2>2 DEF IInv, RoundsInTurn
<1>10. ReadyWaits'
  <2>1. \A q \in DOMAIN sched.ready : q # r
    BY <1>1, ReadyRound
  <2>. QED  BY <1>1, <1>2, <2>1 DEF IInv, ReadyWaits
<1>11. HeadsAhead'
  <2>1. SUFFICES ASSUME NEW k \in 1 .. N, k >= i + 1, IsHeadRow(Trace[k])
                 PROVE  Trace[k] \notin released'
    BY <1>2 DEF HeadsAhead, IsHeadRow
  <2>2. sched.cursor \in Int /\ k >= sched.cursor /\ k # i
    BY <1>1, <2>1 DEF Sched
  <2>3. Trace[k] # r
    BY <1>1, <2>2, RowsDiffer
  <2>. QED  BY <1>1, <2>1, <2>2, <2>3 DEF IInv, HeadsAhead
<1>12. FlowInOrder'
  BY <1>1 DEF IInv, FlowInOrder
<1>. QED  BY <1>4, <1>7, <1>8, <1>9, <1>10, <1>11, <1>12 DEF IInv

\* The rounds and units a tick of the flow gives back to the scheduler.
LEMMA TickSched ==
    ASSUME IInv, NEW C \in SUBSET Requests, C \subseteq InFlight
    PROVE  /\ AfterCompletion(C) \in Sched
           /\ AfterCompletion(C).cursor = sched.cursor
           /\ AfterCompletion(C).backlogged = sched.backlogged
           /\ AfterCompletion(C).open =
                sched.open \ { SessionOf[r] : r \in { q \in C : Successors(q) = {} } }
           /\ AfterCompletion(C).standalone = sched.standalone - Cardinality(Alone(C))
           /\ DOMAIN AfterCompletion(C).ready =
                DOMAIN sched.ready \cup { q \in Requests : Before[q] \in C }
           /\ sched.standalone - Cardinality(Alone(C)) = Cardinality(Alone(InFlight) \ Alone(C))
<1> DEFINE unlocked == { q \in Requests : Before[q] \in C }
           ready == [q \in DOMAIN sched.ready \cup unlocked |->
                        IF q \in unlocked THEN ToolWait[Before[q]] ELSE sched.ready[q]]
           open == sched.open \ { SessionOf[r] : r \in { q \in C : Successors(q) = {} } }
           standalone == sched.standalone - Cardinality(Alone(C))
<1>1. sched \in Sched /\ sched.ready \in Waits
  BY DEF IInv, Typed, Sched
<1>2. ready \in Waits
  <2>1. DOMAIN sched.ready \subseteq Requests
        /\ \A q \in DOMAIN sched.ready : sched.ready[q] \in Durations
    BY <1>1 DEF Waits
  <2>2. \A q \in unlocked : ToolWait[Before[q]] \in Durations
    BY Constants DEF Durations
  <2>3. \A q \in DOMAIN sched.ready \cup unlocked :
           /\ q \in Requests
           /\ (IF q \in unlocked THEN ToolWait[Before[q]] ELSE sched.ready[q]) \in Durations
    BY <2>1, <2>2
  <2>4. ready \in [DOMAIN sched.ready \cup unlocked -> Durations]
    BY <2>3
  <2>. QED  BY <2>3, <2>4 DEF Waits
<1>3. standalone = Cardinality(Alone(InFlight) \ Alone(C)) /\ standalone \in Nat
  <2>1. Alone(C) \subseteq Alone(InFlight) /\ Alone(InFlight) \subseteq Requests
    BY DEF Alone, InFlight, IInv, Typed, TypeOK
  <2>2. IsFiniteSet(Alone(InFlight)) /\ IsFiniteSet(Alone(C))
    BY <2>1, Constants, FS_Subset
  <2>3. Alone(InFlight) \cap Alone(C) = Alone(C)
    BY <2>1
  <2>4. Cardinality(Alone(InFlight) \ Alone(C))
          = Cardinality(Alone(InFlight)) - Cardinality(Alone(InFlight) \cap Alone(C))
    BY <2>2, FS_Difference
  <2>5. IsFiniteSet(Alone(InFlight) \ Alone(C))
    BY <2>2, FS_Difference
  <2>6. sched.standalone = Cardinality(Alone(InFlight))
    BY DEF IInv, SlotsAgree
  <2>. QED  BY <2>3, <2>4, <2>5, <2>6, FS_CardinalityType
<1>4. AfterCompletion(C) = [sched EXCEPT !.ready = ready, !.open = open,
                                         !.standalone = standalone]
  BY DEF AfterCompletion, Alone
<1> HIDE DEF ready, open, standalone
<1>5. open \subseteq Sessions
  BY <1>1 DEF open, Sched
<1>6. DOMAIN ready = DOMAIN sched.ready \cup unlocked
  BY DEF ready
<1>7. /\ AfterCompletion(C) \in Sched /\ AfterCompletion(C).cursor = sched.cursor
      /\ AfterCompletion(C).backlogged = sched.backlogged
      /\ AfterCompletion(C).ready = ready /\ AfterCompletion(C).open = open
      /\ AfterCompletion(C).standalone = standalone
  BY <1>1, <1>2, <1>3, <1>4, <1>5 DEF Sched
<1>. QED  BY <1>3, <1>6, <1>7 DEF open, standalone

\* Completing C closes the sessions of which it holds the last round, no others.
LEMMA ClosedSessions ==
    ASSUME IInv, NEW C \in SUBSET Requests, C \subseteq InFlight,
           NEW s \in Begun \ Over
    PROVE  (\A r \in Requests : SessionOf[r] = s => r \in completed \cup C)
              <=> \E r \in C : Successors(r) = {} /\ SessionOf[r] = s
<1>1. s \in Sessions /\ s # NoSession
  BY Constants DEF Begun
<1> DEFINE rows == { i \in 1 .. N : SessionOf[Trace[i]] = s }
<1>2. ASSUME NEW r \in C, Successors(r) = {}, SessionOf[r] = s
      PROVE  \A q \in Requests : SessionOf[q] = s => q \in completed \cup C
  <2>1. PICK j \in 1 .. N : Trace[j] = r
    BY TraceType, ReplayAssumption
  <2>2. SUFFICES ASSUME NEW q \in Requests, SessionOf[q] = s PROVE q \in completed \cup C
    OBVIOUS
  <2>3. PICK i \in 1 .. N : Trace[i] = q
    BY TraceType, ReplayAssumption
  <2>4. SameSession(i, j) /\ SameSession(j, i)
    BY <1>1, <1>2, <2>1, <2>2, <2>3 DEF SameSession, HasSession
  <2>5. CASE i < j
    BY <1>2, <2>1, <2>3, <2>4, <2>5 DEF IInv, RoundsInTurn, InFlight
  <2>6. CASE i = j
    BY <1>2, <2>1, <2>3, <2>6
  <2>7. CASE j < i
    BY <1>2, <2>1, <2>4, <2>7, NextRound
  <2>. QED  BY <2>5, <2>6, <2>7, TraceType
<1>3. ASSUME \A r \in Requests : SessionOf[r] = s => r \in completed \cup C
      PROVE  \E r \in C : Successors(r) = {} /\ SessionOf[r] = s
  <2>1. rows # {} /\ IsFiniteSet(rows) /\ \A i \in rows : i \in Int
    <3>1. PICK r \in Requests : SessionOf[r] = s
      BY DEF Begun, IInv, Typed, TypeOK
    <3>2. PICK j \in 1 .. N : Trace[j] = r
      BY TraceType, ReplayAssumption
    <3>3. IsFiniteSet(1 .. N) /\ rows \subseteq 1 .. N
      BY TraceType, FS_Interval
    <3>4. j \in rows /\ \A i \in rows : i \in Int
      BY <3>1, <3>2
    <3> HIDE DEF rows
    <3>. QED  BY <3>3, <3>4, FS_Subset
  <2>2. PICK m \in rows : \A i \in rows : m >= i
    BY <2>1, MaxExists
  <2>3. m \in 1 .. N /\ Trace[m] \in Requests /\ SessionOf[Trace[m]] = s
    BY <2>2, TraceType
  <2>4. Successors(Trace[m]) = {}
    <3>1. SUFFICES ASSUME NEW q \in Requests, Before[q] = Trace[m] PROVE FALSE
      BY DEF Successors
    <3>2. PICK j \in 1 .. N : Trace[j] = q
      BY TraceType, ReplayAssumption
    <3>3. PICK k \in Earlier(j) : Before[q] = Trace[k]
      BY <2>3, <3>1, <3>2, RoundBefore, Constants
    <3>4. k \in 1 .. N /\ k < j /\ SameSession(k, j)
      BY <3>2, <3>3, TraceType DEF Earlier
    <3>5. k = m
      BY <2>3, <3>1, <3>3, <3>4, RowsDiffer
    <3>6. j \in rows
      BY <2>3, <3>4, <3>5 DEF SameSession
    <3>. QED  BY <2>2, <2>3, <3>4, <3>5, <3>6
  <2>5. Trace[m] \notin completed
    <3>1. SUFFICES ASSUME Trace[m] \in completed PROVE s \in Over
      OBVIOUS
    <3>2. ASSUME NEW r \in Requests, SessionOf[r] = s PROVE r \in completed
      <4>1. PICK i \in 1 .. N : Trace[i] = r
        BY TraceType, ReplayAssumption
      <4>2. i <= m /\ SameSession(i, m)
        BY <1>1, <2>2, <2>3, <3>2, <4>1 DEF SameSession, HasSession
      <4>3. Trace[m] \in released
        BY <3>1 DEF IInv, FlowInOrder
      <4>4. CASE i < m
        BY <2>3, <4>1, <4>2, <4>3, <4>4 DEF IInv, RoundsInTurn
      <4>5. CASE i = m
        BY <3>1, <4>1, <4>5
      <4>. QED  BY <2>3, <4>2, <4>4, <4>5
    <3>. QED  BY <1>1, <3>2 DEF Over
  <2>. QED  BY <1>3, <2>3, <2>4, <2>5
<1>. QED  BY <1>2, <1>3


\* A tick of the flow frees the units that end, and unlocks later rounds.
LEMMA TickInv ==
    ASSUME IInv, NEW A \in SUBSET Waiting, NEW S \in SUBSET (InService \cup A),
           NEW C \in SUBSET (InService \cup A), FlowTick(A, S, C)
    PROVE  IInv'
<1>1. /\ sched' = AfterCompletion(C) /\ completed' = completed \cup C
      /\ admitted' = admitted \cup A /\ phase' = "check"
      /\ produced' = [r \in Requests |->
                        IF r \in S THEN produced[r] + 1 ELSE produced[r]]
      /\ UNCHANGED << clock, cause, released, stamp, watchdog >>
  BY DEF FlowTick
<1>2. C \subseteq InFlight /\ C \in SUBSET Requests /\ A \in SUBSET Requests
  BY DEF IInv, Typed, TypeOK, FlowInOrder, InFlight, InService, Waiting
<1>3. /\ sched' \in Sched /\ sched'.cursor = sched.cursor
      /\ sched'.open = sched.open \ { SessionOf[r] : r \in { q \in C : Successors(q) = {} } }
      /\ sched'.standalone = Cardinality(Alone(InFlight) \ Alone(C))
      /\ DOMAIN sched'.ready =
           DOMAIN sched.ready \cup { q \in Requests : Before[q] \in C }
  BY <1>1, <1>2, TickSched
<1>4. FlowInOrder'
  BY <1>1, <1>2 DEF IInv, FlowInOrder, InService, Waiting
<1>5. Typed'
  <2>1. produced' \in [Requests -> Nat]
    BY <1>1 DEF IInv, Typed, TypeOK
  <2>2. quiet' \in 0 .. MaxQuiet
    <3>1. quiet \in 0 .. MaxQuiet /\ MaxQuiet \in Nat
      BY Constants DEF IInv, Typed, TypeOK
    <3>2. CASE A \cup S \cup C # {} \/ ~Busy
      BY <3>1, <3>2 DEF FlowTick
    <3>3. CASE A \cup S \cup C = {} /\ Busy
      <4>1. quiet' = quiet + 1 /\ quiet # MaxQuiet
        BY <3>3 DEF FlowTick
      <4>. QED  BY <3>1, <4>1
    <3>. QED  BY <3>2, <3>3
  <2>3. watchdog' \in Watchdog
    BY <1>1 DEF IInv, Typed
  <2>4. /\ clock' \in 0 .. Horizon /\ phase' \in {"drain", "serve", "check"}
        /\ cause' \in {"running", "DrainComplete", "DurationReached", "Stuck"}
        /\ completed' \subseteq Requests /\ admitted' \subseteq Requests
        /\ released' \subseteq Requests /\ stamp' \in [Requests -> Nat]
    BY <1>1, <1>2 DEF IInv, Typed, TypeOK
  <2>. QED  BY <1>3, <2>1, <2>2, <2>3, <2>4, SchedParts, WatchdogParts DEF Typed, TypeOK
<1>6. SlotsAgree'
  <2>1. Begun' = Begun /\ Over \subseteq Over'
    BY <1>1 DEF Begun, Over
  <2>2. ASSUME NEW s \in Begun \ Over
        PROVE  s \in Over' <=> s \in { SessionOf[r] : r \in { q \in C : Successors(q) = {} } }
    <3>1. s \in Over' <=> \A r \in Requests : SessionOf[r] = s => r \in completed \cup C
      BY <1>1, <2>2 DEF Over, Begun
    <3>. QED  BY <1>2, <2>2, <3>1, ClosedSessions
  <2>3. sched'.open = Begun' \ Over'
    BY <1>3, <2>1, <2>2 DEF IInv, SlotsAgree
  <2>4. Alone(InFlight)' = Alone(InFlight) \ Alone(C)
    BY <1>1 DEF Alone, InFlight
  <2>. QED  BY <1>3, <2>3, <2>4 DEF SlotsAgree
<1>7. ActiveUnits' <= MaxUnits
  <2>1. IsFiniteSet(sched.open) /\ IsFiniteSet(Alone(InFlight))
    <3>1. Alone(InFlight) \subseteq Requests /\ sched.open \subseteq Sessions
      BY DEF IInv, Typed, TypeOK, Alone, InFlight
    <3>. QED  BY <3>1, Constants, FS_Subset
  <2>2. /\ IsFiniteSet(sched'.open) /\ Cardinality(sched'.open) <= Cardinality(sched.open)
    BY <1>3, <2>1, FS_Subset
  <2>3. sched'.standalone <= sched.standalone
    BY <1>3, <2>1, FS_Subset DEF IInv, SlotsAgree
  <2>4. /\ Cardinality(sched.open) \in Nat /\ Cardinality(sched'.open) \in Nat
        /\ sched.standalone \in Nat /\ sched'.standalone \in Nat
    BY <1>3, <2>1, <2>2, FS_CardinalityType DEF IInv, Typed, Sched
  <2>. QED  BY <2>2, <2>3, <2>4, Constants DEF IInv, ActiveUnits
<1>8. RoundsInTurn'
  BY <1>1 DEF IInv, RoundsInTurn, SameSession
<1>9. ReadyWaits'
  <2>1. ASSUME NEW q \in Requests, Before[q] \in C PROVE q \notin released
    <3>1. PICK j \in 1 .. N : Trace[j] = q
      BY TraceType, ReplayAssumption
    <3>2. PICK k \in Earlier(j) : Before[q] = Trace[k]
      BY <1>2, <2>1, <3>1, RoundBefore, Constants
    <3>3. k \in 1 .. N /\ k < j /\ SameSession(k, j) /\ Trace[k] \notin completed
      BY <1>2, <2>1, <3>1, <3>2, TraceType DEF Earlier, InFlight
    <3>. QED  BY <3>1, <3>3 DEF IInv, RoundsInTurn
  <2>2. \A q \in DOMAIN sched'.ready : q \in DOMAIN sched.ready
                                       \/ (q \in Requests /\ Before[q] \in C)
    BY <1>3
  <2>. QED  BY <1>1, <2>1, <2>2 DEF IInv, ReadyWaits
<1>10. HeadsAhead'
  BY <1>1, <1>3 DEF IInv, HeadsAhead, IsHeadRow
<1>. QED  BY <1>4, <1>5, <1>6, <1>7, <1>8, <1>9, <1>10 DEF IInv


\* The end of the drain only notes whether a head was left waiting.
LEMMA DrainInv == ASSUME IInv, DrainDone PROVE IInv'
<1>1. /\ phase' = "serve" /\ \E b \in BOOLEAN : sched' = [sched EXCEPT !.backlogged = b]
      /\ UNCHANGED << clock, cause, released, stamp, watchdog, admitted, produced,
                      completed, quiet >>
  <2>1. (IF HeadIndex = {} THEN sched.backlogged ELSE \A i \in HeadIndex : IsDue(Trace[i]))
          \in BOOLEAN
    BY DEF IInv, Typed, TypeOK
  <2>. QED  BY <2>1 DEF DrainDone, flowVars
<1>2. /\ sched \in Sched /\ sched' \in Sched
      /\ UNCHANGED << sched.open, sched.standalone, sched.cursor, sched.ready >>
  BY <1>1 DEF IInv, Typed, Sched
<1>3. Typed'
  <2>1. watchdog' \in Watchdog
    BY <1>1 DEF IInv, Typed
  <2>2. /\ clock' \in 0 .. Horizon /\ phase' \in {"drain", "serve", "check"}
        /\ cause' \in {"running", "DrainComplete", "DurationReached", "Stuck"}
        /\ completed' \subseteq Requests /\ admitted' \subseteq Requests
        /\ released' \subseteq Requests /\ stamp' \in [Requests -> Nat]
        /\ produced' \in [Requests -> Nat] /\ quiet' \in 0 .. MaxQuiet
    BY <1>1 DEF IInv, Typed, TypeOK
  <2>. QED  BY <1>2, <2>1, <2>2, SchedParts, WatchdogParts DEF Typed, TypeOK
<1>. QED  BY <1>1, <1>2, <1>3, UnitsKept

\* A stop changes nothing but the cause.
LEMMA StopInv ==
    ASSUME IInv, StopDrained \/ StopDuration \/ StopStuck
    PROVE  IInv'
<1>1. /\ cause' \in {"DrainComplete", "DurationReached", "Stuck"}
      /\ UNCHANGED << clock, phase, released, stamp, sched, watchdog, admitted, produced,
                      completed, quiet >>
  BY DEF StopDrained, StopDuration, StopStuck, Stop, flowVars
<1>2. Typed'
  BY <1>1 DEF IInv, Typed, TypeOK
<1>. QED  BY <1>1, <1>2, UnitsKept

\* The countdown of the watchdog never runs below zero: it is asked only while
\* something is in flight, for the loop has stopped otherwise.
LEMMA WatchdogType ==
    ASSUME Typed, ~DrainComplete
    PROVE  WatchdogAfter \in Watchdog
<1>1. /\ watchdog.gate \in 0 .. SamplePeriod - 1 /\ watchdog.idle \in Nat
      /\ watchdog \in Watchdog
  BY DEF Typed, TypeOK
<1>2. Liveness \in Progress
  <2>1. IsFiniteSet(completed) /\ IsFiniteSet(admitted)
    BY Constants, FS_Subset DEF Typed, TypeOK
  <2>2. SumOver(produced, admitted) \in Nat
    <3>1. \A r \in admitted : produced[r] \in Nat
      BY DEF Typed, TypeOK
    <3>. QED  BY <2>1, <3>1, SumType
  <2>3. Liveness = [completed |-> Cardinality(completed), admitted |-> Cardinality(admitted),
                    tokens |-> SumOver(produced, admitted)]
    BY DEF Liveness, SumOver
  <2>. QED  BY <2>1, <2>2, <2>3, FS_CardinalityType DEF Progress
<1>3. IdleFor \in Nat
  BY <1>1, Constants DEF IdleFor
<1>4. CASE Sampled
  BY <1>2, <1>3, <1>4, Constants DEF WatchdogAfter, Watchdog
<1>5. CASE ~Sampled /\ Exhausted
  <2>1. watchdog.gate # 0
    BY <1>5 DEF Sampled, DrainComplete
  <2>2. WatchdogAfter = [watchdog EXCEPT !.gate = watchdog.gate - 1]
    BY <1>5 DEF WatchdogAfter
  <2>3. watchdog.gate - 1 \in 0 .. SamplePeriod - 1
    BY <1>1, <2>1, Constants
  <2>. QED  BY <1>1, <2>2, <2>3 DEF Watchdog
<1>6. CASE ~Sampled /\ ~Exhausted
  BY <1>1, <1>6 DEF WatchdogAfter
<1>. QED  BY <1>4, <1>5, <1>6

\* A pass of the clock shortens the tool waits and frees nothing.
LEMMA ClockInv == ASSUME IInv, AdvanceClock PROVE IInv'
<1> DEFINE ready == [q \in DOMAIN sched.ready |-> Max({sched.ready[q] - TickDt, -TickDt})]
<1>1. /\ phase' = "drain" /\ clock' = Min({clock + TickDt, Horizon})
      /\ sched' = [sched EXCEPT !.ready = ready] /\ watchdog' = WatchdogAfter
      /\ ~DrainComplete
      /\ UNCHANGED << cause, released, stamp, admitted, produced, completed, quiet >>
  BY DEF AdvanceClock, flowVars
<1>2. DOMAIN ready = DOMAIN sched.ready /\ ready \in Waits
  <2>1. sched.ready \in Waits
    BY DEF IInv, Typed, Sched
  <2>2. DOMAIN sched.ready \subseteq Requests
        /\ \A q \in DOMAIN sched.ready : sched.ready[q] \in Durations
    BY <2>1 DEF Waits
  <2>3. ASSUME NEW t \in Durations PROVE Max({t - TickDt, -TickDt}) \in Durations
    <3>1. t - TickDt \in Int /\ -TickDt \in Int
      BY Constants DEF Durations
    <3>2. Max({t - TickDt, -TickDt}) = IF t - TickDt >= -TickDt THEN t - TickDt ELSE -TickDt
      BY <3>1, PairBounds
    <3>. QED  BY <3>1, <3>2, Constants DEF Durations
  <2>4. ready \in [DOMAIN sched.ready -> Durations]
    BY <2>2, <2>3
  <2>. QED  BY <2>2, <2>4 DEF Waits
<1> HIDE DEF ready
<1>3. /\ sched' \in Sched /\ sched'.ready = ready
      /\ UNCHANGED << sched.open, sched.standalone, sched.cursor >>
  BY <1>1, <1>2 DEF IInv, Typed, Sched
<1>4. Typed'
  <2>1. watchdog' \in Watchdog
    BY <1>1, WatchdogType DEF IInv
  <2>2. clock' \in 0 .. Horizon
    <3>1. clock \in Nat
      BY Constants DEF IInv, Typed, TypeOK
    <3>. QED  BY <1>1, <3>1, ClockStep
  <2>3. /\ phase' \in {"drain", "serve", "check"}
        /\ cause' \in {"running", "DrainComplete", "DurationReached", "Stuck"}
        /\ completed' \subseteq Requests /\ admitted' \subseteq Requests
        /\ released' \subseteq Requests /\ stamp' \in [Requests -> Nat]
        /\ produced' \in [Requests -> Nat] /\ quiet' \in 0 .. MaxQuiet
    BY <1>1 DEF IInv, Typed, TypeOK
  <2>. QED  BY <1>3, <2>1, <2>2, <2>3, SchedParts, WatchdogParts DEF Typed, TypeOK
<1>. QED  BY <1>1, <1>2, <1>3, <1>4, UnitsKept

\* Every pass keeps the invariant.
LEMMA StepInv == IInv /\ [Next]_vars => IInv'
<1>. SUFFICES ASSUME IInv, [Next]_vars PROVE IInv'
  OBVIOUS
<1>1. ASSUME NEW q \in Requests, ReleaseSuccessor(q) PROVE IInv'
  BY <1>1, SuccessorInv
<1>2. ASSUME NEW i \in DOMAIN Trace, ReleaseHead(i) PROVE IInv'
  BY <1>2, HeadInv
<1>3. ASSUME NEW A \in SUBSET Waiting, NEW S \in SUBSET (InService \cup A),
             NEW C \in SUBSET (InService \cup A), FlowTick(A, S, C)
      PROVE  IInv'
  BY <1>3, TickInv
<1>4. CASE UNCHANGED vars
  BY <1>4 DEF vars, IInv, Typed, TypeOK, FlowInOrder, SlotsAgree, Begun, Over, Alone,
              InFlight, ActiveUnits, RoundsInTurn, ReadyWaits, HeadsAhead
<1>. QED  BY <1>1, <1>2, <1>3, <1>4, DrainInv, StopInv, ClockInv DEF Next, Pass, Stopped

\* The invariant holds throughout.
LEMMA Invariance == Spec => []IInv
BY InitInv, StepInv, PTL DEF Spec

-----------------------------------------------------------------------------

\* Every variable of the loop keeps its type: the slots of standalone requests are
\* given back as often as they are taken, a flow is never quiet for longer than it
\* may be, and the countdown of EveryN never wraps.
THEOREM TypeCorrect == Spec => []TypeOK
BY Invariance, PTL DEF IInv, Typed

\* The sessions between their first release and their last completion, tool waits
\* included, and the standalone requests in flight never exceed max_active_units,
\* though later rounds enter without asking for a slot (ReplayScheduler).
THEOREM CapCorrect == Spec => []CapHolds
<1>1. IInv => CapHolds
  BY DEF IInv, SlotsAgree, ActiveUnits, CapHolds, Begun, Over, Alone
<1>. QED  BY <1>1, Invariance, PTL

\* What the scheduler releases and the loop reports back keeps to the contract: no
\* row twice, and no round before the one before it was reported complete.
THEOREM ContractCorrect == Spec => ReleasesByContract
<1>1. Init => Contract!Init
  BY DEF Init, Contract!Init
<1>2. IInv /\ [Next]_vars => [Contract!Next]_(Contract!vars)
  <2>. SUFFICES ASSUME IInv, [Next]_vars PROVE [Contract!Next]_(Contract!vars)
    OBVIOUS
  <2>1. ASSUME NEW q \in Requests, ReleaseSuccessor(q) PROVE Contract!Release(q)
    <3>1. q \notin released /\ Before[q] \in completed
      BY <2>1 DEF IInv, ReadyWaits, ReleaseSuccessor, DueSuccessors
    <3>. QED  BY <2>1, <3>1 DEF ReleaseSuccessor, flowVars, Contract!Release
  <2>2. ASSUME NEW i \in DOMAIN Trace, ReleaseHead(i)
        PROVE  \E r \in Requests : Contract!Release(r)
    <3>1. /\ i \in 1 .. N /\ Trace[i] \in Requests /\ i >= sched.cursor
          /\ IsHeadRow(Trace[i])
          /\ released' = released \cup {Trace[i]} /\ UNCHANGED << produced, completed >>
      BY <2>2, TraceType DEF ReleaseHead, HeadIndex, flowVars
    <3>2. Trace[i] \notin released
      BY <3>1 DEF IInv, HeadsAhead
    <3>3. Contract!Release(Trace[i])
      BY <3>1, <3>2 DEF IsHeadRow, Contract!Release
    <3>. QED  BY <3>1, <3>3
  <2>3. ASSUME NEW A \in SUBSET Waiting, NEW S \in SUBSET (InService \cup A),
               NEW C \in SUBSET (InService \cup A), FlowTick(A, S, C)
        PROVE  \E T \in SUBSET Contract!InService, D \in SUBSET Contract!InService :
                  Contract!Serve(T, D)
    <3>1. InService \cup A \subseteq Contract!InService
      BY DEF IInv, FlowInOrder, InService, Waiting, Contract!InService
    <3>2. produced \in [Requests -> Nat] /\ Target \in [Requests -> Nat]
      BY WorkloadAssumption DEF IInv, Typed, TypeOK
    <3>3. Contract!Serve(S, C)
      BY <2>3, <3>2 DEF FlowTick, Contract!Serve
    <3>. QED  BY <3>1, <3>3
  <2>4. CASE DrainDone \/ StopDrained \/ StopDuration \/ StopStuck \/ AdvanceClock
               \/ UNCHANGED vars
    BY <2>4 DEF DrainDone, StopDrained, StopDuration, StopStuck, Stop, AdvanceClock,
                flowVars, vars, Contract!vars
  <2>. QED  BY <2>1, <2>2, <2>3, <2>4 DEF Next, Pass, Stopped, Contract!Next
<1>. QED  BY <1>1, <1>2, Invariance, PTL DEF Spec, ReleasesByContract, Contract!SafeSpec

-----------------------------------------------------------------------------

\* A head that was due at the last drain and is not released yet has been noted.
BacklogNoted ==
    ~Saturated =>
       \A i \in HeadIndex :
          Arrival[Trace[i]] <= (IF phase = "drain" THEN clock - TickDt ELSE clock)
             => sched.backlogged

\* The mark is set by the drain that leaves a due head, and stays until the next.
LEMMA BacklogStep ==
    ASSUME IInv, BacklogNoted, [Next]_vars, ~Saturated
    PROVE  BacklogNoted'
<1>. SUFFICES ASSUME NEW i \in HeadIndex',
                     Arrival[Trace[i]] <= (IF phase' = "drain" THEN clock' - TickDt ELSE clock')
              PROVE  sched'.backlogged
  BY DEF BacklogNoted
<1>1. /\ clock \in Nat /\ TickDt \in Nat \ {0} /\ sched \in Sched
      /\ \A k \in 1 .. N : Arrival[Trace[k]] \in Nat
  BY Constants, TraceType DEF IInv, Typed, TypeOK
<1>2. ASSUME UNCHANGED << phase, clock, sched.cursor, sched.backlogged >>
      PROVE  sched'.backlogged
  BY <1>2 DEF BacklogNoted, HeadIndex, IsHeadRow
<1>3. ASSUME NEW q \in Requests, ReleaseSuccessor(q) PROVE sched'.backlogged
  <2>1. UNCHANGED << phase, clock, sched.cursor, sched.backlogged >>
    BY <1>1, <1>3 DEF ReleaseSuccessor, Sched
  <2>. QED  BY <1>2, <2>1
<1>4. ASSUME NEW k \in DOMAIN Trace, ReleaseHead(k) PROVE sched'.backlogged
  <2>1. /\ k \in HeadIndex /\ k \in 1 .. N /\ phase = "drain" /\ UNCHANGED << phase, clock >>
        /\ sched'.cursor = k + 1 /\ sched'.backlogged = sched.backlogged
    BY <1>1, <1>4, TraceType DEF ReleaseHead, BackloggedAfterRelease, Sched
  <2>2. i \in 1 .. N /\ k <= i
    BY <1>1, <2>1, TraceType DEF HeadIndex
  <2>3. Arrival[Trace[k]] <= Arrival[Trace[i]]
    BY <2>1, <2>2, TraceType, ReplayAssumption
  <2>. QED  BY <1>1, <2>1, <2>2, <2>3 DEF BacklogNoted
<1>5. ASSUME DrainDone PROVE sched'.backlogged
  <2>1. i \in HeadIndex /\ IsDue(Trace[i])
    BY <1>1, <1>5 DEF DrainDone, HeadIndex, IsHeadRow, IsDue, Sched
  <2>2. \A k \in HeadIndex : k = i
    BY <1>1, <2>1, TraceType DEF HeadIndex, Sched
  <2>. QED  BY <1>1, <1>5, <2>1, <2>2 DEF DrainDone, Sched
<1>6. ASSUME NEW A \in SUBSET Waiting, NEW S \in SUBSET (InService \cup A),
             NEW C \in SUBSET (InService \cup A), FlowTick(A, S, C)
      PROVE  sched'.backlogged
  <2>1. C \subseteq InFlight /\ C \in SUBSET Requests
    BY DEF IInv, Typed, TypeOK, FlowInOrder, InFlight, InService, Waiting
  <2>2. /\ phase = "serve" /\ phase' = "check" /\ clock' = clock
        /\ sched'.cursor = sched.cursor /\ sched'.backlogged = sched.backlogged
    BY <1>6, <2>1, TickSched DEF FlowTick
  <2>. QED  BY <2>2 DEF BacklogNoted, HeadIndex, IsHeadRow
<1>7. ASSUME AdvanceClock PROVE sched'.backlogged
  <2>1. /\ phase = "check" /\ phase' = "drain" /\ clock' = Min({clock + TickDt, Horizon})
        /\ sched'.cursor = sched.cursor /\ sched'.backlogged = sched.backlogged
    BY <1>1, <1>7 DEF AdvanceClock, Sched
  <2>2. clock' - TickDt <= clock /\ clock' \in Int
    BY <1>1, <2>1, ClockStep
  <2>3. i \in HeadIndex /\ i \in 1 .. N
    BY <1>1, <2>1, TraceType DEF HeadIndex, IsHeadRow, Sched
  <2>4. Arrival[Trace[i]] <= clock
    BY <1>1, <2>1, <2>2, <2>3
  <2>. QED  BY <2>1, <2>3, <2>4 DEF BacklogNoted
<1>8. CASE StopDrained \/ StopDuration \/ StopStuck \/ UNCHANGED vars
  BY <1>2, <1>8 DEF StopDrained, StopDuration, StopStuck, Stop, vars
<1>. QED  BY <1>3, <1>4, <1>5, <1>6, <1>7, <1>8 DEF Next, Pass, Stopped

\* A head that was due at the drain before is stamped with the instant its slot came
\* free, and any other with its own arrival or, past a waiting one, with that instant
\* (the Admission of ReplayScheduler and its capacity_backlogged).
THEOREM StampCorrect == Spec => StampHolds
<1>1. Init => BacklogNoted
  BY ReplayAssumption, TraceType, Constants DEF Init, BacklogNoted, HeadIndex
<1>2. IInv /\ BacklogNoted /\ [Next]_vars => BacklogNoted'
  BY BacklogStep DEF BacklogNoted
<1>3. ASSUME IInv, BacklogNoted, [Next]_vars,
             NEW r \in released' \ released, IsHeadRow(r), ~Saturated
      PROVE  IF clock - TickDt >= Arrival[r] THEN stamp'[r] = clock
                                             ELSE stamp'[r] \in {Arrival[r], clock}
  <2>1. ~\E q \in Requests : ReleaseSuccessor(q)
    BY <1>3, ReadyRound DEF ReleaseSuccessor, DueSuccessors
  <2>2. PICK i \in DOMAIN Trace : ReleaseHead(i)
    BY <1>3, <2>1 DEF Next, Pass, Stopped, DrainDone, FlowTick, StopDrained, StopDuration,
                      StopStuck, Stop, AdvanceClock, vars
  <2>3. /\ r = Trace[i] /\ i \in HeadIndex /\ phase = "drain" /\ r \in Requests
        /\ Arrival[r] <= clock
        /\ stamp' = [stamp EXCEPT ![r] = IF sched.backlogged THEN Max({Arrival[r], clock})
                                                             ELSE Arrival[r]]
    BY <1>3, <2>2, TraceType DEF ReleaseHead, IsDue, ReleaseTime
  <2>4. clock \in Nat /\ Arrival[r] \in Nat /\ stamp \in [Requests -> Nat] /\ TickDt \in Nat
    <3>1. TypeOK
      BY <1>3 DEF IInv, Typed
    <3>. QED  BY <2>3, <3>1, Constants DEF TypeOK
  <2>5. Max({Arrival[r], clock}) = clock
    BY <2>3, <2>4, PairBounds
  <2>6. stamp'[r] = IF sched.backlogged THEN clock ELSE Arrival[r]
    BY <2>3, <2>4, <2>5
  <2>7. clock - TickDt >= Arrival[r] => sched.backlogged
    BY <1>3, <2>3, <2>4 DEF BacklogNoted
  <2>. QED  BY <2>6, <2>7
<1>4. IInv /\ BacklogNoted /\ [Next]_vars
        => [ \A r \in released' \ released :
               (IsHeadRow(r) /\ ~Saturated) =>
                  IF clock - TickDt >= Arrival[r]
                  THEN stamp'[r] = clock
                  ELSE stamp'[r] \in {Arrival[r], clock} ]_vars
  BY <1>3
<1>. QED  BY <1>1, <1>2, <1>4, Invariance, PTL DEF Spec, StampHolds

-----------------------------------------------------------------------------
(* Why the loop stops. *)

\* The flow ticks since the watchdog's last sample.
SinceSample == (IF phase = "check" THEN SamplePeriod ELSE SamplePeriod - 1) - watchdog.gate

\* What the watchdog compares only grows.
ProgressGrows ==
    /\ watchdog.prev.completed <= Cardinality(completed)
    /\ watchdog.prev.admitted <= Cardinality(admitted)
    /\ watchdog.prev.tokens <= SumOver(produced, admitted)

\* A flow that has something to do and has done nothing since a sample has been
\* quiet ever since.
QuietSince ==
    /\ ~Exhausted => watchdog.prev = NoProgress
    /\ Exhausted /\ Busy /\ Liveness = watchdog.prev /\ watchdog.prev # NoProgress
          => quiet >= SinceSample

\* A flow that has admitted nothing by the end of a pass has nothing to admit, and
\* a loop that has stopped stopped for its reason.
CauseInv ==
    /\ ProgressGrows /\ QuietSince
    /\ phase = "check" /\ admitted = {} => ~Busy
    /\ cause # "running" => phase = "check"
    /\ CauseHolds

\* What a sample is, before and after a step.
LEMMA LivenessIs ==
    /\ Liveness = [completed |-> Cardinality(completed), admitted |-> Cardinality(admitted),
                   tokens |-> SumOver(produced, admitted)]
    /\ Liveness' = [completed |-> Cardinality(completed'), admitted |-> Cardinality(admitted'),
                    tokens |-> SumOver(produced', admitted')]
BY DEF Liveness

\* The three counts are numbers.
LEMMA CountsType ==
    ASSUME IInv
    PROVE  /\ Cardinality(completed) \in Nat /\ Cardinality(admitted) \in Nat
           /\ SumOver(produced, admitted) \in Nat
           /\ IsFiniteSet(completed) /\ IsFiniteSet(admitted)
           /\ \A r \in Requests : produced[r] \in Nat
           /\ watchdog.prev \in Progress
<1>1. /\ completed \subseteq Requests /\ admitted \subseteq Requests
      /\ produced \in [Requests -> Nat] /\ watchdog \in Watchdog
  BY DEF IInv, Typed, TypeOK
<1>2. IsFiniteSet(completed) /\ IsFiniteSet(admitted)
  BY <1>1, Constants, FS_Subset
<1>3. SumOver(produced, admitted) \in Nat
  <2>1. \A r \in admitted : produced[r] \in Nat
    BY <1>1
  <2>. QED  BY <1>2, <2>1, SumType
<1>. QED  BY <1>1, <1>2, <1>3, FS_CardinalityType DEF Watchdog

\* A finite set that gains elements counts more.
LEMMA CountGrows ==
    ASSUME NEW X, NEW Y, IsFiniteSet(X), IsFiniteSet(X \cup Y), X \cap Y = {}
    PROVE  /\ Cardinality(X) <= Cardinality(X \cup Y)
           /\ Y # {} => Cardinality(X) < Cardinality(X \cup Y)
<1>1. X \in SUBSET (X \cup Y) /\ (Y # {} => X # X \cup Y)
  OBVIOUS
<1>. QED  BY <1>1, FS_Subset, FS_CardinalityType

\* A tick in which the flow does something moves one of the counts on, and none back.
LEMMA CountsGrow ==
    ASSUME IInv, IInv', NEW A \in SUBSET Waiting, NEW S \in SUBSET (InService \cup A),
           NEW C \in SUBSET (InService \cup A), FlowTick(A, S, C)
    PROVE  /\ Cardinality(completed) <= Cardinality(completed')
           /\ Cardinality(admitted) <= Cardinality(admitted')
           /\ SumOver(produced, admitted) <= SumOver(produced', admitted')
           /\ Cardinality(completed') \in Nat /\ Cardinality(admitted') \in Nat
           /\ SumOver(produced', admitted') \in Nat
           /\ A \cup S \cup C # {} =>
                 \/ Cardinality(completed) < Cardinality(completed')
                 \/ Cardinality(admitted) < Cardinality(admitted')
                 \/ SumOver(produced, admitted) < SumOver(produced', admitted')
<1>1. /\ completed' = completed \cup C /\ admitted' = admitted \cup A
      /\ produced' = [r \in Requests |-> IF r \in S THEN produced[r] + 1 ELSE produced[r]]
  BY DEF FlowTick
<1>2. /\ A \cap admitted = {} /\ C \cap completed = {} /\ S \subseteq admitted'
      /\ admitted' \subseteq Requests /\ completed' \subseteq Requests
  BY <1>1 DEF IInv, Typed, TypeOK, FlowInOrder, Waiting, InService
<1>3. /\ IsFiniteSet(completed') /\ IsFiniteSet(admitted')
      /\ IsFiniteSet(completed) /\ IsFiniteSet(admitted)
      /\ \A r \in Requests : produced[r] \in Nat
  BY <1>1, <1>2, Constants, CountsType, FS_Subset
<1>4. /\ Cardinality(completed) <= Cardinality(completed')
      /\ C # {} => Cardinality(completed) < Cardinality(completed')
  BY <1>1, <1>2, <1>3, CountGrows
<1>5. /\ Cardinality(admitted) <= Cardinality(admitted')
      /\ A # {} => Cardinality(admitted) < Cardinality(admitted')
  BY <1>1, <1>2, <1>3, CountGrows
<1>6. SumOver(produced, admitted) <= SumOver(produced, admitted')
  <2>1. admitted \in SUBSET admitted' /\ \A r \in admitted' : produced[r] \in Nat
    BY <1>1, <1>2, <1>3
  <2>. QED  BY <1>3, <2>1, SumSubset
<1>7. /\ SumOver(produced, admitted') <= SumOver(produced', admitted')
      /\ S # {} => SumOver(produced, admitted') < SumOver(produced', admitted')
  <2> DEFINE f == [r \in Requests |-> IF r \in S THEN 1 ELSE 0]
  <2>1. \A r \in admitted' : /\ produced[r] \in Int /\ f[r] \in Int
                             /\ produced'[r] = produced[r] + f[r]
                             /\ f[r] \in Nat
    BY <1>1, <1>2, <1>3
  <2>2. \A r \in S : f[r] = 1
    BY <1>2
  <2> HIDE DEF f
  <2>3. SumOver(produced', admitted') = SumOver(produced, admitted') + SumOver(f, admitted')
    BY <1>3, <2>1, SumAdd
  <2>4. SumOver(f, S) <= SumOver(f, admitted')
    BY <1>2, <1>3, <2>1, SumSubset
  <2>5. IsFiniteSet(S)
    BY <1>2, <1>3, FS_Subset
  <2>6. SumOver(f, S) = Cardinality(S)
    BY <2>2, <2>5, SumOnes
  <2>7. Cardinality(S) \in Nat /\ (S # {} => Cardinality(S) # 0)
    BY <2>5, FS_CardinalityType, FS_EmptySet
  <2>8. SumOver(produced, admitted') \in Nat /\ SumOver(f, admitted') \in Nat
    BY <1>3, <2>1, <1>2, SumType
  <2>. QED  BY <2>3, <2>4, <2>6, <2>7, <2>8
<1>8. /\ Cardinality(completed) \in Nat /\ Cardinality(completed') \in Nat
      /\ Cardinality(admitted) \in Nat /\ Cardinality(admitted') \in Nat
      /\ SumOver(produced, admitted) \in Nat /\ SumOver(produced', admitted') \in Nat
      /\ SumOver(produced, admitted') \in Nat
  <2>1. \A r \in admitted' : produced[r] \in Nat
    BY <1>2, <1>3
  <2>2. \A r \in admitted' : produced'[r] \in Nat
    BY <1>1, <1>2, <1>3
  <2>. QED  BY <1>3, <2>1, <2>2, CountsType, SumType, FS_CardinalityType
<1>9. CASE C # {}
  BY <1>4, <1>5, <1>6, <1>7, <1>8, <1>9
<1>10. CASE A # {}
  BY <1>4, <1>5, <1>6, <1>7, <1>8, <1>10
<1>11. CASE S # {}
  BY <1>4, <1>5, <1>6, <1>7, <1>8, <1>11
<1>. QED  BY <1>4, <1>5, <1>6, <1>7, <1>8, <1>9, <1>10, <1>11

\* The watchdog keeps its count of a tick of the flow.
LEMMA CauseTick ==
    ASSUME IInv, IInv', CauseInv, NEW A \in SUBSET Waiting,
           NEW S \in SUBSET (InService \cup A), NEW C \in SUBSET (InService \cup A),
           FlowTick(A, S, C)
    PROVE  CauseInv'
<1>1. /\ phase = "serve" /\ phase' = "check"
      /\ UNCHANGED << clock, cause, released, stamp, watchdog >>
      /\ completed' = completed \cup C /\ admitted' = admitted \cup A
      /\ quiet' = IF A \cup S \cup C # {} \/ ~Busy THEN 0 ELSE quiet + 1
      /\ produced' = [r \in Requests |-> IF r \in S THEN produced[r] + 1 ELSE produced[r]]
  BY DEF FlowTick
<1>2. cause = "running"
  BY <1>1 DEF CauseInv
<1>3. /\ watchdog.prev \in Progress /\ SinceSample \in Int
      /\ SinceSample' = SinceSample + 1 /\ quiet \in Nat
  <2>1. watchdog \in Watchdog /\ quiet \in 0 .. MaxQuiet
    BY DEF IInv, Typed, TypeOK
  <2>. QED  BY <1>1, <2>1, Constants DEF Watchdog, SinceSample
<1>4. ProgressGrows'
  <2>1. /\ watchdog.prev.completed \in Nat /\ watchdog.prev.admitted \in Nat
        /\ watchdog.prev.tokens \in Nat /\ watchdog'.prev = watchdog.prev
    BY <1>1, <1>3 DEF Progress
  <2>2. watchdog.prev.completed <= Cardinality(completed')
    BY <1>3, <2>1, CountsGrow, CountsType DEF CauseInv, ProgressGrows
  <2>3. watchdog.prev.admitted <= Cardinality(admitted')
    BY <1>3, <2>1, CountsGrow, CountsType DEF CauseInv, ProgressGrows
  <2>4. watchdog.prev.tokens <= SumOver(produced', admitted')
    BY <1>3, <2>1, CountsGrow, CountsType DEF CauseInv, ProgressGrows
  <2>. QED  BY <2>1, <2>2, <2>3, <2>4 DEF ProgressGrows
<1>5. A \cup S \cup C # {} => Liveness' # watchdog'.prev
  <2>. SUFFICES ASSUME A \cup S \cup C # {}, Liveness' = watchdog.prev PROVE FALSE
    BY <1>1
  <2>1. /\ watchdog.prev.completed = Cardinality(completed')
        /\ watchdog.prev.admitted = Cardinality(admitted')
        /\ watchdog.prev.tokens = SumOver(produced', admitted')
    BY LivenessIs
  <2>2. /\ Cardinality(completed') <= Cardinality(completed)
        /\ Cardinality(admitted') <= Cardinality(admitted)
        /\ SumOver(produced', admitted') <= SumOver(produced, admitted)
    BY <2>1 DEF CauseInv, ProgressGrows
  <2>3. CASE Cardinality(completed) < Cardinality(completed')
    BY <2>2, <2>3, CountsGrow, CountsType
  <2>4. CASE Cardinality(admitted) < Cardinality(admitted')
    BY <2>2, <2>4, CountsGrow, CountsType
  <2>5. CASE SumOver(produced, admitted) < SumOver(produced', admitted')
    BY <2>2, <2>5, CountsGrow, CountsType
  <2>. QED  BY <2>3, <2>4, <2>5, CountsGrow
<1>6. A \cup S \cup C = {} => /\ UNCHANGED << completed, admitted, produced >>
                              /\ Busy' = Busy /\ Liveness' = Liveness
  <2>1. produced \in [Requests -> Nat]
    BY DEF IInv, Typed, TypeOK
  <2>. QED  BY <1>1, <2>1, LivenessIs DEF Busy, InService, Waiting
<1>7. QuietSince'
  <2>1. CASE A \cup S \cup C # {}
    BY <1>1, <1>5, <2>1 DEF CauseInv, QuietSince, Exhausted
  <2>2. CASE A \cup S \cup C = {}
    BY <1>1, <1>3, <1>6, <2>2 DEF CauseInv, QuietSince, Exhausted
  <2>. QED  BY <2>1, <2>2
<1>8. admitted' = {} => ~Busy'
  <2>1. SUFFICES ASSUME admitted' = {} PROVE ~Busy'
    OBVIOUS
  <2>2. A = {} /\ admitted = {} /\ InService = {}
    BY <1>1, <2>1 DEF InService
  <2>3. A \cup S \cup C = {}
    BY <2>2
  <2>4. ~Busy
    BY <2>2, <2>3 DEF FlowTick
  <2>. QED  BY <1>6, <2>3, <2>4
<1>9. CauseHolds'
  BY <1>1, <1>2 DEF CauseHolds
<1>. QED  BY <1>1, <1>2, <1>4, <1>7, <1>8, <1>9 DEF CauseInv

\* A loop that stops has a completed drain, a clock past the duration, or a flow that
\* has been quiet for longer than one that can move.
LEMMA CauseStop ==
    ASSUME IInv, CauseInv, StopDrained \/ StopDuration \/ StopStuck
    PROVE  CauseInv'
<1>1. /\ phase = "check" /\ cause = "running"
      /\ UNCHANGED << clock, phase, released, stamp, sched, watchdog, admitted, produced,
                      completed, quiet >>
  BY DEF StopDrained, StopDuration, StopStuck, Stop, flowVars
<1>2. CASE StopDrained
  <2>1. cause' = "DrainComplete" /\ released = Requests /\ released \ completed = {}
    BY <1>2 DEF StopDrained, Stop, DrainComplete, Exhausted, InFlight
  <2>2. completed \subseteq Requests
    BY DEF IInv, Typed, TypeOK
  <2>. QED  BY <1>1, <2>1, <2>2, LivenessIs DEF CauseHolds, CauseInv, ProgressGrows, QuietSince,
            SinceSample, Exhausted, Busy, InService, Waiting
<1>3. CASE StopDuration
  <2>1. cause' = "DurationReached" /\ ~RunToEnd /\ clock >= Duration
    BY <1>3 DEF StopDuration, Stop, DurationReached
  <2>. QED  BY <1>1, <2>1, LivenessIs DEF CauseHolds, CauseInv, ProgressGrows, QuietSince,
            SinceSample, Exhausted, Busy, InService, Waiting
<1>4. CASE StopStuck
  <2>1. /\ cause' = "Stuck" /\ Exhausted /\ InFlight # {} /\ watchdog.gate = 0
        /\ Liveness = watchdog.prev
    BY <1>4 DEF StopStuck, Stop, Stuck, Sampled
  <2>2. ~Busy
    <3>1. SUFFICES ASSUME Busy PROVE FALSE
      OBVIOUS
    <3>2. watchdog.prev # NoProgress
      <4>1. Cardinality(admitted) # 0
        BY <1>1, <3>1, CountsType, FS_EmptySet DEF CauseInv
      <4>. QED  BY <2>1, <4>1, LivenessIs DEF NoProgress
    <3>3. quiet >= SamplePeriod
      BY <1>1, <2>1, <3>1, <3>2, Constants DEF CauseInv, QuietSince, SinceSample
    <3>4. quiet \in 0 .. MaxQuiet
      BY DEF IInv, Typed, TypeOK
    <3>. QED  BY <3>3, <3>4, Constants
  <2>. QED  BY <1>1, <2>1, <2>2, LivenessIs DEF CauseHolds, CauseInv, ProgressGrows, QuietSince,
            SinceSample, Exhausted, InFlight, Busy, InService, Waiting
<1>. QED  BY <1>2, <1>3, <1>4

\* Between two samples the countdown counts the passes of the clock.
LEMMA CauseClock ==
    ASSUME IInv, CauseInv, AdvanceClock
    PROVE  CauseInv'
<1>1. /\ phase = "check" /\ phase' = "drain" /\ cause = "running" /\ ~DrainComplete
      /\ watchdog' = WatchdogAfter
      /\ UNCHANGED << cause, released, stamp, admitted, produced, completed, quiet >>
  BY DEF AdvanceClock, flowVars
<1>2. /\ watchdog \in Watchdog /\ quiet \in Nat
  BY DEF IInv, Typed, TypeOK
<1>3. Busy' = Busy /\ Liveness' = Liveness /\ Exhausted' = Exhausted
  BY <1>1, LivenessIs DEF Busy, InService, Waiting, Exhausted
<1>4. CASE Sampled
  <2>1. watchdog'.gate = SamplePeriod - 1 /\ watchdog'.prev = Liveness /\ Exhausted
    BY <1>1, <1>4 DEF WatchdogAfter, Sampled
  <2>2. ProgressGrows'
    BY <1>1, <2>1, LivenessIs, CountsType DEF ProgressGrows
  <2>3. SinceSample' = 0
    BY <1>1, <2>1, Constants DEF SinceSample
  <2>4. QuietSince'
    BY <1>1, <1>2, <1>3, <2>1, <2>3 DEF QuietSince
  <2>. QED  BY <1>1, <2>2, <2>4 DEF CauseInv, CauseHolds
<1>5. CASE ~Sampled /\ Exhausted
  <2>1. watchdog' = [watchdog EXCEPT !.gate = watchdog.gate - 1]
    BY <1>1, <1>5 DEF WatchdogAfter
  <2>2. watchdog'.gate = watchdog.gate - 1 /\ watchdog'.prev = watchdog.prev
    BY <1>2, <2>1 DEF Watchdog
  <2>3. SinceSample' = SinceSample
    BY <1>1, <1>2, <2>2, Constants DEF SinceSample, Watchdog
  <2>. QED  BY <1>1, <1>3, <2>2, <2>3 DEF CauseInv, CauseHolds, ProgressGrows, QuietSince
<1>6. CASE ~Sampled /\ ~Exhausted
  <2>1. watchdog' = watchdog
    BY <1>1, <1>6 DEF WatchdogAfter
  <2>. QED  BY <1>1, <1>3, <1>6, <2>1 DEF CauseInv, CauseHolds, ProgressGrows, QuietSince
<1>. QED  BY <1>4, <1>5, <1>6

\* The loop never stops for a reason it has not.
LEMMA CauseStep ==
    ASSUME IInv, IInv', CauseInv, [Next]_vars
    PROVE  CauseInv'
<1>1. ASSUME phase = "drain", phase' \in {"drain", "serve"},
             released \subseteq released', released' # released => released # Requests,
             UNCHANGED << cause, watchdog, admitted, produced, completed, quiet >>
      PROVE  CauseInv'
  <2>1. cause = "running" /\ SinceSample' = SinceSample /\ Liveness' = Liveness
    BY <1>1, LivenessIs DEF CauseInv, SinceSample
  <2>2. ProgressGrows'
    BY <1>1 DEF CauseInv, ProgressGrows
  <2>3. QuietSince'
    <3>1. CASE released' = released
      BY <1>1, <2>1, <3>1 DEF CauseInv, QuietSince, Exhausted, Busy, InService, Waiting
    <3>2. CASE released' # released
      BY <1>1, <3>2 DEF CauseInv, QuietSince, Exhausted
    <3>. QED  BY <3>1, <3>2
  <2>. QED  BY <1>1, <2>1, <2>2, <2>3 DEF CauseInv, CauseHolds
<1>2. ASSUME NEW q \in Requests, ReleaseSuccessor(q) PROVE CauseInv'
  <2>1. q \notin released
    BY <1>2 DEF IInv, ReadyWaits, ReleaseSuccessor, DueSuccessors
  <2>. QED  BY <1>1, <1>2, <2>1 DEF ReleaseSuccessor, flowVars
<1>3. ASSUME NEW i \in DOMAIN Trace, ReleaseHead(i) PROVE CauseInv'
  <2>1. /\ i \in 1 .. N /\ Trace[i] \in Requests /\ i >= sched.cursor
        /\ IsHeadRow(Trace[i]) /\ released' = released \cup {Trace[i]}
    BY <1>3, TraceType DEF ReleaseHead, HeadIndex
  <2>2. Trace[i] \notin released
    BY <2>1 DEF IInv, HeadsAhead
  <2>. QED  BY <1>1, <1>3, <2>1, <2>2 DEF ReleaseHead, flowVars
<1>4. CASE DrainDone
  BY <1>1, <1>4 DEF DrainDone, flowVars
<1>5. CASE UNCHANGED vars
  BY <1>5, LivenessIs DEF vars, CauseInv, CauseHolds, ProgressGrows, QuietSince, SinceSample,
              Exhausted, InFlight, Busy, InService, Waiting
<1>. QED  BY <1>2, <1>3, <1>4, <1>5, CauseTick, CauseStop, CauseClock
         DEF Next, Pass, Stopped

\* The loop stops for the reason it gives: a completed drain left nothing behind, a
\* duration has passed, and the watchdog (liveness(), EveryN) stops only a flow that
\* has requests in flight and nothing it can do.
THEOREM CauseCorrect == Spec => []CauseHolds
<1>1. Init => CauseInv
  <2>. SUFFICES ASSUME Init PROVE CauseInv
    OBVIOUS
  <2>1. ProgressGrows
    <3>1. IInv
      BY InitInv
    <3>. QED  BY <3>1, CountsType DEF Init, ProgressGrows, NoProgress
  <2>. QED  BY <2>1 DEF Init, CauseInv, QuietSince, CauseHolds
<1>2. IInv /\ IInv' /\ CauseInv /\ [Next]_vars => CauseInv'
  BY CauseStep
<1>3. CauseInv => CauseHolds
  BY DEF CauseInv
<1>. QED  BY <1>1, <1>2, <1>3, Invariance, PTL DEF Spec
=============================================================================
