------------------------------- MODULE Replay -------------------------------
(***************************************************************************)
(* The simulation loop run_sim (sim/run.rs) with the trace frontend it      *)
(* drives (sim/frontend): every pass drains the arrivals due by now, ticks  *)
(* the flow, checks for termination and advances the clock.  The drain      *)
(* asks the ReplayScheduler for one release after another.                  *)
(*                                                                         *)
(* The flow is the one of ServingContract.  What the loop needs beyond it   *)
(* is how long a flow may be quiet, MaxQuiet, and which requests it never   *)
(* admits, Unservable: a request whose footprint exceeds its partition      *)
(* stays at the head of a pending queue, with all that rank behind it.      *)
(*                                                                         *)
(* Chained replay only: on a trace without sessions it is the independent   *)
(* one, with each request a unit of its own.                                *)
(***************************************************************************)
EXTENDS Workload, FiniteSums, Sequences, FiniteSetsExt

CONSTANTS
    Trace,           \* the rows in their order
    Arrival,         \* trace arrival of each row
    ToolWait,        \* tool_wait_after of each row
    Saturated,       \* ArrivalMode: everything due at once, or trace-timed
    MaxUnits,        \* max_active_units
    TickDt,          \* tick_dt
    RunToEnd, Duration,
    SamplePeriod,    \* ticks between two watchdog samples
    StuckThreshold,  \* no-progress budget, in time
    Unservable,      \* requests the flow cannot admit
    MaxQuiet,        \* ticks a flow with something to do may do nothing
    Horizon          \* bound of the clock; nothing depends on it beyond

\* build_chains: the round before is the latest earlier row of the session.
PreviousRound(j) ==
    LET earlier == { i \in 1 .. j - 1 : /\ HasSession(Trace[j])
                                        /\ SessionOf[Trace[i]] = SessionOf[Trace[j]] }
    IN  IF earlier = {} THEN NoRequest ELSE Trace[Max(earlier)]

ASSUME ReplayAssumption ==
    /\ Trace \in [1 .. Cardinality(Requests) -> Requests]
    /\ \A r \in Requests : \E i \in DOMAIN Trace : Trace[i] = r
    /\ \A j \in DOMAIN Trace : Before[Trace[j]] = PreviousRound(j)
    /\ Arrival \in [Requests -> Nat] /\ ToolWait \in [Requests -> Nat]
    /\ \A i, j \in DOMAIN Trace : i <= j => Arrival[Trace[i]] <= Arrival[Trace[j]]
    /\ Saturated \in BOOLEAN /\ RunToEnd \in BOOLEAN
    /\ MaxUnits \in Nat \ {0} /\ TickDt \in Nat \ {0}
    /\ Horizon \in Nat /\ Duration \in 0 .. Horizon
    /\ \A r \in Requests : Arrival[r] <= Horizon
    /\ SamplePeriod \in Nat \ {0} /\ StuckThreshold \in Nat
    /\ Unservable \subseteq Requests
    /\ MaxQuiet \in 0 .. SamplePeriod - 1

VARIABLES
    clock,
    phase,      \* where the pass stands: "drain", "serve", "check"
    cause,      \* why the loop stopped, "running" while it has not
    released,   \* requests emitted to the flow
    stamp,      \* arrival time each was stamped with
    sched,      \* the ReplayScheduler: cursor, ready (the tool wait left to
                \* each unlocked round; one due is taken by the next drain), open sessions, standalone
                \* rows in flight, capacity_backlogged
    admitted, produced, completed,  \* progress of the flow
    quiet,      \* ticks since the flow did anything
    watchdog    \* gate (countdown of EveryN), prev_progress, idle_for

vars == << clock, phase, cause, released, stamp, sched, admitted, produced,
           completed, quiet, watchdog >>

NoProgress == [completed |-> 0, admitted |-> 0, tokens |-> 0]

Init ==
    /\ clock = 0 /\ phase = "drain" /\ cause = "running"
    /\ released = {} /\ stamp = [r \in Requests |-> 0]
    /\ sched = [cursor |-> 1, ready |-> << >>, open |-> {}, standalone |-> 0,
                backlogged |-> FALSE]
    /\ admitted = {} /\ produced = [r \in Requests |-> 0] /\ completed = {}
    /\ quiet = 0
    /\ watchdog = [gate |-> 0, prev |-> NoProgress, idle |-> 0]

flowVars == << admitted, produced, completed, quiet >>

-----------------------------------------------------------------------------
(* drain_due. *)

\* As ActiveUnits, were the requests in flight counted and not the sessions.
RequestsInFlight == Cardinality(released \ completed)

\* A session holds its slot through its tool waits.
ActiveUnits == Cardinality(sched.open) + sched.standalone

AdmitsNewUnit == ActiveUnits < MaxUnits

Successors(r) == { q \in Requests : Before[q] = r }

\* As IsHeadRow, were later rounds not stepped over.
EveryRowAHead(r) == TRUE
IsHeadRow(r) == Before[r] = NoRequest

\* The next session head in trace order, if any; rows of a chain are skipped.
HeadIndex == { i \in sched.cursor .. Len(Trace) :
                 /\ IsHeadRow(Trace[i])
                 /\ \A k \in sched.cursor .. i - 1 : ~IsHeadRow(Trace[k]) }

IsDue(r) == Saturated \/ Arrival[r] <= clock
ReleaseTime(r) == IF Saturated THEN clock ELSE Arrival[r]

\* As SuccessorMayEnter, were the cap asked again.
SuccessorNeedsSlot == AdmitsNewUnit
SuccessorMayEnter == TRUE

DueSuccessors ==
    { q \in DOMAIN sched.ready : sched.ready[q] <= 0 /\ SuccessorMayEnter }

\* Live conversations first, the earliest due among them, whatever the cap.
ReleaseSuccessor(q) ==
    /\ phase = "drain"
    /\ q \in DueSuccessors
    /\ \A other \in DueSuccessors : sched.ready[q] <= sched.ready[other]
    /\ released' = released \cup {q}
    /\ stamp' = [stamp EXCEPT ![q] = clock]
    /\ sched' = [sched EXCEPT !.ready =
                    [s \in DOMAIN sched.ready \ {q} |-> sched.ready[s]]]
    /\ UNCHANGED << clock, phase, cause, watchdog, flowVars >>

\* As BackloggedAfterRelease, were the mark cleared by the first admission.
ClearedByRelease == FALSE
BackloggedAfterRelease == sched.backlogged

ReleaseHead(i) ==
    /\ phase = "drain"
    /\ DueSuccessors = {}
    /\ i \in HeadIndex
    /\ LET r == Trace[i]
       IN  /\ IsDue(r)
           /\ AdmitsNewUnit
           /\ released' = released \cup {r}
           /\ stamp' = [stamp EXCEPT
                 ![r] = IF sched.backlogged THEN Max({ReleaseTime(r), clock})
                                            ELSE ReleaseTime(r)]
           /\ sched' = [sched EXCEPT
                 !.cursor = i + 1,
                 !.backlogged = BackloggedAfterRelease,
                 !.open = IF HasSession(r) THEN @ \cup {SessionOf[r]} ELSE @,
                 !.standalone = IF HasSession(r) THEN @ ELSE @ + 1]
    /\ UNCHANGED << clock, phase, cause, watchdog, flowVars >>

\* next_ready says no: the head is not due yet, or due and without a slot.
DrainDone ==
    /\ phase = "drain"
    /\ DueSuccessors = {}
    /\ \A i \in HeadIndex : IsDue(Trace[i]) => ~AdmitsNewUnit
    /\ sched' = [sched EXCEPT !.backlogged =
          IF HeadIndex = {} THEN @ ELSE \A i \in HeadIndex : IsDue(Trace[i])]
    /\ phase' = "serve"
    /\ UNCHANGED << clock, cause, released, stamp, watchdog, flowVars >>

-----------------------------------------------------------------------------
(* flow.tick and record_completion. *)

Waiting == released \ admitted
InService == admitted \ completed

\* The flow has something it is bound to get done.
Busy == InService # {} \/ (Waiting # {} /\ Waiting \cap Unservable = {})

\* A session's slot is freed by its last round; any other round unlocks its
\* successor, due when the tool wait has passed.
AfterCompletion(C) ==
    LET unlocked == { q \in Requests : Before[q] \in C }
        last     == { r \in C : Successors(r) = {} }
    IN  [sched EXCEPT
            !.ready = [q \in DOMAIN sched.ready \cup unlocked |->
                          IF q \in unlocked THEN ToolWait[Before[q]]
                                            ELSE sched.ready[q]],
            !.open = @ \ { SessionOf[r] : r \in last },
            !.standalone = @ - Cardinality({ r \in C : ~HasSession(r) })]

\* One tick of the flow: it admits A, gives S a token each and completes C.
\* The workers are idle before the first arrival, and admit it at once.
FlowTick(A, S, C) ==
    /\ phase = "serve"
    /\ A \subseteq Waiting \ Unservable
    /\ S \cup C \subseteq InService \cup A
    /\ \A r \in S : produced[r] < Target[r]
    /\ produced' = [r \in Requests |->
                      IF r \in S THEN produced[r] + 1 ELSE produced[r]]
    /\ \A r \in C : produced'[r] = Target[r]
    /\ Busy /\ (quiet = MaxQuiet \/ admitted = {}) => A \cup S \cup C # {}
    /\ quiet' = IF A \cup S \cup C # {} \/ ~Busy THEN 0 ELSE quiet + 1
    /\ admitted' = admitted \cup A
    /\ completed' = completed \cup C
    /\ sched' = AfterCompletion(C)
    /\ phase' = "check"
    /\ UNCHANGED << clock, cause, released, stamp, watchdog >>

-----------------------------------------------------------------------------
(* Termination, watchdog, clock. *)

Exhausted == released = Requests
InFlight == released \ completed

DrainComplete == Exhausted /\ InFlight = {}

DurationReached == ~RunToEnd /\ clock >= Duration

\* As liveness(), were the tokens not part of the progress compared.
CompletionsAndAdmissions == [completed |-> Cardinality(completed),
    admitted |-> Cardinality(admitted), tokens |-> 0]

\* liveness(): what two watchdog samples compare.
Liveness == [completed |-> Cardinality(completed),
             admitted  |-> Cardinality(admitted),
             tokens    |-> SumOver(produced, admitted)]

\* As Sampled, were the countdown to fire one early and wrap.
SampledEarly == Exhausted /\ InFlight # {} /\ watchdog.gate = 1

\* EveryN::fire, asked only once the trace is exhausted.
Sampled == Exhausted /\ InFlight # {} /\ watchdog.gate = 0

IdleFor == watchdog.idle + SamplePeriod * TickDt

Stuck == Sampled /\ Liveness = watchdog.prev /\ IdleFor >= StuckThreshold

WatchdogAfter ==
    IF Sampled
    THEN [gate |-> SamplePeriod - 1, prev |-> Liveness,
          idle |-> IF Liveness = watchdog.prev THEN IdleFor ELSE 0]
    ELSE IF Exhausted THEN [watchdog EXCEPT !.gate = @ - 1] ELSE watchdog

Stop(why) ==
    /\ phase = "check"
    /\ cause = "running"
    /\ cause' = why
    /\ UNCHANGED << clock, phase, released, stamp, sched, watchdog, flowVars >>

StopDrained  == DrainComplete /\ Stop("DrainComplete")
StopDuration == ~DrainComplete /\ DurationReached /\ Stop("DurationReached")
StopStuck    == /\ ~DrainComplete /\ ~DurationReached
                /\ Stuck /\ Stop("Stuck")

AdvanceClock ==
    /\ phase = "check"
    /\ cause = "running"
    /\ ~DrainComplete /\ ~DurationReached /\ ~Stuck
    /\ watchdog' = WatchdogAfter
    /\ clock' = Min({clock + TickDt, Horizon})
    /\ sched' = [sched EXCEPT !.ready =
                    [q \in DOMAIN sched.ready |->
                        Max({sched.ready[q] - TickDt, -TickDt})]]
    /\ phase' = "drain"
    /\ UNCHANGED << cause, released, stamp, flowVars >>

Stopped == cause # "running" /\ UNCHANGED vars

Pass ==
    \/ \E q \in Requests : ReleaseSuccessor(q)
    \/ \E i \in DOMAIN Trace : ReleaseHead(i)
    \/ DrainDone
    \/ \E A \in SUBSET Waiting :
          \E S \in SUBSET (InService \cup A), C \in SUBSET (InService \cup A) :
             FlowTick(A, S, C)
    \/ StopDrained \/ StopDuration \/ StopStuck \/ AdvanceClock

Next == Pass \/ Stopped

\* The loop runs until it breaks.
Spec == Init /\ [][Next]_vars /\ WF_vars(Pass)

-----------------------------------------------------------------------------
(* Properties. *)

TypeOK ==
    /\ clock \in 0 .. Horizon
    /\ phase \in {"drain", "serve", "check"}
    /\ cause \in {"running", "DrainComplete", "DurationReached", "Stuck"}
    /\ released \subseteq Requests /\ completed \subseteq Requests
    /\ admitted \subseteq Requests
    /\ stamp \in [Requests -> Nat] /\ produced \in [Requests -> Nat]
    /\ sched.cursor \in 1 .. Len(Trace) + 1
    /\ DOMAIN sched.ready \subseteq Requests
    /\ \A q \in DOMAIN sched.ready : sched.ready[q] >= -TickDt
    /\ sched.open \subseteq Sessions /\ sched.standalone \in Nat
    /\ sched.backlogged \in BOOLEAN
    /\ quiet \in 0 .. MaxQuiet
    /\ watchdog.gate \in 0 .. SamplePeriod - 1 /\ watchdog.idle \in Nat

\* "A cap of two means two conversations": sessions begun and not finished,
\* tool waits included, with the standalone requests in flight.
CapHolds ==
    LET begun == { s \in Sessions : \E r \in released : SessionOf[r] = s }
        over  == { s \in Sessions : \A r \in Requests :
                      SessionOf[r] = s => r \in completed }
    IN  Cardinality(begun \ over)
          + Cardinality({ r \in InFlight : ~HasSession(r) }) <= MaxUnits

\* A head enters with its own arrival time, to the instant and not to the tick,
\* unless the cap held it back: one due by the previous drain already is
\* stamped with the instant of its slot, its deferred peers included.
StampHolds ==
    [][ \A r \in released' \ released :
          (IsHeadRow(r) /\ ~Saturated) =>
             IF clock - TickDt >= Arrival[r]
             THEN stamp'[r] = clock
             ELSE stamp'[r] \in {Arrival[r], clock} ]_vars

\* The loop stops for the reason it gives: a completed drain leaves nothing
\* unreleased and nothing in flight, and Stuck is a flow that has nothing left
\* it can do, never a slow one.
CauseHolds ==
    /\ cause = "DrainComplete" => completed = Requests
    /\ cause = "DurationReached" => ~RunToEnd /\ clock >= Duration
    /\ cause = "Stuck" => Exhausted /\ InFlight # {} /\ ~Busy

\* Every run comes to an end.
Terminates == <>(cause # "running")

\* The releases keep to the contract the flow is served by: each row once, and
\* a round only after the round before it was reported.
Contract == INSTANCE ServingContract

ReleasesByContract == Contract!SafeSpec

=============================================================================
