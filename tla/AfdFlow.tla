------------------------------ MODULE AfdFlow ------------------------------
(***************************************************************************)
(* The attention/FFN-disaggregated deployment: AfdFlow (orchestrator/      *)
(* impls/afd.rs), the controller of the attention pool with its barriers   *)
(* (afd_attn_pool.rs), the FFN pool (afd_ffn_pool.rs), the attention       *)
(* workers (SlotAttentionWorker over AttentionSlotPipeline) and the FFN    *)
(* workers (BufferedFfnWorker).                                            *)
(*                                                                         *)
(* All attention workers march every slot through the layers in lockstep:  *)
(* a layer's output of all of them makes one FFN task, whose result starts *)
(* the next layer on all of them.                                          *)
(*                                                                         *)
(* AfdFlow::tick is a sequence of steps here: BeginTick chooses which      *)
(* transfers and computations have ended by now; the due FFN workers run,  *)
(* their events are delivered, the due attention workers run, what they    *)
(* report is aggregated into tasks.                                        *)
(***************************************************************************)
EXTENDS Workload, FiniteSums, Sequences, FiniteSetsExt

CONSTANTS
    NumAttn,      \* attention workers
    NumFfn,       \* FFN workers
    NumSlots,     \* NUM_SLOTS
    NumLayers,    \* layers of the model
    KvCapacity,   \* KV units of an attention worker (one partition)
    KvRetained,   \* its retained-prefix ceiling
    Key,          \* conversation start of a request, its rank in the queue
    NoPartition,
    NoTask        \* no task pulled or computed

Kv == INSTANCE KvCacheStore WITH
    NumPartitions <- 1, Capacity <- KvCapacity, MaxRetained <- KvRetained

Attn  == 0 .. NumAttn - 1
Ffn   == 0 .. NumFfn - 1
Slots == 0 .. NumSlots - 1
Last  == NumLayers - 1
Start == -1     \* the boundary before layer 0: IterStart, Bootstrap

\* A task is named by the layer it follows: Start for a Bootstrap, Last for a
\* Terminal, the others are Bridges.
Tasks == [slot : Slots, layer : Start .. Last, reqs : SUBSET Requests]

ASSUME AfdAssumption ==
    /\ NumAttn \in Nat \ {0} /\ NumFfn \in Nat \ {0}
    /\ NumSlots \in Nat \ {0} /\ NumLayers \in Nat \ {0}
    /\ KvCapacity \in Nat /\ KvRetained \in 0..KvCapacity
    /\ NoPartition \notin Nat /\ NoTask \notin Tasks
    /\ Key \in [Requests -> Nat]

Timed == {"Pull", "Compute"}  \* what a worker does in time

VARIABLES
    arrived,  \* requests admitted to the pool, in arrival order
    kv,       \* per attention worker: its KvCacheStore
    queue,    \* per attention worker: its pending requests
    home,     \* req_worker: where a request is pinned
    slots,    \* per attention worker: its slots
    timers,   \* per attention worker: of Pull and Compute, which have ended
    wake,     \* per attention worker: "none", "now", or "event"
    sched,    \* per slot: the controller's barriers
    ffn,      \* per FFN worker: queued, pulled and computed task, wakeup
    next,     \* rr_next
    tick,     \* where AfdFlow::tick stands
    emitted,  \* output tokens of each request
    done      \* completions returned to the tick loop

vars == << arrived, kv, queue, home, slots, timers, wake, sched, ffn, next,
           tick, emitted, done >>

EmptySlot ==
    [members |-> {}, joining |-> {}, layer |-> 0, announced |-> FALSE,
     state |-> "Wait", notified |-> FALSE, bytes |-> FALSE]

EmptyStart   == [count |-> 0, reqs |-> {}]
EmptyBarrier == [layer |-> 0, count |-> 0, reqs |-> {}, weighted |-> {}]

Between == [stage |-> "between", due |-> {}, driving |-> FALSE, events |-> << >>]

\* Attention workers start due, to publish the start boundary of every slot.
Init ==
    /\ arrived = << >>
    /\ kv      = [w \in Attn |-> Kv!EmptyStore]
    /\ queue   = [w \in Attn |-> {}]
    /\ home    = [r \in Requests |-> -1]
    /\ slots   = [w \in Attn |-> [s \in Slots |-> EmptySlot]]
    /\ timers  = [w \in Attn |-> {}]
    /\ wake    = [w \in Attn |-> "now"]
    /\ sched   = [s \in Slots |-> [inFlight |-> FALSE, start |-> EmptyStart,
                                   barrier |-> EmptyBarrier, share |-> {}]]
    /\ ffn     = [f \in Ffn |-> [incoming |-> << >>, pulling |-> NoTask,
                                 computing |-> NoTask, ended |-> {},
                                 wake |-> "none"]]
    /\ next    = 0
    /\ tick    = Between
    /\ emitted = [r \in Requests |-> 0]
    /\ done    = {}

Arrived == { arrived[i] : i \in 1 .. Len(arrived) }

\* A message makes a sleeping worker due; a busy one keeps its wakeup.
Woken(w) == IF w = "none" THEN "now" ELSE w
AllWoken == [w \in Attn |-> Woken(wake[w])]

-----------------------------------------------------------------------------
(* Arrival: the request is pinned to the least loaded attention worker. *)

QueuedTokens(w) == SumOver([r \in Requests |-> ContextOf(r) + Target[r]], queue[w])

EstimatedPeak(w) ==
    kv[w].peak[0] + kv[w].reserved[0] + kv[w].heldUnits[0]
        + Kv!CacheUnits(kv[w], 0) + QueuedTokens(w)

LeastLoaded ==
    CHOOSE w \in Attn : \A v \in Attn :
        \/ EstimatedPeak(w) < EstimatedPeak(v)
        \/ EstimatedPeak(w) = EstimatedPeak(v) /\ w <= v

OnArrival(r) ==
    /\ tick.stage = "between"
    /\ r \notin Arrived
    /\ Before[r] \in done \cup {NoRequest}
    /\ arrived' = Append(arrived, r)
    /\ queue' = [queue EXCEPT ![LeastLoaded] = @ \cup {r}]
    /\ home' = [home EXCEPT ![r] = LeastLoaded]
    /\ wake' = [wake EXCEPT ![LeastLoaded] = Woken(@)]
    /\ UNCHANGED << kv, slots, timers, sched, ffn, next, tick, emitted, done >>

-----------------------------------------------------------------------------
(* The clock: some transfers and computations have ended at the next tick. *)

AttnRunning(w) == { slots[w][s].state : s \in Slots } \cap Timed

FfnRunning(f) ==
    (IF ffn[f].pulling = NoTask THEN {} ELSE {"Pull"} \ ffn[f].ended)
        \cup (IF ffn[f].computing = NoTask THEN {} ELSE {"Compute"})

Timers == [pool : {"attn"}, worker : Attn, timer : Timed]
              \cup [pool : {"ffn"}, worker : Ffn, timer : Timed]

Running ==
    { t \in Timers : t.timer \in IF t.pool = "attn" THEN AttnRunning(t.worker)
                                                    ELSE FfnRunning(t.worker) }

EndedOf(E, pool, w) ==
    { e.timer : e \in { d \in E : d.pool = pool /\ d.worker = w } }

IsDue(wakeup, ended) == wakeup = "now" \/ (wakeup = "event" /\ ended # {})

\* A tick at which nobody is due changes nothing.
BeginTick(E) ==
    /\ tick.stage = "between"
    /\ LET attnEnded == [w \in Attn |-> EndedOf(E, "attn", w)]
           ffnEnded  == [f \in Ffn |-> EndedOf(E, "ffn", f)]
           dueAttn   == { w \in Attn : IsDue(wake[w], attnEnded[w]) }
           dueFfn    == { f \in Ffn : IsDue(ffn[f].wake, ffnEnded[f]) }
       IN  /\ dueAttn \cup dueFfn # {}
           /\ timers' = attnEnded
           /\ ffn' = [f \in Ffn |-> [ffn[f] EXCEPT !.ended = @ \cup ffnEnded[f]]]
           /\ tick' = [Between EXCEPT !.stage = "ffn", !.due = dueFfn]
           /\ UNCHANGED << arrived, kv, queue, home, slots, wake, sched, next,
                           emitted, done >>

-----------------------------------------------------------------------------
(* FFN workers. *)

LeastOf(S) == CHOOSE x \in S : \A y \in S : x <= y

\* Nothing to fetch for a Bootstrap, nor for an empty batch.
PullsNothing(task) == task.layer = Start \/ task.reqs = {}

Completes(fw) == fw.computing # NoTask /\ "Compute" \in fw.ended

Computes(fw) ==
    /\ fw.computing = NoTask \/ Completes(fw)
    /\ fw.pulling # NoTask /\ "Pull" \in fw.ended

Pulls(fw) ==
    /\ fw.pulling = NoTask \/ Computes(fw)
    /\ fw.incoming # << >>

\* The timers of the worker that have ended after a pass; an empty batch takes
\* no time, and a transfer that has ended may wait for the computation.
EndedAfterPass(fw) ==
    { t \in Timed :
        \/ t = "Compute" /\ Computes(fw) /\ fw.pulling.reqs = {}
        \/ t = "Pull" /\ Pulls(fw) /\ PullsNothing(Head(fw.incoming))
        \/ t = "Pull" /\ ~Pulls(fw) /\ ~Computes(fw) /\ t \in fw.ended }

\* One pass of the loop of tick_inner: complete, compute, pull.
AfterPass(fw) ==
    [fw EXCEPT
        !.computing = IF Computes(fw) THEN fw.pulling
                      ELSE IF Completes(fw) THEN NoTask ELSE @,
        !.pulling   = IF Pulls(fw) THEN Head(fw.incoming)
                      ELSE IF Computes(fw) THEN NoTask ELSE @,
        !.incoming  = IF Pulls(fw) THEN Tail(@) ELSE @,
        !.ended     = EndedAfterPass(fw)]

\* As IsComplete, were it asked for the token to come.
CompleteTooEarly(r, tokens) == tokens[r] + 1 >= Target[r]
IsComplete(r, tokens) == tokens[r] >= Target[r]

\* complete_task: a Terminal gives every request of its batch a token.
TokensAfter(task) ==
    [r \in Requests |->
        IF task.layer = Last /\ r \in task.reqs THEN emitted[r] + 1
                                                ELSE emitted[r]]

EventOf(task, tokens) ==
    [slot |-> task.slot, layer |-> task.layer, reqs |-> task.reqs,
     leaving |-> IF task.layer = Last
                 THEN { r \in task.reqs : IsComplete(r, tokens) } ELSE {}]

FfnPass(f) ==
    LET fw == ffn[f]
    IN  /\ tick.stage = "ffn" /\ tick.due # {} /\ f = LeastOf(tick.due)
        /\ Completes(fw) \/ Computes(fw) \/ Pulls(fw)
        /\ ffn' = [ffn EXCEPT ![f] = AfterPass(fw)]
        /\ IF Completes(fw)
           THEN /\ emitted' = TokensAfter(fw.computing)
                /\ tick' = [tick EXCEPT
                      !.events = Append(@, EventOf(fw.computing, emitted'))]
           ELSE UNCHANGED << emitted, tick >>
        /\ UNCHANGED << arrived, kv, queue, home, slots, timers, wake, sched,
                        next, done >>

\* next_wakeup: only what ends in the future.
FfnRest(f) ==
    LET fw == ffn[f]
    IN  /\ tick.stage = "ffn" /\ tick.due # {} /\ f = LeastOf(tick.due)
        /\ ~(Completes(fw) \/ Computes(fw) \/ Pulls(fw))
        /\ ffn' = [ffn EXCEPT ![f].wake =
              IF FfnRunning(f) # {} THEN "event" ELSE "none"]
        /\ tick' = [tick EXCEPT !.due = @ \ {f}]
        /\ UNCHANGED << arrived, kv, queue, home, slots, timers, wake, sched,
                        next, emitted, done >>

-----------------------------------------------------------------------------
(* The controller delivers the FFN events. *)

Delivering == tick.stage = "ffn" /\ tick.due = {} /\ tick.events # << >>

\* on_msg_ready_notification drops what does not match the slot.
Accepts(slot, layer) == slot.layer = layer /\ slot.state = "Wait"

\* The share of each worker in the last complete barrier splits the bytes.
HasShare(w, s) == sched[s].share = {} \/ w \in sched[s].share

\* scatter: every worker is told that the layer after the task's may start.
Scatter ==
    LET e == Head(tick.events)
    IN  /\ Delivering
        /\ e.layer # Last
        /\ slots' = [w \in Attn |-> [slots[w] EXCEPT ![e.slot] =
              IF Accepts(@, e.layer + 1)
              THEN [@ EXCEPT !.notified = TRUE,
                             !.bytes = e.reqs # {} /\ HasShare(w, e.slot)]
              ELSE @]]
        /\ wake' = AllWoken
        /\ tick' = [tick EXCEPT !.events = Tail(@)]
        /\ UNCHANGED << arrived, kv, queue, home, timers, sched, ffn, next,
                        emitted, done >>

\* As Without, were the members not looked at.
JoiningWithout(slot, r) == [slot EXCEPT !.joining = @ \ {r}]

Without(slot, r) ==
    LET members == slot.members \ {r}
    IN  [slot EXCEPT !.members   = members,
                     !.joining   = @ \ {r},
                     !.announced = @ /\ members # {}]

\* finish_iteration, first its completed requests, in any order: the worker
\* they are pinned to releases their KV.
ReleaseDone(r) ==
    LET e == Head(tick.events)
        w == home[r]
    IN  /\ Delivering
        /\ e.layer = Last
        /\ r \in e.leaving
        /\ \E st \in Kv!ReleasedRetainingPrefix(kv[w], r, 0) :
              kv' = [kv EXCEPT ![w] = st]
        /\ slots' = [slots EXCEPT ![w] =
              [s \in Slots |-> IF r \in slots[w][s].members
                               THEN Without(slots[w][s], r) ELSE slots[w][s]]]
        /\ home' = [home EXCEPT ![r] = -1]
        /\ done' = done \cup {r}
        /\ tick' = [tick EXCEPT !.events[1].leaving = @ \ {r}]
        /\ UNCHANGED << arrived, queue, timers, wake, sched, ffn, next, emitted >>

\* As NextLayer, were the notification not cleared.
NextLayerNotified(slot) ==
    [slot EXCEPT !.layer     = (slot.layer + 1) % NumLayers,
                 !.state     = "Wait",
                 !.announced = @ /\ slot.layer + 1 # NumLayers]

\* advance_slot_layer.
NextLayer(slot) ==
    LET layer == (slot.layer + 1) % NumLayers
    IN  [slot EXCEPT !.layer     = layer,
                     !.state     = "Wait",
                     !.notified  = FALSE,
                     !.bytes     = FALSE,
                     !.announced = @ /\ layer # 0]

\* SlotFlushed, to every worker; dropped by a slot that does not await it.
Flushed(all, s, layer) ==
    [w \in Attn |-> [all[w] EXCEPT ![s] =
        IF @.state = "AwaitFlush" /\ @.layer = layer THEN NextLayer(@) ELSE @]]

\* Then the slot is free and every worker wraps to layer 0.
FinishIteration ==
    LET e == Head(tick.events)
    IN  /\ Delivering
        /\ e.layer = Last
        /\ e.leaving = {}
        /\ slots' = Flushed(slots, e.slot, Last)
        /\ sched' = [sched EXCEPT ![e.slot].inFlight = FALSE,
                                  ![e.slot].barrier = EmptyBarrier]
        /\ wake' = AllWoken
        /\ tick' = [tick EXCEPT !.events = Tail(@)]
        /\ UNCHANGED << arrived, kv, queue, home, timers, ffn, next, emitted, done >>

\* A due worker with nothing to do sleeps at once.
HasSlotWork(w) ==
    \E s \in Slots :
        \/ slots[w][s].members \cup slots[w][s].joining # {}
        \/ slots[w][s].layer = 0 /\ ~slots[w][s].announced
        \/ slots[w][s].notified
        \/ slots[w][s].state # "Wait"

\* The attention workers that are due now, woken by what was delivered or at
\* the end of a timer.
BeginAttn ==
    LET due == { w \in Attn : IsDue(wake[w], timers[w]) }
    IN  /\ tick.stage = "ffn" /\ tick.due = {} /\ tick.events = << >>
        /\ tick' = [tick EXCEPT !.stage = "attn",
              !.due = { w \in due : queue[w] # {} \/ HasSlotWork(w) }]
        /\ wake' = [w \in Attn |->
              IF w \in due \ tick'.due THEN "none" ELSE wake[w]]
        /\ UNCHANGED << arrived, kv, queue, home, slots, timers, sched, ffn,
                        next, emitted, done >>

-----------------------------------------------------------------------------
(* Attention workers. *)

IsTicking(w) == tick.stage = "attn" /\ tick.due # {} /\ w = LeastOf(tick.due)

\* SessionStart order: earliest conversation first, then in arrival order.
HeadOf(S) ==
    { arrived[i] : i \in { j \in 1 .. Len(arrived) : arrived[j] \in S
        /\ \A k \in 1 .. Len(arrived) : arrived[k] \in S =>
              \/ Key[arrived[j]] < Key[arrived[k]]
              \/ Key[arrived[j]] = Key[arrived[k]] /\ j <= k } }

FootprintOf(r) == Kv!Footprint(ContextOf(r), Target[r])

Admissible(w) == { r \in HeadOf(queue[w]) : Kv!Fits(kv[w], 0, FootprintOf(r)) }

Weight(st, r) == IF st.promised[r] > 0 THEN st.promised[r] ELSE st.context[r]

SlotLoad(w, s) ==
    SumOver([r \in Requests |-> Weight(kv[w], r)],
            slots[w][s].members \cup slots[w][s].joining)

LeastKvSlot(w) ==
    CHOOSE s \in Slots : \A t \in Slots :
        \/ SlotLoad(w, s) < SlotLoad(w, t)
        \/ SlotLoad(w, s) = SlotLoad(w, t) /\ s <= t

\* reserve_fitting_requests and place_request, for the head that fits.
AdmitHead(w, r) ==
    /\ IsTicking(w) /\ ~tick.driving
    /\ r \in Admissible(w)
    /\ \E st \in Kv!ReservedPrefill(kv[w], r, 0, FootprintOf(r)) :
          kv' = [kv EXCEPT ![w] = st]
    /\ queue' = [queue EXCEPT ![w] = @ \ {r}]
    /\ slots' = [slots EXCEPT ![w][LeastKvSlot(w)].joining = @ \cup {r}]
    /\ UNCHANGED << arrived, home, timers, wake, sched, ffn, next, tick,
                    emitted, done >>

\* Admission is over when the head is blocked, and for the rest of the tick.
IsDriving(w) == IsTicking(w) /\ (Admissible(w) # {} => tick.driving)

\* open_iterations: at the boundary the requests that wait join the slot, all
\* to be prefilled, and its membership is announced.
AtBoundary(slot) == slot.layer = 0 /\ slot.state = "Wait" /\ ~slot.announced

Opened(slot) ==
    IF AtBoundary(slot)
    THEN [slot EXCEPT !.members = @ \cup slot.joining, !.joining = {},
                      !.announced = TRUE]
    ELSE slot

\* advance_completions.
Completed(slot, ended) ==
    [slot EXCEPT !.state =
        CASE @ = "Wait" /\ slot.notified           -> "WaitComplete"
          [] @ = "Pull" /\ "Pull" \in ended        -> "PullComplete"
          [] @ = "Compute" /\ "Compute" \in ended  -> "AwaitFlush"
          [] OTHER                                 -> @]

\* As Starting, were the first slot looked at only.
StartingFirst(ss, from, to) ==
    { s \in {0} : ss[s].state = from /\ \A t \in Slots : ss[t].state # to }

\* start_ready_transitions: one transfer and one computation at a time, the
\* lowest slot first.
Starting(ss, from, to) ==
    { s \in Slots : /\ ss[s].state = from
                    /\ \A t \in Slots : ss[t].state # to
                    /\ \A t \in Slots : ss[t].state = from => s <= t }

Driven(ss, ended) ==
    LET after == [s \in Slots |-> Completed(Opened(ss[s]), ended)]
    IN  [s \in Slots |->
            IF s \in Starting(after, "WaitComplete", "Pull")
            THEN [after[s] EXCEPT !.state = "Pull"]
            ELSE IF s \in Starting(after, "PullComplete", "Compute")
            THEN [after[s] EXCEPT !.state = "Compute"]
            ELSE after[s]]

\* An empty transfer or computation ends when it starts.
EndedAtStart(before, after) ==
    { t \in Timed : \E s \in Slots :
        /\ after[s].state = t
        /\ t = "Pull"    => before[s].state \in {"Wait", "WaitComplete"}
                              /\ ~after[s].bytes
        /\ t = "Compute" => before[s].state \in {"Pull", "PullComplete"}
                              /\ after[s].members = {} }

\* Slots are visited in their order.
Ascending(S) ==
    CHOOSE q \in [1 .. Cardinality(S) -> S] :
        \A i, j \in 1 .. Cardinality(S) : i < j => q[i] < q[j]

\* What the pass reports: the boundaries, then the layer that was computed.
ReportsOf(w, ss, ended) ==
    LET opening == Ascending({ s \in Slots : AtBoundary(ss[s]) })
        ending  == Ascending({ s \in Slots :
                       ss[s].state = "Compute" /\ "Compute" \in ended })
    IN  [i \in 1 .. Len(opening) |->
            [worker |-> w, slot |-> opening[i], layer |-> Start,
             reqs |-> Opened(ss[opening[i]]).members]]
        \o [i \in 1 .. Len(ending) |->
            [worker |-> w, slot |-> ending[i], layer |-> ss[ending[i]].layer,
             reqs |-> ss[ending[i]].members]]

\* complete_layer: at the last layer a prefill becomes a resident decode, the
\* decodes grow by a token.
AfterLayer(st, slot) ==
    LET prefilled == { r \in slot.members : st.promised[r] > 0 }
    IN  Kv!Advanced(
            Kv!Committed(st, prefilled,
                [r \in Requests |-> ContextOf(r)],
                [r \in Requests |-> Target[r] - emitted[r]]),
            slot.members \ prefilled)

\* One pass of the loop of drive_slots that changes something.
DrivePass(w) ==
    LET ended == timers[w]
        final == { s \in Slots : /\ slots[w][s].state = "Compute"
                                 /\ "Compute" \in ended
                                 /\ slots[w][s].layer = Last }
    IN  /\ IsDriving(w)
        /\ Driven(slots[w], ended) # slots[w]
        /\ slots' = [slots EXCEPT ![w] = Driven(@, ended)]
        /\ timers' = [timers EXCEPT ![w] = EndedAtStart(slots[w], slots'[w])]
        /\ kv' = [kv EXCEPT ![w] =
              IF final = {} THEN @
              ELSE AfterLayer(@, slots[w][CHOOSE s \in final : TRUE])]
        /\ tick' = [tick EXCEPT !.driving = TRUE,
                                 !.events = @ \o ReportsOf(w, slots[w], ended)]
        /\ UNCHANGED << arrived, queue, home, wake, sched, ffn, next, emitted, done >>

\* A pass that changes nothing ends the worker's tick.
AttnRest(w) ==
    /\ IsDriving(w)
    /\ Driven(slots[w], timers[w]) = slots[w]
    /\ wake' = [wake EXCEPT ![w] =
          IF AttnRunning(w) # {} THEN "event" ELSE "none"]
    /\ tick' = [tick EXCEPT !.due = @ \ {w}, !.driving = FALSE]
    /\ UNCHANGED << arrived, kv, queue, home, slots, timers, sched, ffn, next,
                    emitted, done >>

-----------------------------------------------------------------------------
(* The controller aggregates the reports. *)

Aggregating == tick.stage = "attn" /\ tick.due = {} /\ tick.events # << >>

\* As NextFfn, were the cursor not wrapped.
NextUnwrapped(n) == n + 1
NextFfn(n) == (n + 1) % NumFfn

\* submit: tasks go round the FFN workers.
Submit(task) ==
    /\ ffn' = [ffn EXCEPT ![next].incoming = Append(@, task),
                          ![next].wake     = Woken(@)]
    /\ next' = NextFfn(next)

\* on_iter_start: the last of the workers fires the Bootstrap.
OnIterStart ==
    LET e == Head(tick.events)
        b == [count |-> sched[e.slot].start.count + 1,
              reqs  |-> sched[e.slot].start.reqs \cup e.reqs]
    IN  /\ Aggregating
        /\ e.layer = Start
        /\ IF sched[e.slot].inFlight THEN UNCHANGED << sched, ffn, next >>
           ELSE IF b.count # NumAttn
           THEN /\ sched' = [sched EXCEPT ![e.slot].start = b]
                /\ UNCHANGED << ffn, next >>
           ELSE /\ sched' = [sched EXCEPT ![e.slot] =
                      [@ EXCEPT !.inFlight = TRUE, !.start = EmptyStart,
                                !.barrier = EmptyBarrier]]
                /\ Submit([slot |-> e.slot, layer |-> Start, reqs |-> b.reqs])
        /\ tick' = [tick EXCEPT !.events = Tail(@)]
        /\ UNCHANGED << arrived, kv, queue, home, slots, timers, wake, emitted,
                        done >>

\* As BarrierOpens, were the first report enough.
OpensAtOnce(count) == count > 0
BarrierOpens(count) == count = NumAttn

\* on_layer_output: the last of the workers fires the layer's task; all but the
\* last layer are flushed at once.
OnLayerOutput ==
    LET e == Head(tick.events)
        s == sched[e.slot].barrier
        b == [layer    |-> IF s.count = 0 THEN e.layer ELSE s.layer,
              count    |-> s.count + 1,
              reqs     |-> s.reqs \cup e.reqs,
              weighted |-> s.weighted \cup IF e.reqs = {} THEN {} ELSE {e.worker}]
    IN  /\ Aggregating
        /\ e.layer # Start
        /\ IF ~BarrierOpens(b.count)
           THEN /\ sched' = [sched EXCEPT ![e.slot].barrier = b]
                /\ UNCHANGED << slots, wake, ffn, next >>
           ELSE /\ sched' = [sched EXCEPT ![e.slot] =
                      [@ EXCEPT !.barrier = EmptyBarrier, !.share = b.weighted]]
                /\ Submit([slot |-> e.slot, layer |-> e.layer, reqs |-> b.reqs])
                /\ IF e.layer = Last THEN UNCHANGED << slots, wake >>
                   ELSE /\ slots' = Flushed(slots, e.slot, e.layer)
                        /\ wake' = AllWoken
        /\ tick' = [tick EXCEPT !.events = Tail(@)]
        /\ UNCHANGED << arrived, kv, queue, home, timers, emitted, done >>

EndTick ==
    /\ tick.stage = "attn" /\ tick.due = {} /\ tick.events = << >>
    /\ tick' = Between
    /\ UNCHANGED << arrived, kv, queue, home, slots, timers, wake, sched, ffn,
                    next, emitted, done >>

-----------------------------------------------------------------------------

FlowStep ==
    \/ \E f \in Ffn : FfnPass(f) \/ FfnRest(f)
    \/ Scatter
    \/ \E r \in Requests : ReleaseDone(r)
    \/ FinishIteration
    \/ BeginAttn
    \/ \E w \in Attn : \/ \E r \in Requests : AdmitHead(w, r)
                       \/ DrivePass(w) \/ AttnRest(w)
    \/ OnIterStart
    \/ OnLayerOutput
    \/ EndTick

Next ==
    \/ \E r \in Requests : OnArrival(r)
    \/ \E E \in SUBSET Running : BeginTick(E)
    \/ FlowStep

\* Ticks follow one another, and a transfer or computation that runs has ended
\* at one of them.
Spec ==
    /\ Init /\ [][Next]_vars
    /\ WF_vars(FlowStep)
    /\ WF_vars(\E E \in SUBSET Running : BeginTick(E))
    /\ \A t \in Timers : SF_vars(\E E \in SUBSET Running : t \in E /\ BeginTick(E))

-----------------------------------------------------------------------------
(* Properties. *)

Wakes == {"none", "now", "event"}
States == Timed \cup {"Wait", "WaitComplete", "PullComplete", "AwaitFlush"}
FfnEvents == [slot : Slots, layer : Start .. Last, reqs : SUBSET Requests,
              leaving : SUBSET Requests]
Reports == [worker : Attn, slot : Slots, layer : Start .. Last,
            reqs : SUBSET Requests]

TypeOK ==
    /\ arrived \in Seq(Requests)
    /\ kv \in [Attn -> Kv!Store]
    /\ queue \in [Attn -> SUBSET Requests]
    /\ home \in [Requests -> Attn \cup {-1}]
    /\ slots \in [Attn -> [Slots ->
          [members : SUBSET Requests, joining : SUBSET Requests, layer : 0 .. Last,
           announced : BOOLEAN, state : States, notified : BOOLEAN,
           bytes : BOOLEAN]]]
    /\ timers \in [Attn -> SUBSET Timed]
    /\ wake \in [Attn -> Wakes]
    /\ sched \in [Slots ->
          [inFlight : BOOLEAN, start : [count : Nat, reqs : SUBSET Requests],
           barrier : [layer : 0 .. Last, count : Nat, reqs : SUBSET Requests,
                      weighted : SUBSET Attn],
           share : SUBSET Attn]]
    /\ ffn \in [Ffn ->
          [incoming : Seq(Tasks), pulling : Tasks \cup {NoTask},
           computing : Tasks \cup {NoTask}, ended : SUBSET Timed, wake : Wakes]]
    /\ next \in Ffn
    /\ tick \in [stage : {"between", "ffn", "attn"}, due : SUBSET (Attn \cup Ffn),
                 driving : BOOLEAN, events : Seq(FfnEvents) \cup Seq(Reports)]
    /\ IF tick.stage = "ffn" THEN tick.due \subseteq Ffn /\ tick.events \in Seq(FfnEvents)
       ELSE tick.due \subseteq Attn /\ tick.events \in Seq(Reports)
    /\ emitted \in [Requests -> Nat]
    /\ done \subseteq Requests

\* Every place where the task of slot s can be, up to the delivery of its event.
Carried(task, s) == task # NoTask /\ task.slot = s

Carries(fw, f, s) ==
    { [at |-> << f, i >>, task |-> fw.incoming[i]] :
        i \in { j \in 1 .. Len(fw.incoming) : Carried(fw.incoming[j], s) } }
    \cup { [at |-> << f, 0 >>, task |-> t] : t \in { u \in {fw.pulling} : Carried(u, s) } }
    \cup { [at |-> << f, -1 >>, task |-> t] : t \in { u \in {fw.computing} : Carried(u, s) } }

CarriedBy(F, s) == UNION { Carries(F[f], f, s) : f \in Ffn }

Tells(events, s) ==
    { [at |-> << -1, i >>, task |-> events[i]] :
        i \in { j \in 1 .. Len(events) : events[j].slot = s } }

InFlightTasks(s) ==
    CarriedBy(ffn, s) \cup IF tick.stage = "ffn" THEN Tells(tick.events, s) ELSE {}

Unheard(s) ==
    IF tick.stage # "attn" THEN {}
    ELSE { tick.events[i].worker : i \in { j \in 1 .. Len(tick.events) :
                                              tick.events[j].slot = s } }

MembersOf(s) == UNION { slots[w][s].members : w \in Attn }

\* A slot has one task at most, and when its result is delivered every worker's
\* slot is where the message expects it: on_msg_ready_notification and
\* on_msg_slot_flushed never drop one.  Its batch is that of the slot: nobody
\* joins or leaves between the Bootstrap and the end of the iteration.
NoneDropped ==
    \A s \in Slots :
        /\ Cardinality(InFlightTasks(s)) <= 1
        /\ \A p \in InFlightTasks(s) :
              /\ sched[s].inFlight
              /\ \A w \in Attn :
                    IF p.task.layer = Last
                    THEN slots[w][s].state = "AwaitFlush" /\ slots[w][s].layer = Last
                    ELSE /\ Accepts(slots[w][s], p.task.layer + 1)
                         /\ ~slots[w][s].notified
              /\ MembersOf(s) = p.task.reqs \ done

\* A request waits in one queue or sits in one slot, of the worker it is pinned
\* to, as long as it is in service; only there is its KV.  The store counts a
\* token when the last layer is computed, the record when the Terminal is: they
\* differ by one exactly in between.
OnePlace ==
    /\ \A r \in Requests :
          LET places == { p \in Attn \X Slots :
                            r \in slots[p[1]][p[2]].members \cup slots[p[1]][p[2]].joining }
              queues == { w \in Attn : r \in queue[w] }
          IN  /\ Cardinality(places) + Cardinality(queues)
                   = IF r \in Arrived \ done THEN 1 ELSE 0
              /\ \A w \in Attn :
                    /\ (w \in queues \/ \E s \in Slots : << w, s >> \in places)
                          => home[r] = w
                    /\ (\E s \in Slots : << w, s >> \in places)
                          <=> kv[w].placement[r] = 0
    /\ \A w \in Attn, s \in Slots : \A r \in slots[w][s].members :
          LET st == kv[w]
              left == Target[r] - emitted[r]
              computed == slots[w][s].layer = Last /\ slots[w][s].state = "AwaitFlush"
          IN  IF r \notin st.decodes[0]
              THEN emitted[r] = 0 /\ st.promised[r] = FootprintOf(r)
              ELSE /\ st.context[r] + st.remaining[r] = ContextOf(r) + Target[r]
                   /\ st.remaining[r] - left \in {0, 1}
                   /\ ~computed => st.remaining[r] = left + 1

\* The controller and the workers keep the barrier of every slot: the layer
\* collected, who was heard, and whether its task is with the FFN pool.
Collected(s) ==
    IF InFlightTasks(s) # {} THEN (CHOOSE p \in InFlightTasks(s) : TRUE).task.layer
    ELSE IF sched[s].inFlight THEN slots[0][s].layer ELSE Start

HeardOf(s) ==
    IF InFlightTasks(s) # {} THEN Attn
    ELSE { w \in Attn : IF sched[s].inFlight THEN slots[w][s].state = "AwaitFlush"
                                             ELSE slots[w][s].announced } \ Unheard(s)

Barrier(s) == INSTANCE LayerBarrier WITH
    Participants <- Attn, layer <- Collected(s), heard <- HeardOf(s),
    fired <- InFlightTasks(s) # {}

KeepsBarriers ==
    /\ \A s \in Slots : Barrier(s)!Init
    /\ [][\A s \in Slots : Barrier(s)!Next \/ UNCHANGED Barrier(s)!vars]_vars

\* "Why it cannot deadlock": every barrier opens again and again, and its task
\* is finished, an empty slot's too.
BarriersOpen == \A s \in Slots : Barrier(s)!Opens

\* Every request fits an empty attention worker.
EachFits == \A r \in Requests : ContextOf(r) + Target[r] <= KvCapacity

\* The flow serves by the contract, given that every request can be served at all.
Contract == INSTANCE ServingContract
    WITH released <- Arrived, produced <- emitted, completed <- done

ServesByContract == Contract!SafeSpec /\ (EachFits => Contract!Completion)

=============================================================================
