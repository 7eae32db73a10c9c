------------------------------- MODULE PpFlow -------------------------------
(***************************************************************************)
(* The pipeline-parallel deployment: PpFlow and its stage pool             *)
(* (orchestrator/impls/pp.rs), the heads (PipelineHeadWorker with          *)
(* PipelinedChunkedPrefillAdmission) and the followers                     *)
(* (PipelineStageWorker).                                                  *)
(*                                                                         *)
(* Stages keep exact times although they are driven by a coarse tick, so   *)
(* time is explicit here: every time is relative to the current tick and   *)
(* moves back by Tick when the next one begins.  A time that is long past  *)
(* only ever loses against a later one and is kept at -Tick.               *)
(*                                                                         *)
(* One PpFlow::tick is a sequence of steps: due followers run until none   *)
(* is due, then a head runs (exits, finished stage 0, formation), until    *)
(* nobody is due.  Replicas share nothing but the arrivals, so the heads   *)
(* may be taken one after the other.                                       *)
(***************************************************************************)
EXTENDS Workload, Sequences, FiniteSetsExt

CONSTANTS
    NumReplicas,  \* replicas of the pipeline
    Depth,        \* stages of a replica, and the in-flight window
    Tick,         \* tick_dt
    Costs,        \* times a stage may take for a microbatch
    Transfers,    \* times an activation pull may take
    BatchTokens,  \* max_batch_tokens of a microbatch
    Balanced,     \* whether decodes are spread over the window
    RoundRobin,   \* placement: round robin, else the least queued replica
    KvCapacity,   \* KV units of a head (one partition)
    KvRetained,   \* its retained-prefix ceiling
    Key,          \* frozen rank of a request in the pending order
    NoPartition,
    Never,        \* no wakeup
    Nothing       \* nothing computed, no microbatch being formed

Kv == INSTANCE KvCacheStore WITH
    NumPartitions <- 1, Capacity <- KvCapacity, MaxRetained <- KvRetained

SeqOps == INSTANCE SequencesExt

ASSUME PpAssumption ==
    /\ NumReplicas \in Nat \ {0} /\ Depth \in Nat \ {0} /\ Tick \in Nat \ {0}
    /\ Costs # {} /\ Costs \subseteq Nat \ {0}
    /\ Transfers # {} /\ Transfers \subseteq Nat
    /\ BatchTokens \in Nat \ {0}
    /\ Balanced \in BOOLEAN /\ RoundRobin \in BOOLEAN
    /\ KvCapacity \in Nat /\ KvRetained \in 0..KvCapacity
    /\ Key \in [Requests -> Nat]
    /\ \A r \in Requests : ContextOf(r) > 0

Replicas  == 0 .. NumReplicas - 1
Followers == 1 .. Depth - 1
Nobody    == -1

VARIABLES
    arrived,  \* requests in arrival order
    kv,       \* per replica: the KvCacheStore of its head
    queue,    \* per replica: pending requests
    left,     \* prefill tokens a started request has yet to schedule
    head,     \* per replica: the rest of its head
    stage,    \* per replica and stage: a follower
    wake,     \* per replica: head_wakeup
    next,     \* rr_next
    ticking,  \* PpFlow::tick runs
    turn,     \* replica whose head ticks, or Nobody
    emitted,  \* output tokens of each request
    done      \* completions returned to the tick loop

vars == << arrived, kv, queue, left, head, stage, wake, next, ticking, turn,
           emitted, done >>

\* A microbatch is [id, chunks, decodes, at]: its number, its prefill chunks
\* [req, tokens, last], its decodes, and when stage 0 started it.
IdleHead ==
    [started   |-> << >>,     \* started_prefills
     running   |-> << >>,     \* resident decodes, in the order they joined
     inFlight  |-> << >>,
     computing |-> Nothing,   \* [id, end] on stage 0
     exits     |-> << >>,     \* [id, at] received since the last tick
     settling  |-> Nothing,   \* what is left of the exit being completed
     forming   |-> Nothing,   \* microbatch being formed
     launched  |-> << >>,     \* [id, ready] reported by the tick that runs
     asked     |-> FALSE,     \* request_arrived
     changed   |-> 0,         \* state_changed_at
     nextId    |-> 0]         \* next_microbatch, unique within the window

IdleStage ==
    [incoming |-> << >>, scheduled |-> << >>, start |-> 0, end |-> 0,
     wake |-> Never]

Init ==
    /\ arrived = << >>
    /\ kv      = [p \in Replicas |-> Kv!EmptyStore]
    /\ queue   = [p \in Replicas |-> {}]
    /\ left    = [r \in Requests |-> 0]
    /\ head    = [p \in Replicas |-> IdleHead]
    /\ stage   = [p \in Replicas |-> [s \in Followers |-> IdleStage]]
    /\ wake    = [p \in Replicas |-> Never]
    /\ next    = 0
    /\ ticking = FALSE
    /\ turn    = Nobody
    /\ emitted = [r \in Requests |-> 0]
    /\ done    = {}

Arrived == { arrived[i] : i \in 1 .. Len(arrived) }

-----------------------------------------------------------------------------
(* Time and wakeups. *)

Reached(t) == t # Never /\ t <= 0

\* As Woken, were a wakeup already set kept.
WokenIfAsleep(t) == IF t = Never THEN 0 ELSE t

\* route_to_head, route_to_follower: a message makes its receiver due, one with
\* a later wakeup too.
Woken(t) == 0

Earlier(t) == Max({ t - Tick, -Tick })
Moved(t) == IF t = Never THEN Never ELSE Earlier(t)

HeadLater(h) ==
    [h EXCEPT !.changed   = Earlier(@),
              !.computing = IF @ = Nothing THEN Nothing
                            ELSE [@ EXCEPT !.end = Earlier(@)],
              !.inFlight  = [i \in 1 .. Len(@) |-> [@[i] EXCEPT !.at = Earlier(@)]]]

StageLater(f) ==
    [f EXCEPT !.start = Earlier(@), !.end = Earlier(@), !.wake = Moved(@),
              !.scheduled = [i \in 1 .. Len(@) |-> [@[i] EXCEPT !.end = Earlier(@)]]]

\* Somebody has a wakeup; otherwise a tick would change nothing.
BeginTick ==
    /\ ~ticking
    /\ \E p \in Replicas :
          wake[p] # Never \/ \E s \in Followers : stage[p][s].wake # Never
    /\ ticking' = TRUE
    /\ head'  = [p \in Replicas |-> HeadLater(head[p])]
    /\ stage' = [p \in Replicas |-> [s \in Followers |-> StageLater(stage[p][s])]]
    /\ wake'  = [p \in Replicas |-> Moved(wake[p])]
    /\ UNCHANGED << arrived, kv, queue, left, next, turn, emitted, done >>

-----------------------------------------------------------------------------
(* Arrival. *)

\* status: requests that wait, then requests that hold KV.
Status(p) ==
    << Cardinality(queue[p]),
       Cardinality(Kv!LiveDecodes(kv[p], 0)) + Cardinality(Kv!PromisedOn(kv[p], 0)) >>

Fewer(a, b) == a[1] < b[1] \/ (a[1] = b[1] /\ a[2] < b[2])

Placed ==
    IF RoundRobin THEN next
    ELSE CHOOSE p \in Replicas : \A q \in Replicas :
            \/ Fewer(Status(p), Status(q))
            \/ Status(p) = Status(q) /\ p <= q

NextReplica(n) == (n + 1) % NumReplicas

OnArrival(r) ==
    /\ ~ticking
    /\ r \notin Arrived
    /\ Before[r] \in done \cup {NoRequest}
    /\ arrived' = Append(arrived, r)
    /\ queue' = [queue EXCEPT ![Placed] = @ \cup {r}]
    /\ head'  = [head EXCEPT ![Placed].asked = TRUE]
    /\ wake'  = [wake EXCEPT ![Placed] = Woken(@)]
    /\ next'  = IF RoundRobin THEN NextReplica(next) ELSE next
    /\ UNCHANGED << kv, left, stage, ticking, turn, emitted, done >>

-----------------------------------------------------------------------------
(* Followers: they settle before a head ticks.  Their order does not matter,  *)
(* since a hand-off carries its time; the first due one is taken.             *)

DueStages == { << p, s >> \in Replicas \X Followers : Reached(stage[p][s].wake) }

IsFirstDue(p, s) ==
    /\ ticking /\ turn = Nobody
    /\ << p, s >> \in DueStages
    /\ \A d \in DueStages : p < d[1] \/ (p = d[1] /\ s <= d[2])

\* As Queued, were a later arrival put first.
QueuedFirst(scheduled, m) == << m >> \o scheduled
Queued(scheduled, m) == Append(scheduled, m)

\* schedule_microbatch: the pull waits for the receive buffer, the computation
\* for the pull and for the computation before it.
Schedule(p, s, cost, transfer) ==
    LET f == stage[p][s]
        m == Head(f.incoming)
        start == Max({ Max({ m.ready, f.start }) + transfer, f.end })
    IN  /\ IsFirstDue(p, s)
        /\ f.incoming # << >>
        /\ stage' = [stage EXCEPT ![p][s] =
              [f EXCEPT !.incoming  = Tail(@),
                        !.scheduled = Queued(@, [id |-> m.id, end |-> start + cost]),
                        !.start     = start,
                        !.end       = start + cost]]
        /\ UNCHANGED << arrived, kv, queue, left, head, wake, next, ticking,
                        turn, emitted, done >>

\* The finished microbatch at the front goes to the next stage, from the last
\* one back to the head.
Report(p, s) ==
    LET f == stage[p][s]
        m == Head(f.scheduled)
        reported == [f EXCEPT !.scheduled = Tail(@)]
    IN  /\ IsFirstDue(p, s)
        /\ f.incoming = << >>
        /\ f.scheduled # << >> /\ m.end <= 0
        /\ IF s = Depth - 1
           THEN /\ stage' = [stage EXCEPT ![p][s] = reported]
                /\ head' = [head EXCEPT ![p].exits =
                      Append(@, [id |-> m.id, at |-> m.end])]
                /\ wake' = [wake EXCEPT ![p] = Woken(@)]
           ELSE /\ stage' = [stage EXCEPT ![p][s] = reported,
                      ![p][s + 1].incoming = Append(@, [id |-> m.id, ready |-> m.end]),
                      ![p][s + 1].wake = Woken(@)]
                /\ UNCHANGED << head, wake >>
        /\ UNCHANGED << arrived, kv, queue, left, next, ticking, turn, emitted,
                        done >>

StageRest(p, s) ==
    LET f == stage[p][s]
    IN  /\ IsFirstDue(p, s)
        /\ f.incoming = << >>
        /\ f.scheduled # << >> => Head(f.scheduled).end > 0
        /\ stage' = [stage EXCEPT ![p][s].wake =
              IF f.scheduled = << >> THEN Never ELSE Head(f.scheduled).end]
        /\ UNCHANGED << arrived, kv, queue, left, head, wake, next, ticking,
                        turn, emitted, done >>

-----------------------------------------------------------------------------
(* A head's tick: exits first, then stage 0 and formation. *)

Settled == DueStages = {}

DueHeads == { p \in Replicas : Reached(wake[p]) }

BeginHead(p) ==
    /\ ticking /\ turn = Nobody /\ Settled
    /\ p \in DueHeads /\ \A q \in DueHeads : p <= q
    /\ turn' = p
    /\ head' = [head EXCEPT ![p] = [@ EXCEPT
          !.asked   = FALSE,
          !.changed = IF head[p].asked THEN Max({ @, 0 }) ELSE @]]
    /\ UNCHANGED << arrived, kv, queue, left, stage, wake, next, ticking,
                    emitted, done >>

\* As IsComplete, were it asked for the token to come.
CompleteTooEarly(r, tokens) == tokens[r] + 1 >= Target[r]
IsComplete(r, tokens) == tokens[r] >= Target[r]

\* As Stepping, did every resident decode grow with the batch.
SteppingAll(st, decodes) == Kv!Advanced(st, Kv!LiveDecodes(st, 0))
Stepping(st, decodes) == Kv!Advanced(st, decodes)

RangeOf(seq) == { seq[i] : i \in 1 .. Len(seq) }

\* complete_microbatch for the oldest exit, up to its releases: every decode of
\* the microbatch has its token.
TakeExit(p) ==
    LET h == head[p]
        e == Head(h.exits)
        m == Head(h.inFlight)
    IN  /\ turn = p /\ h.settling = Nothing /\ h.exits # << >>
        /\ emitted' = [r \in Requests |->
              IF r \in RangeOf(m.decodes) THEN emitted[r] + 1 ELSE emitted[r]]
        /\ kv' = [kv EXCEPT ![p] = Stepping(@, RangeOf(m.decodes))]
        /\ head' = [head EXCEPT ![p] = [h EXCEPT
              !.exits    = Tail(@),
              !.inFlight = Tail(@),
              !.changed  = Max({ @, e.at }),
              !.settling = [leaving |-> SelectSeq(m.decodes,
                                            LAMBDA r : IsComplete(r, emitted')),
                            chunks  |-> m.chunks]]]
        /\ UNCHANGED << arrived, queue, left, stage, wake, next, ticking, turn,
                        done >>

Dropped(seq, r) == SelectSeq(seq, LAMBDA q : q # r)

\* A decode that has all its tokens gives its KV back.
ReleaseDecode(p) ==
    LET h == head[p]
        r == Head(h.settling.leaving)
    IN  /\ turn = p /\ h.settling # Nothing /\ h.settling.leaving # << >>
        /\ \E st \in Kv!ReleasedRetainingPrefix(kv[p], r, 0) :
              kv' = [kv EXCEPT ![p] = st]
        /\ head' = [head EXCEPT ![p].settling.leaving = Tail(@),
                                ![p].running = Dropped(@, r)]
        /\ done' = done \cup {r}
        /\ UNCHANGED << arrived, queue, left, stage, wake, next, ticking, turn,
                        emitted >>

\* A chunk: the last one of its prompt emits the first token, and the request
\* joins the decodes or is complete.
FinishChunk(p) ==
    LET h == head[p]
        c == Head(h.settling.chunks)
        tokens == [emitted EXCEPT ![c.req] = @ + 1]
        joined == Kv!Committed(kv[p], {c.req},
                      [r \in Requests |-> ContextOf(r)],
                      [r \in Requests |-> Target[r] - tokens[r]])
    IN  /\ turn = p /\ h.settling # Nothing
        /\ h.settling.leaving = << >> /\ h.settling.chunks # << >>
        /\ IF ~c.last
           THEN /\ head' = [head EXCEPT ![p].settling.chunks = Tail(@)]
                /\ UNCHANGED << kv, emitted, done >>
           ELSE /\ emitted' = tokens
                /\ IF IsComplete(c.req, tokens)
                   THEN /\ \E st \in Kv!ReleasedRetainingPrefix(joined, c.req, 0) :
                              kv' = [kv EXCEPT ![p] = st]
                        /\ head' = [head EXCEPT ![p].settling.chunks = Tail(@)]
                        /\ done' = done \cup {c.req}
                   ELSE /\ kv' = [kv EXCEPT ![p] = joined]
                        /\ head' = [head EXCEPT ![p].settling.chunks = Tail(@),
                                                ![p].running = Append(@, c.req)]
                        /\ UNCHANGED done
        /\ UNCHANGED << arrived, queue, left, stage, wake, next, ticking, turn >>

EndExit(p) ==
    /\ turn = p /\ head[p].settling # Nothing
    /\ head[p].settling.leaving = << >> /\ head[p].settling.chunks = << >>
    /\ head' = [head EXCEPT ![p].settling = Nothing]
    /\ UNCHANGED << arrived, kv, queue, left, stage, wake, next, ticking, turn,
                    emitted, done >>

\* Every exit has been completed.
Working(p) == turn = p /\ head[p].exits = << >> /\ head[p].settling = Nothing

FinishedStage0(h) == h.computing # Nothing /\ h.computing.end <= 0

Launch(p) ==
    LET h == head[p]
    IN  /\ Working(p) /\ FinishedStage0(h)
        /\ head' = [head EXCEPT ![p] = [h EXCEPT
              !.launched  = Append(@, [id |-> h.computing.id, ready |-> h.computing.end]),
              !.changed   = Max({ @, h.computing.end }),
              !.computing = Nothing]]
        /\ UNCHANGED << arrived, kv, queue, left, stage, wake, next, ticking,
                        turn, emitted, done >>

-----------------------------------------------------------------------------
(* Formation. *)

MayForm(h) == h.computing = Nothing /\ Len(h.inFlight) < Depth

\* in_flight_decodes: decodes whose step has not returned.
InFlightDecodes(h) ==
    UNION { RangeOf(h.inFlight[i].decodes) : i \in 1 .. Len(h.inFlight) }

\* As Ready, were the step in flight forgotten.
ReadyAll(h) == h.running
Ready(h) == SelectSeq(h.running, LAMBDA r : r \notin InFlightDecodes(h))

DecodeCap(h) ==
    IF Balanced THEN (Len(h.running) + Depth - 1) \div Depth ELSE Len(h.running)

ScheduledDecodes(h) ==
    SubSeq(Ready(h), 1, Min({ Len(Ready(h)), DecodeCap(h), BatchTokens }))

\* The chunks started prompts get out of a budget, in start order; the first
\* prompt that is not finished by its chunk leaves nothing to the next ones.
ChunksOf(started, budget) ==
    LET Used[i \in 0 .. Len(started)] ==
            IF i = 0 THEN 0 ELSE Used[i - 1] + left[started[i]]
        tokens == [i \in 1 .. Len(started) |->
            Min({ left[started[i]], Kv!SaturatingSub(budget, Used[i - 1]) })]
    IN  SelectSeq([i \in 1 .. Len(started) |->
                      [req |-> started[i], tokens |-> tokens[i],
                       last |-> tokens[i] = left[started[i]]]],
                  LAMBDA c : c.tokens > 0)

TokensOf(chunks) ==
    MapThenSumSet(LAMBDA i : chunks[i].tokens, 1 .. Len(chunks))

\* As LeftAfter, were the progress kept for the exit.
LeftUntilExit(chunks) == left
LeftAfter(chunks) ==
    [r \in Requests |->
        left[r] - MapThenSumSet(LAMBDA i : chunks[i].tokens,
                      { i \in 1 .. Len(chunks) : chunks[i].req = r })]

\* form_microbatch: ready decodes, then started prompts.  What a chunk takes is
\* taken from the prompt here, not when the microbatch returns.
BeginForm(p) ==
    LET h == head[p]
        decodes == ScheduledDecodes(h)
        chunks  == ChunksOf(h.started, BatchTokens - Len(decodes))
    IN  /\ Working(p) /\ ~FinishedStage0(h) /\ MayForm(h) /\ h.forming = Nothing
        /\ left' = LeftAfter(chunks)
        /\ head' = [head EXCEPT ![p] = [h EXCEPT
              !.started = SelectSeq(@, LAMBDA r : left'[r] > 0),
              !.forming = [decodes |-> decodes, chunks |-> chunks,
                           budget |-> BatchTokens - Len(decodes) - TokensOf(chunks)]]]
        /\ UNCHANGED << arrived, kv, queue, stage, wake, next, ticking, turn,
                        emitted, done >>

\* The frozen pending order: rank, then arrival.
HeadOf(S) ==
    { arrived[i] : i \in { j \in 1 .. Len(arrived) : arrived[j] \in S
        /\ \A k \in 1 .. Len(arrived) : arrived[k] \in S =>
              \/ Key[arrived[j]] < Key[arrived[k]]
              \/ Key[arrived[j]] = Key[arrived[k]] /\ j <= k } }

FootprintOf(r) == Kv!Footprint(ContextOf(r), Target[r])

Admissible(p) ==
    { r \in HeadOf(queue[p]) :
        /\ head[p].forming # Nothing /\ head[p].forming.budget > 0
        /\ Kv!Fits(kv[p], 0, FootprintOf(r)) }

\* admit_fresh_prompts: the head of the queue, while it fits and tokens remain.
AdmitFresh(p, r) ==
    LET h == head[p]
        all == Kv!PrefillTokensToCompute(kv[p], 0, r)
        tokens == Min({ all, h.forming.budget })
    IN  /\ Working(p)
        /\ r \in Admissible(p)
        /\ \E st \in Kv!ReservedPrefill(kv[p], r, 0, FootprintOf(r)) :
              kv' = [kv EXCEPT ![p] = st]
        /\ queue' = [queue EXCEPT ![p] = @ \ {r}]
        /\ left' = [left EXCEPT ![r] = all - tokens]
        /\ head' = [head EXCEPT ![p] = [h EXCEPT
              !.started = IF tokens < all THEN Append(@, r) ELSE @,
              !.forming.budget = @ - tokens,
              !.forming.chunks = Append(@,
                  [req |-> r, tokens |-> tokens, last |-> tokens = all])]]
        /\ UNCHANGED << arrived, stage, wake, next, ticking, turn, emitted, done >>

IsFormed(p) == head[p].forming # Nothing /\ Admissible(p) = {}

IsEmpty(forming) == forming.decodes = << >> /\ forming.chunks = << >>

\* commit_microbatch and launch_microbatch: it starts when the state allowing it
\* arose.
StartMicrobatch(p, cost) ==
    LET h == head[p]
    IN  /\ Working(p) /\ IsFormed(p) /\ ~IsEmpty(h.forming)
        /\ head' = [head EXCEPT ![p] = [h EXCEPT
              !.computing = [id |-> h.nextId, end |-> h.changed + cost],
              !.inFlight  = Append(@, [id |-> h.nextId, chunks |-> h.forming.chunks,
                                       decodes |-> h.forming.decodes,
                                       at |-> h.changed]),
              !.nextId    = (@ + 1) % (Depth + 1),
              !.forming   = Nothing]]
        /\ UNCHANGED << arrived, kv, queue, left, stage, wake, next, ticking,
                        turn, emitted, done >>

\* Nothing is left to do: what was launched goes to the first follower, or, with
\* one stage only, comes back as exits.
HeadRest(p) ==
    LET h == head[p]
        resting == [h EXCEPT !.launched = << >>, !.forming = Nothing]
    IN  /\ Working(p) /\ ~FinishedStage0(h)
        /\ IF h.forming = Nothing THEN ~MayForm(h)
           ELSE IsFormed(p) /\ IsEmpty(h.forming)
        /\ turn' = Nobody
        /\ IF h.launched = << >>
           THEN /\ head' = [head EXCEPT ![p] = resting]
                /\ wake' = [wake EXCEPT ![p] =
                      IF h.computing = Nothing THEN Never ELSE h.computing.end]
                /\ UNCHANGED stage
           ELSE IF Depth = 1
           THEN /\ head' = [head EXCEPT ![p] = [resting EXCEPT !.exits =
                      [i \in 1 .. Len(h.launched) |->
                          [id |-> h.launched[i].id, at |-> h.launched[i].ready]]]]
                /\ wake' = [wake EXCEPT ![p] = Woken(@)]
                /\ UNCHANGED stage
           ELSE /\ head' = [head EXCEPT ![p] = resting]
                /\ wake' = [wake EXCEPT ![p] =
                      IF h.computing = Nothing THEN Never ELSE h.computing.end]
                /\ stage' = [stage EXCEPT
                      ![p][1].incoming = @ \o h.launched,
                      ![p][1].wake = Woken(@)]
        /\ UNCHANGED << arrived, kv, queue, left, next, ticking, emitted, done >>

EndTick ==
    /\ ticking /\ turn = Nobody
    /\ DueStages = {} /\ DueHeads = {}
    /\ ticking' = FALSE
    /\ UNCHANGED << arrived, kv, queue, left, head, stage, wake, next, turn,
                    emitted, done >>

-----------------------------------------------------------------------------

FlowStep ==
    \/ \E p \in Replicas, s \in Followers :
          \/ \E cost \in Costs, transfer \in Transfers : Schedule(p, s, cost, transfer)
          \/ Report(p, s) \/ StageRest(p, s)
    \/ \E p \in Replicas :
          \/ BeginHead(p)
          \/ TakeExit(p) \/ ReleaseDecode(p) \/ FinishChunk(p) \/ EndExit(p)
          \/ Launch(p)
          \/ BeginForm(p)
          \/ \E r \in Requests : AdmitFresh(p, r)
          \/ \E cost \in Costs : StartMicrobatch(p, cost)
          \/ HeadRest(p)
    \/ EndTick

Next == (\E r \in Requests : OnArrival(r)) \/ BeginTick \/ FlowStep

\* The simulation loop calls the flow again and again.
Spec == Init /\ [][Next]_vars /\ WF_vars(FlowStep) /\ WF_vars(BeginTick)

-----------------------------------------------------------------------------
(* Properties. *)

Times == -Tick .. Depth * (Max(Costs) + Max(Transfers)) * Depth
Ids   == 0 .. Depth
Chunks == [req : Requests, tokens : 1 .. BatchTokens, last : BOOLEAN]
Batches == [id : Ids, chunks : Seq(Chunks), decodes : Seq(Requests), at : Times]

TypeOK ==
    /\ arrived \in Seq(Requests)
    /\ kv \in [Replicas -> Kv!Store]
    /\ queue \in [Replicas -> SUBSET Requests]
    /\ left \in [Requests -> Nat]
    /\ head \in [Replicas ->
          [started : Seq(Requests), running : Seq(Requests), inFlight : Seq(Batches),
           computing : [id : Ids, end : Times] \cup {Nothing},
           exits : Seq([id : Ids, at : Times]),
           settling : [leaving : Seq(Requests), chunks : Seq(Chunks)] \cup {Nothing},
           forming : [decodes : Seq(Requests), chunks : Seq(Chunks),
                      budget : 0 .. BatchTokens] \cup {Nothing},
           launched : Seq([id : Ids, ready : Times]),
           asked : BOOLEAN, changed : Times, nextId : Ids]]
    /\ stage \in [Replicas -> [Followers ->
          [incoming : Seq([id : Ids, ready : Times]),
           scheduled : Seq([id : Ids, end : Times]),
           start : Times, end : Times, wake : Times \cup {Never}]]]
    /\ wake \in [Replicas -> Times \cup {Never}]
    /\ next \in Replicas
    /\ ticking \in BOOLEAN
    /\ turn \in Replicas \cup {Nobody}
    /\ emitted \in [Requests -> Nat]
    /\ done \subseteq Requests

IdsOf(seq) == [i \in 1 .. Len(seq) |-> seq[i].id]

\* What travels between stage 0 and stage s, the oldest first.
Behind(p, s) ==
    LET Path[i \in 0 .. s] ==
            IF i = 0
            THEN IdsOf(head[p].launched)
                    \o (IF head[p].computing = Nothing THEN << >>
                        ELSE << head[p].computing.id >>)
            ELSE IdsOf(stage[p][i].scheduled) \o IdsOf(stage[p][i].incoming)
                    \o Path[i - 1]
    IN  Path[s]

\* "microbatches must leave the pipeline in formation order": the tickets of the
\* window are, in order, what is on its way, and never more than the stages.  "so
\* a head forms only after every exit up to now has reached it": an exit the head
\* receives is no earlier than the start of what was formed without it.
InOrder ==
    \A p \in Replicas :
        /\ IdsOf(head[p].inFlight) = IdsOf(head[p].exits) \o Behind(p, Depth - 1)
        /\ Len(head[p].inFlight) <= Depth
        /\ \A i \in 1 .. Len(head[p].exits) : \A j \in i + 1 .. Len(head[p].inFlight) :
              head[p].exits[i].at >= head[p].inFlight[j].at

\* A decode waits for its token before it steps again, and a prompt has emitted
\* nothing before the last of its chunks has returned, wherever they are.
OneStepInFlight ==
    \A p \in Replicas, r \in Requests :
        LET window == head[p].inFlight
            steps  == { i \in 1 .. Len(window) : r \in RangeOf(window[i].decodes) }
            chunks == { i \in 1 .. Len(window) :
                          \E c \in RangeOf(window[i].chunks) : c.req = r }
            lasts  == { i \in chunks :
                          \E c \in RangeOf(window[i].chunks) : c.req = r /\ c.last }
        IN  /\ Cardinality(steps) <= 1
            /\ emitted[r] > 0 => chunks = {}
            /\ steps # {} => emitted[r] \in 1 .. Target[r] - 1
            /\ Cardinality(lasts) <= 1
            /\ \A i \in lasts, j \in chunks : j <= i

\* Every token of a decode is in its context, the rest is what it has left; a
\* prompt keeps its whole reservation until its last chunk returns.  "Admission
\* must have claimed every step's tokens before the step ran": advance asserts that
\* the partition never holds more than its capacity, and the projection lets all
\* decodes grow together, while here they step microbatch by microbatch.
ProgressAgrees ==
    \A p \in Replicas :
        /\ kv[p].resident[0] <= KvCapacity
        /\ RangeOf(head[p].running) = kv[p].decodes[0]
        /\ \A r \in Kv!PlacedOn(kv[p], 0) :
              IF r \in kv[p].decodes[0]
              THEN /\ kv[p].context[r] = ContextOf(r) + emitted[r] - 1
                   /\ kv[p].remaining[r] = Target[r] - emitted[r]
                   /\ left[r] = 0
              ELSE kv[p].promised[r] = FootprintOf(r) /\ emitted[r] = 0

CouldForm(p) ==
    /\ MayForm(head[p])
    /\ \/ Ready(head[p]) # << >> \/ head[p].started # << >>
       \/ \E r \in HeadOf(queue[p]) : Kv!Fits(kv[p], 0, FootprintOf(r))

\* "A head blocked on the in-flight window or on KV has no wakeup": between
\* ticks no exit is left to complete, not even while stage 0 computes, and a
\* head or a stage that sleeps could do nothing.
NothingLeftBehind ==
    ~ticking =>
        \A p \in Replicas :
            /\ head[p].exits = << >>
            /\ wake[p] = Never => head[p].computing = Nothing /\ ~CouldForm(p)
            /\ \A s \in Followers :
                  /\ stage[p][s].incoming = << >>
                  /\ stage[p][s].wake = Never => stage[p][s].scheduled = << >>

\* Every request fits the store of an empty replica: the code admits others too, and
\* lets them wait for ever.
EachFits == \A r \in Requests : ContextOf(r) + Target[r] <= KvCapacity

\* The flow serves by the contract, given that every request can be served at all.
Contract == INSTANCE ServingContract
    WITH released <- Arrived, produced <- emitted, completed <- done

ServesByContract == Contract!SafeSpec /\ (EachFits => Contract!Completion)

=============================================================================
