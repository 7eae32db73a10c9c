# ServingStudioSim in TLA+

Specifications of the parts of ServingStudioSim that keep state: the workers
with their KV stores, the flows that connect workers, the loop that replays
a trace into a flow, and the launcher that starts runs beside each other. TLC
checks each of them on small instances; TLAPS proves the safety of both
whole-iteration workers, of the prefill/decode and the attention/FFN flow, of the
replay loop and of the launcher for every instance. Paths below are relative to `src/simulator/src/` unless they start with `src/`.

## 1. The system

ServingStudioSim is a discrete-event simulator of LLM serving, in seven layers
(`src/doc`). L1 timing, L2 op, L3 worklet and L4 arch compute how long a piece
of work takes; they are functions without state. The state is in the three
upper layers:

* L5 **worker** (`worker/`): forms batches from a queue, accounts for the KV
  cache, counts tokens;
* L6 **orchestrator** (`orchestrator/`): a *flow* connects pools of workers and
  offers `on_arrival`, `tick` and `cluster`;
* L7 **sim** (`sim/`): `run_sim` replays a trace into a flow and decides when the
  run is over.

Around it the **launcher** (`src/launcher/`) starts the simulator: one run or the
runs of a sweep, several launchers at a time.

A simulation runs on one thread against a simulated clock. What is hard about it is
not threads but *orders*: events of several workers fall anywhere relative to
each other, state is read in one tick and used in another, running totals are
kept beside the entries they sum, and everything that waits must be looked at
again by somebody. In the launcher it is processes: they share directories and a
database, are killed and interrupted, and leave children behind.

### Components

| component | state | operations | what makes it correct |
|---|---|---|---|
| KV store (`worker/kv/kv_cache_store.rs`, `kv/shared/*`) | promises, held handoffs, placements, resident decodes, per-partition totals, cached peak, retained prefixes | reserve, drain_ready, commit_resident, advance, release (retaining), hold, complete_handoff | totals equal the entries; hard and soft tier together fit the partition at all times; KV of a session exists once |
| Unified worker (`workers/iter/iter_batch_worker.rs`, `admission/local_prefill_decode_admission.rs`) | pending order, round-robin pointer, phase of the iteration | accept_message, form_batch, complete_iteration | a request is in one place; token counts of store and record agree; budget; affinity; every request served |
| PD flow (`orchestrator/impls/pd.rs`, `admission/prefill_handoff_admission.rs`, `workers/pd_decode/*`) | per worker: store, queue, wakeup; per decode worker: pulls, transfer, landed queue, backlog | arrival, prefill tick, decode tick with pull and acknowledgement | KV is held exactly while its pull is outstanding; both pools fit; no lost wakeup |
| Replay and loop (`sim/run.rs`, `sim/frontend/*`) | clock, cursor, ready rounds, open sessions, backlog mark, watchdog | drain, release head or successor, tick, stop or advance | concurrency cap across tool waits; arrival stamps; stops for the right reason; stops |
| Chunked prefill (`admission/chunked_prefill_admission.rs`, `decode_completion.rs`) | chunk progress, bounded-future reservations, retracted requests | chunk, settle, retract, re-prefill | no token counted twice across a retraction; someone always advances |
| Pipeline flow (`orchestrator/impls/pp.rs`, `workers/pipeline/*`) | microbatches in flight between head and stages | form, forward, settle exit | exits settle in order, each once |
| Attention/FFN flow (`orchestrator/impls/afd*.rs`, `workers/afd_*`) | slots, per-layer barriers, buffered tasks | scatter, aggregate, flush | a barrier opens when every part has come, for the right layer |
| Pending orders (`admission/policy/*`) | queue, ranks | enqueue, peek, pop | Fifo, ShortestJobFirst, SessionStart freeze a rank; LongestPrefixMatch refreshes its head lazily |
| Data-parallel pool (`orchestrator/impls/simple_dp.rs`) | worker wakeups, placement | route, tick the due | no worker with work sleeps |
| Launcher (`src/launcher/sweep.py`, `cache_build.py`, `process/*`) | leases of run directories and of `profile.db`, the tasks of a sweep, markers and artifacts on disk, children | open (what is to be done), prebuild caches, launch, reap, mark complete, cancel; killed at any time | one writer per directory, no builder beside simulations; what is marked complete is; nothing done twice; leases come free |
| KV layout accounting (`kv/shared/kv_accounting.rs`) | none | charges of windows, state parts, checkpoints | charge never exceeds footprint |

A flow calls its workers' `tick`, routes the events they return, and wakes the
workers it routes to. A worker calls its admission, the admission calls its KV
store. The loop calls the frontend, which releases requests into the flow and is
told of completions, which unlock the next round of a session. Launchers meet in
their leases and on disk only; a simulator is a child of the launcher in a session of
its own.

Not modelled: the stateless layers L1 to L4, deployment and schema, logs and
introspection, the parsing of traces, and what else surrounds the simulator
(the launcher's configuration, analyzer, alignment, presets, profiling, tools). `PROJECT.json` lists
every component with its status, and every hazard with the line where it bites.

## 2. Modules

```
FiniteSums          Workload
     \              /      \
     KvCacheStore -+        ServingContract      LayerBarrier
                   |          |      |      \       |
   UnifiedWorker  ChunkedWorker  PdFlow  PpFlow  AfdFlow      Replay      Launcher
```

`Workload` is extended by every module below it, `KvCacheStore` extended by a worker
and instantiated once per kind of worker by a flow, `ServingContract` by each worker and flow and by `Replay`.

* **Workload**: the immutable facts of the trace. A request is a standalone one,
  one with a pinned prefix (it declares a prefix but has no session), or a round
  of a session with the round before it.
* **ServingContract**: what any flow promises the loop. A released request gets
  its tokens one at a time, never more than it asked for; it is reported once,
  with all of them; no request stays in service for ever (`Completion`). It is the
  abstract specification of the workers and flows, and the environment of the loop.
  The code admits requests that fit no empty worker and lets them wait for ever, so
  UnifiedWorker, PdFlow, AfdFlow and PpFlow promise `Completion` for traces without
  one (`EachFits`), ChunkedWorker for those a whole partition serves (`EachServable`)
  while it does not panic; the safety is promised for every trace.
* **KvCacheStore**: the KV owner of one worker. The store is a record; each
  method is an operator from a store to the store it leaves, or to the set of
  stores the eviction policy may leave (`shrink_to` evicts whole entries in *some*
  order until the rest fits). Fields keep the meaning of the code's: `promised`
  and `reserved` are `RequestLedger`'s entries and totals, `held`, `heldOn`,
  `heldUnits` its handoffs, `admits`, `decodes`, `context`, `remaining`,
  `resident`, `peak` are `ResidentPartitionState`, `cache` is `PrefixCache`. Both
  admission modes of `kv_admission.rs` are there: the full footprint, and the
  bounded future with its new-token ratio, the claim of the next decode step and
  the release of a retracted decode.
* **UnifiedWorker**: `IterBatchWorker` with `LocalPrefillDecodeAdmission`.
  `BeginBatch`, `AdmitHead`, `CloseBatch` are the passes of `form_batch`;
  `CompleteIteration` and `ReleaseFinished` those of `complete_iteration`;
  `Enqueue` is `accept_message`. `phase` says where `tick()` stands, so nothing
  comes between the passes of one tick except what the code lets in. The pending
  order is a frozen rank (`Key`) with ties in enqueue order, which covers Fifo,
  ShortestJobFirst and SessionStart.
* **PdFlow**: two pools, each worker with its own store (`PrefillKv`, `DecodeKv`
  are two instances of KvCacheStore). A step is one tick of one worker together
  with the events it emits, delivered where `PdFlow::tick` routes them. When a
  computation or a transfer ends is open, so every interleaving of pulls,
  prefills and iterations is explored.
* **ChunkedWorker**: the same shell with `ChunkedPrefillAdmission` and a decode
  completion policy, on one partition. `BeginBatch`, `Prepared`, `Retract`, `Abort`
  are the passes of `prepare_decode`, `ScheduleStarted`, `RefreshHead`,
  `AdmitHead`, `CloseBatch` those of the prefill half, `CompleteIteration` and
  `ReleaseFinished` the end of the iteration. A configuration, chosen in `Init` from
  the constant `Configs`, says the batch policy,
  the admission mode, the retraction order, the width of a decode (verify rows),
  where chunks may end, and the pending order: Fifo, or `LongestPrefixMatch` with
  its cached key per request (`matched`), which is corrected only when the request
  reaches the head.
* **AfdFlow**: `AfdFlow`, the attention controller, the FFN pool and both kinds of
  workers. One `tick()` of the flow is a sequence of steps: `BeginTick` says which
  pulls and computations have ended, `FfnPass`/`FfnRest` run the due FFN workers,
  `Scatter`, `ReleaseDone`, `FinishIteration` deliver their events,
  `BeginAttn`, `AdmitHead`, `DrivePass`, `AttnRest` run the due attention workers,
  `OnIterStart` and `OnLayerOutput` aggregate what they report, `EndTick` ends it.
* **LayerBarrier**: what the controller's barrier of one slot promises, knowing
  nothing of workers' states or messages: a boundary opens when every participant
  has been heard once *for that boundary*, and every slot's barrier goes on
  opening. AfdFlow implements one per slot (`KeepsBarriers`, `BarriersOpen`).
* **PpFlow**: `PpFlow`, its heads and its stages. Here times are exact, for the
  stages keep exact times although a coarse tick drives them: every time is
  relative to the current tick, and `BeginTick` moves all of them back.
  `StartMicrobatch` forms, `Launch` hands to the first follower, `Report` and
  `StageRest` are a follower's tick, `TakeExit`, `ReleaseDecode`, `FinishChunk`,
  `EndExit` settle what came out.
* **Replay**: `run_sim` and the `ReplayScheduler`. `ReleaseSuccessor` and
  `ReleaseHead` are the two branches of the scheduler's release, `DrainDone` the
  end of the drain, `FlowTick` the flow (any flow that keeps the contract, is
  quiet for at most `MaxQuiet` ticks while it has something to do, and never
  admits `Unservable` requests), `StopDrained`, `StopDuration`, `StopStuck`,
  `AdvanceClock` the checks at the end of a pass in the order of the code.
* **Launcher**: `run_single` and `run_sweep` of several launchers. A launcher is one
  asyncio event loop, so what happens between two awaits is one step: `Open` takes
  the root's lease and looks for what is to be done; `StartProbe` .. `EndBuilding`
  are `prebuild_caches`, where `FindMissing` ends the awaited probe under the exclusive
  lease and `SpawnBuilder` starts the builder, with anything of others in between; `Begin` .. `Finalize` are `_launch_one`, one task per
  log_dir; `Close` gives the root back. The metadata and the removal of the marker
  are two steps although no await lies between, for a kill may. `Interrupt`,
  `SpawnRaises`, `TaskStopped`, `CancelAgain`, `EndCancelled` are the ways a
  cancellation takes through `gather` and `asyncio.run`; `Kill` ends a launcher and
  frees its leases; `BuilderEnds`, `SimOpens`, `SimEnds` are the children. `holder`,
  `readers`, `writer` are the flocks, `meta`, `out`, `marker` the files of a log_dir.
* **FiniteSums**: the sum of a function over a set, used for all totals.
* **MC...**: small traces. **..._proofs**: theorems (section 5).

### Abstractions

* Units of KV are tokens: a context of n tokens is charged n units and every
  token is a resume position, the accounting of a layout with one per-token part.
* Times are abstracted to *ended or not* in the workers and in AfdFlow; the loop
  and PpFlow have a clock. In PpFlow the time a stage or a pull takes is any member
  of a set, and the replicas, which share nothing but the arrivals, are taken one
  after the other.
* The projected peak is taken at a sample of the exits, as `resident_partition.rs`
  does. Below twelve decodes the sample leaves no exit out, and the peak is the
  one the decodes will reach (`ReachedPeak`, which properties only refer to).
* The new-token ratio is a fraction of integers instead of an `f64`; the ratios and
  the decay of an instance are multiples of `1 / RatioOf`, so the fraction is exact.
* The panic of `prepare_decode` (no second decode to retract) is a phase,
  `"aborted"`, in which nothing happens any more.
* ChunkedWorker has one partition: the load-aware choice among several, drafting
  slots and the clip at the context limit are left out. PpFlow leaves out chunk
  alignment and the cache-aware order, which ChunkedWorker has.
* An attention worker's transfer takes time exactly when it carries a request;
  byte counts have no other part in AfdFlow.
* The pending order of the PD prefill pool is Fifo, and its placement picks any
  worker. Every request of PdFlow and PpFlow has a prompt (`PdAssumption`,
  `PpAssumption`): in PdFlow a held handoff is known by its units, and one of none
  could not be told from no handoff.
* The loop's first arrival is taken to be admitted at once, and a busy flow is
  never quiet for a whole watchdog period (`MaxQuiet < SamplePeriod`).
* `preset.json` and `git_snapshot/`, which a single run writes in `Open`, are one
  variable (`preset`) of Launcher.
* In Launcher the files of a run are three facts: the config they came from, whether
  the validator passes them, whether a run that ended well wrote them. A simulator
  overwrites them one after the other, so what is there may go on passing while it
  runs. What a launcher was to run again is not compared with the config of a
  complete run, nor does the code. Every child is assumed to end (there is no
  timeout on a simulator). Ctrl-C comes once, and not while the root's lease is
  waited for; the analysis and its slot have no effect on the leases and are left
  out, and so is the build lease, taken before anything else.
* `release_request`, `release_external` and `cancel_pending` have no caller in
  the simulator and are left out.

## 3. Runs

| run | instance | what it shows |
|---|---|---|
| `unified_worker` | 6 requests: a session of two rounds, one of three whose second declares no inherited context, one pinned prefix; 2 partitions of 9 units, budget 2 | type, `OnePlace`, `ProgressAgrees`, `StoreTotalsAgree`, `CapacityHolds`, `SingleCopy`, `AffinityHolds`, `ServesByContract` |
| `chunk_mix` | 5 requests (a session, a long prompt, a pinned prefix, a long answer) on 15 units, under one of four configurations: mixed batches of 7 rows, decodes of 2 rows, bounded future, retraction first come first served; separate prefill iterations of 4 rows, longest-prefix order, retraction by length, a decaying ratio, chunks that end on a checkpoint one block early; mixed batches with full-footprint admission in the longest-prefix order, with decodes of 2 rows and of 1 | `RetractionLosesNothing`: store, queue and record agree through retraction and re-prefill; `StepClaimed`: a decode step is claimed before it runs, and no iteration exceeds its cap; `BestFirst`: the head admitted has the longest resident prefix although evictions make the cached keys stale; `ServesByContract` |
| `chunk_abort` | a long prompt beside a long answer, one future token, ratio 0 | `NeverAborts` fails (below) |
| `chunk_overfull` | 3 decodes of 2 rows on 19 units, full-footprint admission | `NeverOverfull` fails (below) |
| `pd_flow` | 4 requests, 2 prefill workers of 5 units, 1 decode worker of two 8-unit partitions, pull budget 4 | `HeldUntilPulled`, `CapacityHolds` of both pools, `ServesByContract` |
| `afd_flow` | 4 requests, two of them a session; 2 attention workers of 6 units, 2 FFN workers, 2 slots, 2 layers | `NoneDropped`: no message of the lockstep is ignored by its receiver; `OnePlace`: the same place and the same count of tokens for a request in the store and in the records; `KeepsBarriers` (refinement of LayerBarrier) |
| `afd_live` | 3 requests, 2 attention workers of 4 units, 1 FFN worker | `BarriersOpen` (the barrier of an empty slot too), `ServesByContract` |
| `pp_flow` | 4 requests, a session whose first prompt takes two chunks; 2 replicas of 3 stages that take 3, pulls that take 1, tick 2, round robin, decodes spread over the window | `InOrder` (a head forms after every earlier exit), `OneStepInFlight`, `ProgressAgrees` (and the next step of every decode fits), `NothingLeftBehind`, `ServesByContract` |
| `replay` | 6 rows, two sessions whose rounds are interleaved with standalone rows, cap 2, tool wait 3 | `CapHolds`, `StampHolds`, `Terminates`, `ReleasesByContract` |
| `replay_stuck` | one request that is never admitted, a duration of 24 | `CauseHolds`: `StopStuck` is reached, and only on a flow that cannot move |
| `replay_hang` | that request under a cap of one, run to the end | `Terminates` fails (below) |
| `launcher` | a sweep over two log_dirs, a single run that refreshes one of them with another config, the sweep started again; two cache keys, two simulations at a time in the first sweep and in the single run, one in the other, one invocation killed or interrupted | `NoContention`: who waits for its simulator has the directory and the rows to itself, with its own metadata and no marker; `CompleteIsTrue`; `NothingTwice`; `Settles` |

Why the bounds are enough for what they show. In `unified_worker` the requests
together need more than both partitions hold, a prompt fills most of the budget
beside decodes, one session's entry is evicted by the other's reservation, and a
round finds its prefix, part of it, or nothing; the round that does not look for it
leaves a second copy, and the round after it chooses between the two. In `pd_flow` one request exceeds
the pull budget, one ends at its prefill and is never handed over, one grows
while others land; with two prefill workers and one decode worker every
acknowledgement can meet a prefill that computes. In the chunked runs the answers
together outgrow the partition, so decodes are retracted, once and again, while a
long prompt is in the middle of its chunks, and retained prefixes are evicted while
requests that rank by them wait; the verify window of the first configuration makes the number
of tokens a step yields open. In `afd_flow` two workers and two slots are what it
takes for a report of one slot or layer to be mistaken for that of another, two
layers for the first and the last boundary to differ from one in between, two FFN
workers for tasks to overtake each other; `afd_live` gives up the second FFN worker
for the liveness check and has one request that fits beside neither of the others,
so a slot runs empty while another is full. In `pp_flow` the stages take longer than
a tick and end between ticks, a prompt's chunks fall into different microbatches, and
more decodes are ready than a microbatch takes. In `replay` the cap is lower
than the units of the trace, so that heads are deferred, and a session waits for
its tool while it holds a slot. `Horizon` caps the clock: the arrivals, tool
waits and duration all lie before it, and nothing depends on the clock beyond. In
`launcher` the three share a log_dir in pairs, two share a root, two share a cache key,
one asks for another config than the others; `MaxLosses` is one, for a second loss
only leaves fewer launchers to disturb: each invariant is about what one lost launcher
leaves behind and one that goes on. With two slots a sweep has two simulators running
when a task of it raises, and gives its root back while the other is awaited. It has no
task that waits for a slot, then; that no launcher exceeds its slots is proved
(`TypeCorrect`). The run has 1,087,715 states, `unified_worker` 8,886, `chunk_mix` 72,045.

### What the violations say

* `replay_hang`: the watchdog is asked only once the trace is exhausted. Under a
  concurrency cap a request that never fits keeps the following rows from being
  released; the trace is never exhausted and, with `run_to_end`, the loop never
  ends. The comment at `sim/run.rs:249` says Stuck can occur only after
  exhaustion.
* `chunk_abort`: a prompt of several chunks keeps its whole reservation until its
  last chunk; the only live decode grows until the partition is full.
  `prepare_decode` looks for a victim among the decodes only, finds the growing one
  itself, and the assertion at `worker/admission/chunked_prefill_admission.rs:352`
  ends the run, although each request fits alone and giving back the started prompt
  would make room. The constants are those of the vLLM presets, which reserve one
  future token at ratio zero
  (`src/presets/alignment/glm53_flash_fp8_b200_tp4_ep4/campaign.yaml:52`).

* `chunk_overfull`: a full-footprint admission is compared with the projected peak,
  which lets every decode grow by one token a step and leave after its remaining
  tokens (`worker/kv/shared/resident_partition.rs:336`). With speculative decoding the
  decodes of one iteration advance by different distances
  (`worker/admission/decode_completion.rs:248`), the peak is not recomputed, and a
  decode whose drafts are accepted has grown long before the others leave. The
  assertion at `worker/kv/kv_cache_store.rs:638` ("decode advance overfilled KV
  partition") fails. It is the default admission of a speculating engine
  (`worker/config.rs:122`). `StepClaimed` states the room of a full footprint for
  decodes of one token, and that is what is proved.

Met while modelling and left without a run: with a tick longer than a stage takes, a
head may form before an exit that is earlier in simulated time has reached it, which
`orchestrator/impls/pp.rs:15` excludes (so `InOrder` is checked with a tick finer
than a stage, and hazard and comment stand); consecutive chunks of one prompt ride consecutive microbatches. When a
sweep is interrupted, `gather` is done as soon as one task has ended cancelled, and
`asyncio.run` cancels the others a second time: a task that waits for its terminated
simulator stops waiting, and its leases come free while the simulator may be alive
(`CancelAgain`, the task is `"left"`). `process/supervisor.py:3` says that a
cancellation targets the whole process group, and it does, but nobody waits for its
end. `CompleteIsTrue` and `NothingTwice` are stated for directories without such a
simulator, or one whose launcher was killed.

A single run writes `preset.json` into its log_dir right after the completeness check
(`src/launcher/sweep.py:336`), before the prebuild and the unlink of the marker. When the
prebuild of a `--refresh` with another config fails, or the launcher is killed there, the
old outputs and their marker stay beside the new `preset.json`, one of the metadata files
that `src/launcher/README.md:638` lists. Checked with `preset` for `meta` TLC finds it at once;
`CompleteIsTrue` speaks of `run_config.yaml` and `raw/params.json` only, which the
spawn writes. The same window is why `NothingTwice` lets the builder of a killed launcher
commit rows between the probe and the start of another builder: the exclusive lease of a
killed launcher is free, its builder is not dead.

`choose_prefill_partition` looks a session up with the number of tokens the round
declares (`worker/admission/local_prefill_decode_admission.rs:189`), and the loader takes
a missing prefix for none (`sim/frontend/schema.rs:73`): a later round that declares none
finds no owner while the session's KV is retained, and the pointer may put it elsewhere.
That is the second copy which the comment at line 180 rules out ("a blocked cache owner
waits instead of creating another copy"). `SingleCopy` and `AffinityHolds` therefore
count such rounds (`StartedBlank`), and the instance has one: without the count TLC
refutes both.

`sample_indices` leaves exits out from twelve decodes on, the ninth of twelve first. When
the charge is highest at the ninth (eight short answers, a long prompt, three long answers), the
cached peak is too low, a thirteenth request is admitted into room that is not there,
and the decodes grow past the capacity, where `advance` asserts (`kv_cache_store.rs:636`). With
prompts and answers of 1 and 2 tokens (eight requests), 10 and 11, 1 and 13 (three), then
18 and 20 on 77 units, TLC finds `NeverOverfull` of ChunkedWorker violated by single-token decodes under full
footprints in one prescribed order of arrivals; over all arrivals the instance is too
large for a run. The theorems about capacity are stated for fewer than twelve decodes.

A request that would not fit an empty partition is not refused: the trace is checked
against `max_model_len` only (`deployment/mod.rs`). Under a bounded future such a decode
ends in the assertion of `prepare_decode` in an engine that does not mix, too (`Outgrown`).

## 4. Fairness

* UnifiedWorker: `WF(Tick)`. `next_wakeup` reports a time whenever the worker has
  queued or active work, and iterations take finite time, so the cluster ticks it
  again. Nothing is assumed about arrivals: a request that never arrives is not in
  service.
* PdFlow: weak fairness of each worker's tick, and of the end of a transfer and of
  an iteration separately: a due worker is ticked and both take finite time. Which
  comes first is open.
* ChunkedWorker: `WF(Tick)`, for the same reason as UnifiedWorker. Which decode a
  step completes and how many rows of it are accepted is open.
* AfdFlow: weak fairness of the steps inside a tick and of the next tick, for the
  loop calls `tick` again and again; strong fairness of the end of each worker's
  transfer and computation: each takes finite time, while other events come and go.
* PpFlow: weak fairness of the steps inside a tick and of the next tick. Time moves
  with the ticks, so nothing is assumed about the ends of computations.
* Replay: `WF(Pass)`: the loop runs until it breaks.
* Launcher: weak fairness of each launcher and of its children: an event loop polls
  leases and children for ever, and children end. A lease that is free again and
  again but never seen free is not ruled out by this; it does not occur, for every
  launcher ends after finitely many steps and whoever is left finds it free.

`Terminated` and `Stopped` are explicit stuttering steps for the end of a run, so
that TLC's deadlock check stays on: a worker that could not move with work left
would be reported. It is off in `pp_flow`, where a flow that has nothing left
takes no tick, and in `launcher`, where every process has ended; that they do not stop
earlier is `ServesByContract` and `Settles` there.

## 5. Proofs

Proved for every trace, number of partitions, capacity, budget and order that
satisfy the assumptions of the modules (`WorkloadAssumption`, `StoreAssumption`;
finite sets of requests and sessions, positive targets):

| theorem | module | says |
|---|---|---|
| `TypeCorrect` | `UnifiedWorker_proofs` | `Spec => []TypeOK` |
| `OnePlaceHolds` | `UnifiedWorker_proofs` | `Spec => []OnePlace` |
| `ProgressHolds` | `UnifiedWorker_proofs` | `Spec => []ProgressAgrees` |
| `SafeContract` | `UnifiedWorker_proofs` | `Spec => Contract!SafeSpec`, the refinement without its liveness |
| `SingleCopyHolds` | `UnifiedWorker_proofs` | `Spec => []SingleCopy` |
| `AffinityCorrect` | `UnifiedWorker_proofs` | `Spec => AffinityHolds`, an action property |
| `TotalsHold` | `UnifiedWorker_proofs` | `Spec => []StoreTotalsAgree` |
| `CapacityCorrect` | `UnifiedWorker_proofs` | `Spec => ([]FewDecodes(store) => []CapacityHolds)` |

These are all the safety properties the runs check of this worker. The first four
rest on one inductive invariant,

    IInv == TypeOK /\ OnePlace /\ PhaseAgrees /\ ProgressAgrees /\ EmittedAgrees

and none of its parts is inductive alone. `TypeOK` needs to know that `advance` is
called for decodes with output left, which is `ProgressAgrees` with
`EmittedAgrees` (a decode whose record has reached the target is in `finished`)
and `PhaseAgrees` (nothing is in `finished` when an iteration runs; lemma
`AllLive`). It also needs the placement of a finished request to be a partition,
which is `OnePlace`. `OnePlace` needs `PhaseAgrees`, for `complete_iteration`
overwrites the list of finished requests, and `drain_ready` moves all promises at
once. TLC checked `IInv` on the instance of `unified_worker` first.

The lemmas are in three layers. `FiniteSums_proofs` shows what sums and maxima
are: the library defines a sum by a recursive function, so its existence is
proved first, then that it steps, that it is an integer, and that any element may
be taken out first. Induction is over the *set* of the subsets where a fact holds
(`SubsetInduction`, from the well-foundedness of strict inclusion), which needs no
predicate parameter. `KvCacheStore_proofs` shows that every operation leads from a
store to a store and moves only its own request (the `...Type` and `...Fields`
lemmas), including that the search for the owner of a prefix finds a partition.
`UnifiedWorker_proofs` has one lemma per action, one step per conjunct.

`SingleCopyHolds` and `AffinityCorrect` add to `IInv` what `RoundsInOrder` (of two rounds of a
session that have arrived, one has been followed by another, so it is done) and
`CopiesAgree` say. Two rounds of a session are therefore never placed at once, and the
first round of a session finds nothing retained, for what is retained is of a round that
is done. A later round takes the copy it found with it, so the number of copies grows
only when a round is admitted without looking: the copies and the active round are
counted against the rounds in `StartedBlank`, an equation of cardinalities that every
action keeps. Nothing is assumed of what the rounds declare.

`StoreTotalsAgree` and `CapacityHolds` are one invariant on top of `IInv`,

    RoomInv(few) == PromisesExact /\ \A p \in Partitions : Sound(p, few)

where `Sound(p, few)` says of one partition that its totals are the sums of its entries,
that the cached peak of fewer than twelve decodes is at least the one they will reach, and,
where `few`, that peak, promises, retained prefixes and the prompts and outputs of the
batch just admitted fit. `TotalsHold` takes it with `few` false, for every trace;
`CapacityCorrect` with `few` true, from `[]FewDecodes`: in a behaviour where twelve decode at
once the code's peak is a sample (`FewAreExact` and `ProjectedIsReached` say what it is
below twelve and ever), and the claim is false (end of §3). Admission compares
with the *cached* peak, so what has to be shown is that nothing makes the true one
exceed it without a check. An iteration advances every decode by one token, and the
point at which the charge is highest moves one step nearer, so the peak does not grow
(`PeakAfterStep`, from `PeakIs`, `PeakBounds`, `PeakLeast`: the candidates, the exits,
bound the charge at every step). A prefill that joins the decodes raises the peak by no
more than its own context and target (`PeakOfJoined`), which is what its promise and its
place in the batch reserved. `PromisesExact` says a promise is that number; it is why
replacing a promise by an admission keeps the sum. The sums of disjoint unions, of
subsets and of two functions are lemmas of `FiniteSums_proofs`. TLC checked `RoomInv`,
`RoundsInOrder` and `CopiesAgree` on the instance of `unified_worker` first.

The replay loop is proved for every trace that is a sequence of all requests, every
cap, tick length, horizon and sampling period (`ReplayAssumption`,
`WorkloadAssumption`, `ChainAssumption`), and for every answer of the flow that the
loop's actions allow:

| theorem (`Replay_proofs`) | says |
|---|---|
| `TypeCorrect` | `Spec => []TypeOK` |
| `CapCorrect` | `Spec => []CapHolds`: the cap bounds the units open, tool waits included |
| `ContractCorrect` | `Spec => ReleasesByContract`, a refinement of the contract's safety |
| `StampCorrect` | `Spec => StampHolds`, which heads the cap delays and which not |
| `CauseCorrect` | `Spec => []CauseHolds`, why the loop stops |

The inductive invariant is

    IInv == /\ Typed /\ FlowInOrder /\ SlotsAgree /\ ActiveUnits <= MaxUnits
            /\ RoundsInTurn /\ ReadyWaits /\ HeadsAhead

`CapHolds` counts sessions and requests in the history, `ActiveUnits` the counters the
scheduler keeps; `SlotsAgree` says they are the same. That a completion closes
exactly the sessions it should (lemma `ClosedSessions`: those whose *last* round it
completes) needs `RoundsInTurn`, all earlier rounds of a released one are
completed, and `RoundsInTurn` needs `ReadyWaits` for the release of a successor and
`HeadsAhead` for that of a head, which would otherwise open a session twice. What a
row's chain is comes from the trace alone: `RowsDiffer` (as many rows as requests,
so no request has two), `RoundBefore` and `NextRound` (the successor of a row is the
next row of its session). That the countdown of the watchdog never wraps is part
of `Typed`. `StampCorrect` adds `BacklogNoted`: a head that was due at the last drain
and is still waiting has been noted by it. `CauseCorrect` adds `CauseInv`, which relates the
watchdog to the flow: what two samples compare only grows (`ProgressGrows`), and while
it is what the last sample saw, a flow with something to do has been quiet ever since
(`QuietSince`, the ticks counted by the countdown). A sample therefore never agrees with
the one before it while the flow can move, for `MaxQuiet < SamplePeriod`; the very first
sample is compared with zeros, and a flow that has admitted nothing by the end of a pass
has nothing it could admit. TLC checked `IInv` and `BacklogNoted` on the instance of
`replay` and `CauseInv` on those of `replay` and `replay_stuck` first.

The launcher's safety is proved whole, for every number of invocations, directories,
cache keys, slots and losses, and for every assignment of roots, configs and keys that
satisfies `LauncherAssumption` (an experiment root is not a log_dir):

| theorem (`Launcher_proofs`) | says |
|---|---|
| `TypeCorrect` | `Spec => []TypeOK`: no launcher exceeds its slots, the exclusive lease of profile.db excludes the shared ones |
| `NoContentionHolds` | `Spec => []NoContention` |
| `CompleteIsTrueHolds` | `Spec => []CompleteIsTrue` |
| `NothingTwiceHolds` | `Spec => NothingTwice`, an action property |

The inductive invariant says first which phase holds which lease:

    IInv == Typed /\ SlotBound /\ PhaseAgrees /\ DirLeases /\ DbLeases /\ RowsAgree
            /\ ProbeAgrees /\ RecordAgrees /\ SimsAgree /\ NeedAgrees /\ OutputAgrees
            /\ CompleteIsTrue

`PhaseAgrees` ties the tasks and the builder to the state of their invocation, and
everything else needs it: that a builder is gone when the write lease is given back,
that no task is up when a probe ends. `DirLeases` and `DbLeases` follow from it action
by action; the one hard case is `SpawnRaises`, which gives the root back while other
simulators still die. In a single run the root *is* the log_dir: there `pending` is that
one directory, and the task that raises is the one in the slot, so none is dying.
`NoContention` then follows from the leases alone. For the marker, `OneWriter` is the
central lemma: while a task holds its log_dir no simulator writes there but its own and
those that were left behind; with it `OutputAgrees` (what the simulator wrote is of the
config asked for) survives the steps of everyone else until `Finalize` writes the marker.
Being left behind is stable (`LeftStays`), which is why the exception in
`CompleteIsTrue` never closes once it has opened. `NeedAgrees` says who may stand
between the metadata and the unlink over a complete run. TLC checked `IInv` on the
instance of `launcher` first.

The prefill/decode flow is proved for every number of workers in both pools, of
partitions, every capacity and pull budget, and every trace whose requests have a
prompt (`PdAssumption`), whether they fit a worker or not:

| theorem (`PdFlow_proofs`) | says |
|---|---|
| `TypeCorrect` | `Spec => []TypeOK` |
| `HeldUntilPulledHolds` | `Spec => []HeldUntilPulled` |
| `CapacityCorrect` | `Spec => []PrefillCapacityHolds /\ ([]FewDecodes => []CapacityHolds)`: a prefill worker has no decodes, a decode partition's peak is a sample from twelve on |
| `SafeContract` | `Spec => Contract!SafeSpec`, the refinement without its liveness |

The inductive invariant is

    IInv == /\ TypeOK /\ done \subseteq Arrived
            /\ \A w : PrefillSound(prefill[w])
            /\ \A d : DecodeSound(decode[d], emitted)
            /\ OnePlace /\ HeldExact /\ EmittedAgrees

`HeldExact` says for which handoffs a prefill worker still holds KV. It is not
inductive alone: that an acknowledgement ends the hold of *its* request, and that no
second handoff for it waits somewhere else, is `OnePlace` (the queues of different
decode workers are disjoint) with the `InOrder` part of `DecodeSound` (a request is
once in a worker's queue of pulls, its transfer, its landed requests and its
residents). `OnePlace` in turn needs `PrefillSound`: one prefill runs at a time and is
no longer pending. `DecodeSound` ties a resident decode to its record (what the store
still reserves for it is its target less the tokens it has), so an iteration never
advances a decode past its target and every decode it finishes is released. `EmittedAgrees`
is what the contract asks. The two pools are two instances of the same store, so the
lemmas about one are proved in `KvCacheStore_proofs` as facts about two invariants of a
store, `HandsOver` (what a prefill worker promises, holds, retains and prefills fits)
and `PullSound` (what a decode partition holds fits with its growth, and its peak is the
sum of full footprints), and cited through an instance for each pool (`PF!`, `DF!`).
The loop that releases the finished decodes of an iteration is a fold over a set, so
its lemma (`ReleaseEachPulls`) is one of the subset inductions. TLC checked `IInv` on
the instance of `pd_flow` first.

The attention/FFN flow is proved for every number of attention workers, FFN workers,
slots and layers, every capacity, and every trace, whether its requests fit an
attention worker or not:

| theorem (`AfdFlow_proofs`) | says |
|---|---|
| `TypeCorrect` | `Spec => []TypeOK` |
| `NothingDropped` | `Spec => []NoneDropped` |
| `OnePlaceEach` | `Spec => []OnePlace` |
| `BarriersKept` | `Spec => KeepsBarriers`, the refinement of `LayerBarrier` by every slot |
| `SafeContract` | `Spec => Contract!SafeSpec`, the refinement without its liveness |

The inductive invariant is

    IInv == /\ TypeOK /\ Lockstep /\ ReportsTrue /\ OneComputes /\ BatchesAgree
            /\ Places /\ StoresAgree /\ TokensAgree

A slot is looked at as one record, its `View`: its cell on every attention worker, the
controller's barriers, the reports not aggregated yet and the tasks of the slot wherever
they are. `Lockstep` says that a view is in one of three shapes: `Gathering` (between
two iterations, some workers have announced theirs), `Marching` (all workers in one
layer, some have computed it) or `Serving` (the task is with the FFN pool and everyone
waits for its result); the count and the batch of the controller's barrier are exactly
those of the workers that have been heard. It is what neither side knows alone: the
controller does not look at the slots and the workers do not look at the barriers.
Each kind of change of a view is a lemma (`KeptSlot`, `ReportedSlot`, `HeardStart`,
`HeardLayer`, `ScatteredSlot`, `FinishedSlot`, `ReleasedSlot`) that also says what the
change is for the barrier of `LayerBarrier`, and `BarriersKept` is read off them.
`ReportsTrue` covers the time between a worker's report and its aggregation, when the
worker may go on with other slots: what is still to be aggregated is true of the slot
now, and no worker is reported twice for a slot.

The tasks of a slot are in queues of FFN workers, pulled, computed, or in an event of the
tick. That a step only moves them is proved once for sets of places (`Relocated`) and
used for the pass of a worker (`PassedFlight`), the submission of a task
(`SubmittedFlight`) and the delivery of an event (`DeliveredFlight`). `BatchesAgree` says
nobody of a task's batch is completed before its Terminal is delivered, and what the
Terminal's event lists; with `Places` (one queue or one slot, on the worker a request is
pinned to), `StoresAgree` and `TokensAgree` (the count of a decode in the store and in
the record, by whether the last layer is computed and its Terminal emitted) it gives
`OnePlace` and the contract. `OneComputes` says a worker computes one slot at a time, so
the last layer of at most one slot is counted by a pass. TLC checked `IInv` on the
instances of `afd_flow` and `afd_live` first.

The chunked worker is proved for every capacity, every trace, and every set of
configurations: any mix of pending order, batch
policy, admission mode, retraction policy, ratios, verify width, row cap and checkpoint
interval that satisfies `ChunkedAssumption`:

| theorem (`ChunkedWorker_proofs`) | says |
|---|---|
| `TypeCorrect` | `Spec => []TypeOK`, the fraction of the ratio included |
| `NothingLost` | `Spec => []RetractionLosesNothing` |
| `AlwaysClaimed` | `Spec => []RowsClaimed /\ ([]PeakExact => []StepClaimed)`: the rows always, the KV unless twelve or more full footprints of one token a step decode at once |
| `BestFirstHolds` | `Spec => BestFirst`, an action property |
| `PanicsHaveACause` | `Spec => []PanicsExplained`: the assertion of `prepare_decode` fails only with mixed batches, or on a decode that would not fit an empty partition (`Outgrown`) |
| `SafeContract` | `Spec => Contract!SafeSpec`, the refinement without its liveness |

The last two are the safety of `ServesByContract`. All rest on

    IInv == TypeOK /\ RetractionLosesNothing /\ Outputs /\ Batched /\ Books

where `Outputs` bounds what a request has been given by where it is, `Batched` says that
chunks are for requests being prefilled, one each and no longer than what is left, and
`Books` that the totals of the store are the sums of its entries. `TypeOK` needs
`Outputs` (an iteration advances a decode only while it has output left) and `Batched`
(what is left of a prompt stays a natural number); `RetractionLosesNothing` needs both, and `Books`
for a victim that holds no promise. The chunk schedule and the filter of the started
prompts are recursive functions over a sequence; `Iterates` proves once that such a
recursion has a solution, and `StartedIs` and `KeptIs` say what it is.

On top of `IInv`, `AlwaysClaimed` takes two invariants. `Rooms` is the capacity, and has
two cases. With a bounded future (`BoundedRoom`) what is resident and promised fits
always, and the next step of every decode beside it from the moment it is claimed
(`prepare_decode`, or the admission of a mixed iteration, which leaves room for it) until it is taken:
a decode that retires fewer tokens than its window claimed less than was free. With full footprints
(`FullRoom`) it is the argument of the unified worker, peak and promises, for decodes of
one token and fewer than twelve of them (`PeakExact`), and the lemmas about the peak are
shared. Under a bounded future the peak plays no part and nothing is assumed. For wider decodes it is false, which
is run `chunk_overfull`; that is why `StepClaimed` states its first part for
`Bounded \/ Width = 1`. `Budgeted` is the row cap: the windows of the decodes and of
the prompts that will decode fit a mixed iteration together (`Windows`, what
`future_decode_slots` counts); and of prompts that may stop anywhere a second one starts
only when the first leaves budget, that is, has its last chunk in the batch.

`BestFirstHolds` shows that refreshing the head alone is exact: `Best` says that a
cached key is an upper bound of what its request would find now. It holds because
retained prefixes only shrink while a request waits, and that in turn because a round of
its session could retain a longer one only if it were done after the request arrived,
which `Ordered` excludes (of two rounds of a session that have arrived, the earlier is
done). `HeadAhead` then compares: the head's key is exact when it is admitted, the
others' are no less than what they would find. It needs `ChainAssumption`.

`PanicsHaveACause` adds `Scheduled` (a prompt is either waiting for its next chunk or its
last one is in the batch) and `Apart`: an engine that does not mix claims a decode step
only when it formed no batch, hence when no prompt is started, for a started one would
have been given a chunk of the whole row cap (`StartsSome`). What is resident is then
the last decode alone, so its step fits unless it outgrows the partition by itself
(`LastFits`). In a mixed engine a started prompt holds its reservation beside it,
which is run `chunk_abort`. TLC checked `IInv`, `Rooms`,
`Budgeted`, `Best`, `Scheduled` and `Apart` on the instance of `chunk_mix`.

Only model-checked: liveness (`ServesByContract` beyond its safety, `Terminates`,
`BarriersOpen`, `Settles`), which needs fairness, and everything about PpFlow.

## 6. Left to do

1. **Model.** `KvAccounting`: the layouts (windows, state parts, checkpoints) as
   pure operators against a reference charge. ChunkedWorker on several partitions
   with its load-aware choice. The placement policies of the data-parallel pool,
   which PdFlow leaves open.
2. **Theorems**: the invariants of PpFlow, the one module with safety properties that
   are only model-checked. They relate the exact times of every stage to a window
   of microbatches; no inductive invariant has been worked out for them.

Not modelled, and why: the layers L1 to L4 compute times and have no state; the
model execution of a worker is the open duration of its iteration; transfer timing
is the open duration of a pull; reports and the prefix-cache journal log state the
modules keep; the loading of traces establishes what `Workload` and `Replay` assume
of them. The greater part of the repository's code is architectures' cost functions,
configuration, and the analyzer beside the simulator, which keep nothing that could
go wrong over time.
