------------------------------- MODULE PdFlow -------------------------------
(***************************************************************************)
(* The prefill/decode-disaggregated deployment: PdFlow (orchestrator/      *)
(* impls/pd.rs) over a pool of prefill workers (IterBatchWorker with       *)
(* PrefillHandoffAdmission) and a pool of decode workers                   *)
(* (PullDecodeWorker).  A prefill hands its KV over and keeps it held; a   *)
(* decode worker pulls it, one transfer at a time, acknowledges the pull   *)
(* and decodes.                                                            *)
(*                                                                         *)
(* A step is one tick of one worker, with the events it emits delivered    *)
(* where PdFlow::tick routes them.  Which worker is due when, and so how   *)
(* computations and transfers of different workers interleave, is open.    *)
(* The pools' placement policy may pick any worker.                        *)
(***************************************************************************)
EXTENDS Workload, Sequences, FiniteSetsExt

CONSTANTS
    PrefillWorkers, DecodeWorkers,
    PrefillCapacity,   \* KV units of a prefill worker (one partition)
    PrefillRetained,   \* its retained-prefix ceiling
    DecodePartitions,  \* partitions of a decode worker
    DecodeCapacity,    \* KV units of each
    PullBudget,        \* pull_budget_tokens: landed plus in-transit tokens
    NoPartition,
    NoPull             \* no transfer in flight

PrefillKv == INSTANCE KvCacheStore WITH
    NumPartitions <- 1, Capacity <- PrefillCapacity, MaxRetained <- PrefillRetained

\* build_pd_decode_worker composes a store without a prefix cache.
DecodeKv == INSTANCE KvCacheStore WITH
    NumPartitions <- DecodePartitions, Capacity <- DecodeCapacity, MaxRetained <- 0

ASSUME PdAssumption ==
    /\ PrefillWorkers # {} /\ DecodeWorkers # {}
    /\ DecodePartitions \in Nat \ {0}
    /\ PrefillCapacity \in Nat /\ DecodeCapacity \in Nat
    /\ PrefillRetained \in 0..PrefillCapacity
    /\ PullBudget \in Nat
    /\ NoPartition \notin Nat
    /\ NoPull \notin [req : Requests, from : PrefillWorkers]
    /\ \A r \in Requests : ContextOf(r) > 0

VARIABLES
    arrived,  \* requests admitted to the prefill pool, in arrival order
    prefill,  \* per worker: store, pending requests, wakeup
    decode,   \* per worker: store, pull pipeline, partition pointer, wakeup
    emitted,  \* output tokens of each request
    done      \* completions returned to the tick loop

vars == << arrived, prefill, decode, emitted, done >>

(* A worker's wakeup: "none" (NO_WAKEUP_TIME, the pool skips it), "now" (it *)
(* polls), or "event" (the end of a computation or of a transfer).          *)
Init ==
    /\ arrived = << >>
    /\ prefill = [w \in PrefillWorkers |->
          [store |-> PrefillKv!EmptyStore, pending |-> {}, wake |-> "now"]]
    /\ decode = [w \in DecodeWorkers |->
          [store |-> DecodeKv!EmptyStore, pulls |-> << >>, inFlight |-> NoPull,
           landed |-> << >>, backlog |-> 0, next |-> 0, wake |-> "now"]]
    /\ emitted = [r \in Requests |-> 0]
    /\ done = {}

Arrived == { arrived[i] : i \in 1 .. Len(arrived) }

\* Routed work makes a sleeping worker due; a computing one keeps its wakeup.
Woken(worker) ==
    [worker EXCEPT !.wake = IF @ = "none" THEN "now" ELSE @]

-----------------------------------------------------------------------------
(* Prefill workers. *)

Enqueued(worker, r) ==
    Woken([worker EXCEPT !.pending = @ \cup {r}])

OnArrival(r, w) ==
    /\ r \notin Arrived
    /\ Before[r] \in done \cup {NoRequest}
    /\ arrived' = Append(arrived, r)
    /\ prefill' = [prefill EXCEPT ![w] = Enqueued(@, r)]
    /\ UNCHANGED << decode, emitted, done >>

\* The pending order is that of arrival.
HeadOf(pending) ==
    { arrived[i] : i \in { j \in 1 .. Len(arrived) : arrived[j] \in pending
         /\ \A k \in 1 .. j - 1 : arrived[k] \notin pending } }

\* complete_iteration: the prefill's KV is held for its pull, or released when
\* the first token was the last.
AfterPrefill(st) ==
    LET after(r) == IF Target[r] = 1
                    THEN PrefillKv!ReleasedRetainingPrefix(st, r, 0)
                    ELSE { PrefillKv!Hold(st, r, 0, ContextOf(r)) }
    IN  IF st.admits[0] = {} THEN { st }
        ELSE { PrefillKv!ClearPrefillAdmits(s) :
                 s \in UNION { after(r) : r \in st.admits[0] } }

\* form_batch: at most the head is admitted, when its context fits.
Formed(st, pending) ==
    LET admitted == { r \in HeadOf(pending) :
                        PrefillKv!Fits(st, 0, ContextOf(r)) }
        stores == IF admitted = {} THEN { st }
                  ELSE UNION { PrefillKv!ReservedPrefill(st, r, 0, ContextOf(r)) :
                                 r \in admitted }
    IN  { [store |-> PrefillKv!DrainReady(s), pending |-> pending \ admitted] :
            s \in stores }

PrefillWake(st, pending) ==
    IF st.admits[0] # {} THEN "event" ELSE IF pending # {} THEN "now" ELSE "none"

\* on_msg_handoff: the transfer waits its turn at the decode worker.
HandedOff(worker, r, w) ==
    Woken([worker EXCEPT !.pulls = Append(@, [req |-> r, from |-> w])])

\* A due prefill worker completes its iteration, if one ran, and forms the
\* next; PdFlow forwards what it finished.
PrefillTick(w) ==
    LET ran == prefill[w].store.admits[0]
    IN  /\ prefill[w].wake # "none"
        /\ \E st \in AfterPrefill(prefill[w].store) :
           \E f \in Formed(st, prefill[w].pending) :
              prefill' = [prefill EXCEPT ![w] =
                  [store |-> f.store, pending |-> f.pending,
                   wake |-> PrefillWake(f.store, f.pending)]]
        /\ emitted' = [r \in Requests |->
              IF r \in ran THEN emitted[r] + 1 ELSE emitted[r]]
        /\ done' = done \cup { r \in ran : Target[r] = 1 }
        /\ \/ \E r \in ran, d \in DecodeWorkers :
                 /\ Target[r] > 1
                 /\ decode' = [decode EXCEPT ![d] = HandedOff(@, r, w)]
           \/ (\A r \in ran : Target[r] = 1) /\ decode' = decode
        /\ UNCHANGED arrived

-----------------------------------------------------------------------------
(* Decode workers. *)

PullBacklog(dw) ==
    dw.backlog + (IF dw.inFlight = NoPull THEN 0 ELSE ContextOf(dw.inFlight.req))

\* One request may exceed the budget, alone.
PullFits(dw, tokens) ==
    \/ PullBacklog(dw) + tokens <= PullBudget
    \/ PullBacklog(dw) = 0 /\ tokens > PullBudget

\* advance_pulls: promote the transfer that has ended, then submit the next
\* one when the backlog permits.  A new transfer takes time.
Promoted(dw) ==
    [dw EXCEPT !.landed = Append(@, dw.inFlight.req),
               !.backlog = @ + ContextOf(dw.inFlight.req),
               !.inFlight = NoPull]

Submitted(dw) ==
    IF dw.inFlight # NoPull \/ dw.pulls = << >> THEN dw
    ELSE IF ~PullFits(dw, ContextOf(Head(dw.pulls).req)) THEN dw
    ELSE [dw EXCEPT !.inFlight = Head(dw.pulls), !.pulls = Tail(@)]

AdvancePulls(dw, pulled) == Submitted(IF pulled THEN Promoted(dw) ELSE dw)

LiveOf(st) == UNION { DecodeKv!LiveDecodes(st, p) : p \in DecodeKv!Partitions }

\* As IsComplete, were it asked for the token to come.
CompleteTooEarly(r, tokens) == tokens[r] + 1 >= Target[r]
IsComplete(r, tokens) == tokens[r] >= Target[r]

\* complete_iteration: a token for every live decode, the finished released.
AfterDecode(st, finished) ==
    DecodeKv!ReleasedEach(DecodeKv!Advanced(st, LiveOf(st)), finished)

\* As NextPartition, were the pointer not wrapped.
NextUnwrapped(p) == p + 1
NextPartition(p) == (p + 1) % DecodePartitions

\* form_batch: the first landed request, if any, consults the partition
\* pointer and enters that partition when it fits.
Joined(dw, tokens) ==
    IF dw.landed = << >> THEN { dw }
    ELSE LET r    == Head(dw.landed)
             p    == dw.next
             left == Target[r] - tokens[r]
             turn == [dw EXCEPT !.next = NextPartition(@)]
         IN  IF left = 0 \/ DecodeKv!Fits(dw.store, p, ContextOf(r) + left)
             THEN { [turn EXCEPT
                       !.landed  = Tail(@),
                       !.backlog = IF @ >= ContextOf(r) THEN @ - ContextOf(r) ELSE 0,
                       !.store   = DecodeKv!Committed(st, {r},
                           [q \in Requests |-> ContextOf(q)],
                           [q \in Requests |-> left])] :
                     st \in DecodeKv!Reserved(dw.store, r, p, ContextOf(r) + left) }
             ELSE { turn }

DecodeWake(dw) ==
    IF LiveOf(dw.store) = {} /\ dw.landed # << >> THEN "now"
    ELSE IF LiveOf(dw.store) # {} \/ dw.inFlight # NoPull THEN "event"
    ELSE "none"

\* A due decode worker: pulled, when its transfer has ended; computed, when its
\* iteration has.  An idle worker, or one whose iteration ended, forms a batch.
DecodeTick(d, pulled, computed) ==
    LET dw       == decode[d]
        live     == LiveOf(dw.store)
        ran      == IF computed THEN live ELSE {}
        tokens   == [r \in Requests |->
                       IF r \in ran THEN emitted[r] + 1 ELSE emitted[r]]
        finished == { r \in ran : IsComplete(r, tokens) }
        after    == IF computed THEN { AfterDecode(dw.store, finished) }
                                ELSE { dw.store }
    IN  /\ dw.wake # "none"
        /\ dw.wake = "event" => pulled \/ computed
        /\ pulled => dw.inFlight # NoPull
        /\ computed => live # {}
        /\ \E st \in after :
           LET rested == [AdvancePulls(dw, pulled) EXCEPT !.store = st]
           IN  \E formed \in IF computed \/ live = {} THEN Joined(rested, tokens)
                                                      ELSE { rested } :
                 decode' = [decode EXCEPT ![d] =
                              [formed EXCEPT !.wake = DecodeWake(formed)]]
        /\ emitted' = tokens
        /\ done' = done \cup finished
        /\ IF pulled
           THEN \E st \in PrefillKv!HandoffCompleted(
                             prefill[dw.inFlight.from].store, dw.inFlight.req) :
                  prefill' = [prefill EXCEPT
                     ![dw.inFlight.from] = Woken([@ EXCEPT !.store = st])]
           ELSE prefill' = prefill
        /\ UNCHANGED arrived

\* Nothing is left to serve.
Terminated ==
    /\ done = Requests
    /\ UNCHANGED vars

Next ==
    \/ \E r \in Requests, w \in PrefillWorkers : OnArrival(r, w)
    \/ \E w \in PrefillWorkers : PrefillTick(w)
    \/ \E d \in DecodeWorkers, pulled, computed \in BOOLEAN :
          DecodeTick(d, pulled, computed)
    \/ Terminated

\* A due worker is ticked; transfers and iterations take finite time.
Spec ==
    /\ Init /\ [][Next]_vars
    /\ \A w \in PrefillWorkers : WF_vars(PrefillTick(w))
    /\ \A d \in DecodeWorkers :
          /\ WF_vars(DecodeTick(d, FALSE, FALSE))
          /\ WF_vars(\E computed \in BOOLEAN : DecodeTick(d, TRUE, computed))
          /\ WF_vars(\E pulled \in BOOLEAN : DecodeTick(d, pulled, TRUE))

-----------------------------------------------------------------------------
(* Properties. *)

PullsOf(dw) == { dw.pulls[i].req : i \in 1 .. Len(dw.pulls) }
LandedOf(dw) == { dw.landed[i] : i \in 1 .. Len(dw.landed) }
InTransit(dw) == IF dw.inFlight = NoPull THEN {} ELSE { dw.inFlight.req }

Wakes == {"none", "now", "event"}
Handoff == [req : Requests, from : PrefillWorkers]

TypeOK ==
    /\ arrived \in Seq(Requests)
    /\ prefill \in [PrefillWorkers ->
          [store : PrefillKv!Store, pending : SUBSET Requests, wake : Wakes]]
    /\ decode \in [DecodeWorkers ->
          [store : DecodeKv!Store, pulls : Seq(Handoff),
           inFlight : {NoPull} \cup Handoff, landed : Seq(Requests),
           backlog : Nat, next : DecodeKv!Partitions, wake : Wakes]]
    /\ emitted \in [Requests -> Nat]
    /\ done \subseteq Requests

\* KV crosses the two pools without being lost, leaked or duplicated: a prefill
\* worker holds a request's KV exactly while its handoff names that worker and
\* has not landed, and once landed the request is at one decode worker only.
HeldUntilPulled ==
    /\ \A w \in PrefillWorkers, r \in Requests :
          prefill[w].store.held[r] > 0 <=>
             \E d \in DecodeWorkers :
                \/ \E i \in 1 .. Len(decode[d].pulls) :
                      decode[d].pulls[i] = [req |-> r, from |-> w]
                \/ decode[d].inFlight = [req |-> r, from |-> w]
    /\ \A r \in Requests :
          LET prefilling == { w \in PrefillWorkers : r \in prefill[w].pending
                                 \cup prefill[w].store.admits[0] }
              decoding   == { d \in DecodeWorkers : r \in PullsOf(decode[d])
                                 \cup InTransit(decode[d]) \cup LandedOf(decode[d])
                                 \cup DecodeKv!ResidentOf(decode[d].store) }
          IN  Cardinality(prefilling) + Cardinality(decoding)
                = IF r \in Arrived /\ r \notin done THEN 1 ELSE 0

\* "The soft tier is clamped to whatever capacity the hard tier leaves": an
\* acknowledgement may turn held KV into a retained prefix while the next
\* prefill computes, already out of the promised ledger and not yet held.
PrefillCapacityHolds ==
    \A w \in PrefillWorkers :
        LET st == prefill[w].store
        IN  st.reserved[0] + st.heldUnits[0] + PrefillKv!CacheUnits(st, 0)
              + PrefillKv!SumOver([r \in Requests |-> ContextOf(r)], st.admits[0])
                <= PrefillCapacity

\* What joined a decode partition fits with all it will still grow.
DecodeCapacityHolds ==
    \A d \in DecodeWorkers, p \in DecodeKv!Partitions :
        LET st == decode[d].store
        IN  /\ st.reserved[p] = 0
            /\ st.resident[p] <= st.peak[p]
            /\ st.peak[p] <= DecodeCapacity

\* No decode partition has decodes enough for projected_peak to be a sample.
FewDecodes == \A d \in DecodeWorkers : DecodeKv!FewDecodes(decode[d].store)

\* Neither pool is ever given more than it has room for.
CapacityHolds == PrefillCapacityHolds /\ DecodeCapacityHolds

\* Every request fits an empty worker of either pool: the code admits others too,
\* and lets them wait for ever.
EachFits == \A r \in Requests :
    /\ ContextOf(r) <= PrefillCapacity
    /\ ContextOf(r) + Target[r] - 1 <= DecodeCapacity

\* The two pools together serve by the contract, given that every request can be
\* served at all.
Contract == INSTANCE ServingContract
    WITH released <- Arrived, produced <- emitted, completed <- done

ServesByContract == Contract!SafeSpec /\ (EachFits => Contract!Completion)

=============================================================================
