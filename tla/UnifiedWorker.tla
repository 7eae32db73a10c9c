---------------------------- MODULE UnifiedWorker ---------------------------
(***************************************************************************)
(* The whole-iteration worker with local prefill and decode: the shell     *)
(* IterBatchWorker composed with LocalPrefillDecodeAdmission and a         *)
(* KvCacheStore.  One call of tick() runs until it has started an          *)
(* iteration or has nothing to form; its loop passes are separate steps    *)
(* here, and phase shows that nothing else happens between them: messages  *)
(* are delivered between ticks only.                                       *)
(***************************************************************************)
EXTENDS KvCacheStore

CONSTANTS
    Key,          \* rank of a request in the pending order, frozen at enqueue
    TokenBudget   \* max_batch_tokens of one partition

ASSUME WorkerAssumption ==
    /\ Key \in [Requests -> Nat]
    /\ TokenBudget \in Nat \ {0}

VARIABLES
    arrived,   \* requests enqueued so far
    store,     \* the worker's KvCacheStore
    pending,   \* queue membership of the pending-order policy
    ticket,    \* enqueue_sequence of each request
    next,      \* round-robin pointer of LoadBalance
    usage,     \* partition_token_usage while a batch is formed
    phase,     \* where tick() stands
    finished,  \* requests complete_iteration has yet to release
    emitted,   \* output_tokens_emitted of each request
    done       \* requests reported by RequestComplete

vars == << arrived, store, pending, ticket, next, usage, phase, finished,
           emitted, done >>

NoUsage == [decodes |-> 0, prefill |-> 0]

Init ==
    /\ arrived = {}
    /\ store = EmptyStore
    /\ pending = {}
    /\ ticket = [r \in Requests |-> 0]
    /\ next = 0
    /\ usage = [p \in Partitions |-> NoUsage]
    /\ phase = "idle"
    /\ finished = {}
    /\ emitted = [r \in Requests |-> 0]
    /\ done = {}

-----------------------------------------------------------------------------
(* Batch formation. *)

\* The policy's head: smallest rank, first enqueued among equals.
IsHead(r) ==
    /\ r \in pending
    /\ \A q \in pending \ {r} :
          \/ Key[r] < Key[q]
          \/ Key[r] = Key[q] /\ ticket[r] < ticket[q]

\* As ChoosePrefillPartition, were the retained copy not consulted.
ChooseByPointer(r) == next

\* Retained session KV is a hard affinity; the pointer places the others.
ChoosePrefillPartition(r) ==
    LET owner == RetainedPrefixPartition(store, r)
    IN  IF owner = NoPartition THEN next ELSE owner

\* As NextAfterChoosing, were the pointer not wrapped.
NextUnwrapped(r) ==
    IF RetainedPrefixPartition(store, r) = NoPartition THEN next + 1 ELSE next

\* choose() moves the pointer whenever it is consulted.
NextAfterChoosing(r) ==
    IF RetainedPrefixPartition(store, r) = NoPartition
    THEN (next + 1) % NumPartitions ELSE next

\* prefill_fits_budget: decodes come first; the first prefill of a partition
\* may exceed a budget that is not used up.
PrefillFitsBudget(used, tokens) ==
    LET budget == IF TokenBudget >= used.decodes
                  THEN TokenBudget - used.decodes ELSE 0
    IN  \/ used.prefill + tokens <= budget
        \/ used.prefill = 0 /\ budget > 0

Admissible(r, p) ==
    /\ PrefillFitsBudget(usage[p], PrefillTokensToCompute(store, p, r))
    /\ Fits(store, p, Footprint(ContextOf(r), Target[r]))

\* As IsComplete and OutputLeft, were they one token off.
CompleteTooEarly(r, tokens) == tokens + 1 >= Target[r]
FirstTokenUncounted(r, tokens) == Target[r]

IsComplete(r, tokens) == tokens >= Target[r]
OutputLeft(r, tokens) == Target[r] - tokens

-----------------------------------------------------------------------------
(* Actions. *)

\* accept_message, between ticks.  The next round of a session is released
\* after the previous one has been reported.
Enqueue(r) ==
    /\ phase \in {"idle", "computing"}
    /\ r \notin arrived
    /\ Before[r] \in done \cup {NoRequest}
    /\ arrived' = arrived \cup {r}
    /\ pending' = pending \cup {r}
    /\ ticket' = [ticket EXCEPT ![r] = Cardinality(arrived)]
    /\ UNCHANGED << store, next, usage, phase, finished, emitted, done >>

\* form_batch starts from the live decodes of every partition.
UsageOf(st) ==
    [p \in Partitions |->
        [decodes |-> Cardinality(LiveDecodes(st, p)), prefill |-> 0]]

StartForming(st) == phase' = "forming" /\ usage' = UsageOf(st)

\* A tick of an idle worker with something queued.  (An idle worker has no
\* decode: form_batch would have started one.)
BeginBatch ==
    /\ phase = "idle"
    /\ pending # {}
    /\ StartForming(store)
    /\ UNCHANGED << arrived, store, pending, ticket, next, finished, emitted, done >>

\* One pass of the form_batch loop whose head is admitted.
AdmitHead(r) ==
    /\ phase = "forming"
    /\ IsHead(r)
    /\ LET p == ChoosePrefillPartition(r)
           tokens == PrefillTokensToCompute(store, p, r)
       IN  /\ Admissible(r, p)
           /\ store' \in ReservedPrefill(store, r, p,
                                         Footprint(ContextOf(r), Target[r]))
           /\ usage' = [usage EXCEPT ![p].prefill = @ + tokens]
    /\ next' = NextAfterChoosing(r)
    /\ pending' = pending \ {r}
    /\ UNCHANGED << arrived, ticket, phase, finished, emitted, done >>

\* The pass that ends the loop: nothing is pending, or the head is blocked and
\* stays queued.  Reservations become prefill admits and the iteration starts
\* when it has any work.
CloseBatch ==
    /\ phase = "forming"
    /\ \/ pending = {} /\ next' = next
       \/ \E r \in pending :
             /\ IsHead(r)
             /\ ~Admissible(r, ChoosePrefillPartition(r))
             /\ next' = NextAfterChoosing(r)
    /\ LET drained == DrainReady(store)
       IN  /\ store' = drained
           /\ phase' = IF \E p \in Partitions :
                            LiveDecodes(store, p) # {} \/ drained.admits[p] # {}
                       THEN "computing" ELSE "idle"
    /\ UNCHANGED << arrived, pending, ticket, usage, finished, emitted, done >>

\* complete_iteration, up to its releases: every live decode and every prefill
\* gets a token, prefills with output left become decodes.
CompleteIteration ==
    /\ phase = "computing"
    /\ LET live  == UNION { LiveDecodes(store, p) : p \in Partitions }
           fresh == AdmitsOf(store)
           tokens == [r \in Requests |->
                        IF r \in live \cup fresh THEN emitted[r] + 1 ELSE emitted[r]]
           complete == { r \in live \cup fresh : IsComplete(r, tokens[r]) }
           left == [r \in Requests |-> OutputLeft(r, tokens[r])]
       IN  /\ emitted' = tokens
           /\ finished' = complete
           /\ store' = ClearPrefillAdmits(
                          Committed(Advanced(store, live), fresh \ complete,
                                    [r \in Requests |-> ContextOf(r)], left))
           /\ IF complete = {}
              THEN StartForming(store')
              ELSE phase' = "finishing" /\ usage' = usage
    /\ UNCHANGED << arrived, pending, ticket, next, done >>

\* One pass of complete_iteration's release loop; after the last the shell,
\* idle again, forms the next batch within the same tick.
ReleaseFinished(r) ==
    /\ phase = "finishing"
    /\ r \in finished
    /\ store' \in ReleasedRetainingPrefix(store, r, store.placement[r])
    /\ finished' = finished \ {r}
    /\ done' = done \cup {r}
    /\ IF finished' = {}
       THEN StartForming(store')
       ELSE phase' = phase /\ usage' = usage
    /\ UNCHANGED << arrived, pending, ticket, next, emitted >>

\* Every request of the trace is served.
Terminated ==
    /\ done = Requests
    /\ phase = "idle"
    /\ UNCHANGED vars

Tick ==
    \/ BeginBatch
    \/ \E r \in Requests : AdmitHead(r)
    \/ CloseBatch
    \/ CompleteIteration
    \/ \E r \in Requests : ReleaseFinished(r)

Next ==
    \/ \E r \in Requests : Enqueue(r)
    \/ Tick
    \/ Terminated

\* next_wakeup reports a time whenever the worker has queued or active work, so
\* the cluster ticks it again.
Spec == Init /\ [][Next]_vars /\ WF_vars(Tick)

-----------------------------------------------------------------------------
(* Properties. *)

\* The worker's variables hold what their declarations say.
TypeOK ==
    /\ arrived \subseteq Requests
    /\ store \in Store
    /\ pending \subseteq Requests
    /\ ticket \in [Requests -> Nat]
    /\ next \in Partitions
    /\ usage \in [Partitions -> [decodes : Nat, prefill : Nat]]
    /\ phase \in {"idle", "forming", "computing", "finishing"}
    /\ finished \subseteq Requests
    /\ emitted \in [Requests -> Nat]
    /\ done \subseteq Requests

\* request_ledger.rs: a request is promised or resident, never both.  Here for
\* every place a request can be: an arrived request is in exactly one, and
\* the store places it exactly while it is in the store or being released.
Promised == { r \in Requests : store.promised[r] > 0 }

OnePlace ==
    /\ arrived = pending \cup Promised \cup AdmitsOf(store)
                    \cup ResidentOf(store) \cup finished \cup done
    /\ pending \cap (Promised \cup AdmitsOf(store) \cup ResidentOf(store)
                       \cup finished \cup done) = {}
    /\ Promised \cap (AdmitsOf(store) \cup ResidentOf(store)) = {}
    /\ AdmitsOf(store) \cap ResidentOf(store) = {}
    /\ done \cap (Promised \cup AdmitsOf(store) \cup ResidentOf(store)
                      \cup finished) = {}
    /\ \A r \in Requests :
          store.placement[r] # NoPartition <=>
             r \in Promised \cup AdmitsOf(store) \cup ResidentOf(store) \cup finished
    /\ \A p \in Partitions : \A r \in store.admits[p] \cup store.decodes[p] :
          store.placement[r] = p

\* What the store keeps for a decode and what the request record counts stay in
\* step: the context has grown by every token after the first, and the tokens
\* left are those the target still wants.
ProgressAgrees ==
    \A r \in ResidentOf(store) :
        /\ emitted[r] >= 1
        /\ store.context[r] = ContextOf(r) + emitted[r] - 1
        /\ store.remaining[r] + emitted[r] = Target[r]

StoreTotalsAgree == TotalsAgree(store)

\* "advancing never checks capacity itself" (kv_cache_store.rs): what a batch
\* admitted, everything the decodes will grow to, and the retained prefixes
\* fit the partition together, at every step.
CapacityHolds ==
    \A p \in Partitions :
        store.peak[p] + store.reserved[p] + CacheUnits(store, p)
          + SumOver([r \in Requests |-> Footprint(ContextOf(r), Target[r])],
                    store.admits[p]) <= Capacity

\* The later rounds of a session that declare no inherited context, for the
\* loader takes a missing prefix for none (schema.rs), and have been admitted.
\* The copy that the round before retained is not looked for.
StartedBlank(s) ==
    { r \in arrived \ pending :
        SessionOf[r] = s /\ Before[r] # NoRequest /\ Declared[r] = 0 }

\* A session's KV exists once, retained or with the round that is in the store,
\* and once more for every round that was started without looking for it.
SingleCopy ==
    \A s \in Sessions :
        LET copies == { p \in Partitions : store.cache[p][s] > 0 }
            active == { r \in Requests : SessionOf[r] = s
                           /\ store.placement[r] # NoPartition }
        IN  Cardinality(copies) + Cardinality(active)
              <= 1 + Cardinality(StartedBlank(s))

\* local_prefill_decode_admission.rs: "Retained session KV is a hard affinity".
\* A round never starts elsewhere than where its session's KV is retained; once
\* rounds that looked for none may have left several copies, never where less
\* of the prefix it declares is retained.
AffinityHolds ==
    [][ \A r \in Requests :
          (HasSession(r) /\ store.placement[r] = NoPartition
             /\ store'.placement[r] # NoPartition)
          => \A p \in Partitions : store.cache[p][SessionOf[r]] > 0
                => \/ p = store'.placement[r]
                   \/ /\ StartedBlank(SessionOf[r])' # {}
                      /\ Peek(store, p, r) <= Peek(store, store'.placement[r], r) ]_vars

\* The worker serves by the contract: a request gets exactly its tokens, is
\* reported once and only then, and no arrived request waits for ever, unless
\* the trace has a request that fits no empty partition.
Contract == INSTANCE ServingContract
    WITH released <- arrived, produced <- emitted, completed <- done

EachFits == \A r \in Requests : Footprint(ContextOf(r), Target[r]) <= Capacity

ServesByContract == Contract!SafeSpec /\ (EachFits => Contract!Completion)

=============================================================================
