---------------------------- MODULE ChunkedWorker ----------------------------
(***************************************************************************)
(* The whole-iteration worker with chunked prefill: the shell              *)
(* IterBatchWorker composed with ChunkedPrefillAdmission, a decode         *)
(* completion policy and a KvCacheStore of one partition.  As in           *)
(* UnifiedWorker the passes of tick() are separate steps, and messages are *)
(* delivered between ticks only.                                           *)
(***************************************************************************)
EXTENDS KvCacheStore, Sequences

CONSTANT Configs    \* the configurations a worker may run under

ASSUME ChunkedAssumption ==
    /\ NumPartitions = 1
    /\ \A c \in Configs :
          /\ {c.longestPrefix, c.mix, c.bounded, c.fcfs, c.oneBlockEarly} \subseteq BOOLEAN
          /\ {c.maxFuture, c.ratioOf, c.retractSteps, c.width, c.batchTokens}
                \subseteq Nat \ {0}
          /\ c.initialRatio \in 0 .. c.ratioOf /\ c.minimumRatio \in 0 .. c.initialRatio
          /\ c.ratioDecay \in Nat /\ c.quantum \in Nat

VARIABLES
    config,     \* one of Configs, chosen when the worker is built
    arrived,    \* requests enqueued so far
    kv,         \* the worker's KvCacheStore
    queue,      \* pending requests, in enqueue order
    matched,    \* cached prefix match of a pending request
    started,    \* started_prefills, in start order
    batch,      \* prefill_admits with their chunks: [req, tokens]
    left,       \* remaining_prefill_tokens of a request being prefilled
    running,    \* resident decodes, in the order they joined
    entered,    \* admission_order: running requests as they were admitted
    ratio,      \* current_new_token_ratio, part / of
    retracted,  \* whether this prepare_decode retracted
    phase,      \* where tick() stands
    emitted,    \* output_tokens_emitted of each request
    done        \* requests reported by RequestComplete

vars == << config, arrived, kv, queue, matched, started, batch, left, running, entered, ratio,
           retracted, phase, emitted, done >>

LongestPrefix == config.longestPrefix  \* pending order: LongestPrefixMatch, else FIFO
Mix           == config.mix            \* BatchPolicy: Mix, else SeparatePrefillPriority
Bounded       == config.bounded        \* KvAdmissionConfig: BoundedFuture, else FullFootprint
Fcfs          == config.fcfs           \* retraction: Fcfs, else Length
MaxFuture     == config.maxFuture      \* max_future_tokens
RatioOf       == config.ratioOf        \* the configured ratios are fractions of it:
InitialRatio  == config.initialRatio   \*   initial_new_token_ratio
MinimumRatio  == config.minimumRatio   \*   minimum_new_token_ratio
RatioDecay    == config.ratioDecay     \*   their distance over new_token_ratio_decay_steps
RetractSteps  == config.retractSteps   \* retract_decode_steps
Width         == config.width          \* query rows of a decode: 1 + draft tokens
BatchTokens   == config.batchTokens    \* max_batch_tokens
Quantum       == config.quantum        \* checkpoint interval where chunks end, 0 = anywhere
OneBlockEarly == config.oneBlockEarly  \* last_checkpoint_one_block_early

Configured(part) == [part |-> part, of |-> RatioOf]

Init ==
    /\ config \in Configs
    /\ arrived = {}
    /\ kv = EmptyStore
    /\ queue = << >> /\ started = << >> /\ batch = << >>
    /\ left = [r \in Requests |-> 0]
    /\ matched = [r \in Requests |-> 0]
    /\ running = << >> /\ entered = << >>
    /\ ratio = Configured(InitialRatio)
    /\ retracted = FALSE
    /\ phase = "idle"
    /\ emitted = [r \in Requests |-> 0]
    /\ done = {}

Members(s)    == { s[i] : i \in 1 .. Len(s) }
Distinct(s)   == \A i, j \in 1 .. Len(s) : s[i] = s[j] => i = j
PositionIn(s, r) == CHOOSE i \in 1 .. Len(s) : s[i] = r

\* A queue without its element r, and the elements of a queue that are in S.
Without(s, r) ==
    [i \in 1 .. Len(s) - 1 |-> IF i < PositionIn(s, r) THEN s[i] ELSE s[i + 1]]

Kept(s, S) ==
    LET upTo[i \in 0 .. Len(s)] ==
            IF i = 0 THEN << >>
            ELSE IF s[i] \in S THEN Append(upTo[i - 1], s[i]) ELSE upTo[i - 1]
    IN  upTo[Len(s)]

Live          == LiveDecodes(kv, 0)

\* What a request still has to emit, and the context a prefill of it computes:
\* a retracted request prefills its own output again.
OutputLeft(r) == Target[r] - emitted[r]
ContextNow(r) == ContextOf(r) + emitted[r]
\* As IsComplete, were the last token not waited for.
CompleteTooEarly(r) == emitted[r] + 1 >= Target[r]
IsComplete(r) == emitted[r] >= Target[r]

-----------------------------------------------------------------------------
(* The chunk schedule. *)

LastBoundary(n) == (n \div Quantum) * Quantum

\* next_chunk_tokens with checkpoint_aligned_chunk_tokens: the chunk of a
\* prompt with rest tokens to go that budget tokens can carry.
ChunkTokens(r, rest, budget) ==
    LET tokens == Smaller(rest, budget)
        end    == ContextNow(r)
        start  == end - rest
        reach  == IF /\ start + tokens < end
                     /\ \/ LastBoundary(start + tokens) > start
                        \/ Quantum <= BatchTokens
                  THEN LastBoundary(start + tokens) ELSE start + tokens
        last   == SaturatingSub(LastBoundary(end),
                                   IF OneBlockEarly THEN Quantum ELSE 0)
        stops  == {last} \cup IF start % Quantum = 0 THEN {}
                              ELSE {LastBoundary(start) + Quantum}
    IN  IF Quantum = 0 \/ tokens = 0 THEN tokens
        ELSE SaturatingSub(
                Min({reach} \cup { s \in stops : start < s /\ s < reach }), start)

TokensIn(b, S) == SumOver([i \in 1 .. Len(b) |-> b[i].tokens], S)
TokensOf(b)    == TokensIn(b, 1 .. Len(b))
ChunkOf(b, r)  == TokensIn(b, { i \in 1 .. Len(b) : b[i].req = r })

\* Decodes share the cap of a mixed iteration, in query rows.
IterationBudget ==
    IF Mix THEN SaturatingSub(BatchTokens, Cardinality(Live) * Width)
           ELSE BatchTokens

BudgetLeft(b) == IterationBudget - TokensOf(b)

\* The chunks of the started prompts, in start order; one that cannot run
\* keeps its place.
WithChunk(b, r) ==
    LET tokens == ChunkTokens(r, left[r], BudgetLeft(b))
    IN  IF tokens = 0 THEN b ELSE Append(b, [req |-> r, tokens |-> tokens])

StartedChunks ==
    LET upTo[i \in 0 .. Len(started)] ==
            IF i = 0 THEN << >> ELSE WithChunk(upTo[i - 1], started[i])
    IN  upTo[Len(started)]

\* future_decode_slots: a prompt with more than one token to emit needs room
\* for a whole verify window beside the decodes and the prompts before it.
SlotFree(r) ==
    \/ Width = 1 \/ OutputLeft(r) <= 1
    \/ BatchTokens \div Width > Cardinality(Live)
           + Cardinality({ q \in Requests : left[q] > 0 /\ OutputLeft(q) > 1 })

-----------------------------------------------------------------------------
(* What an admission would find. *)

\* A retracted prompt contains its output, so it is never empty.
PrefillTokens(st, r) ==
    IF emitted[r] = 0 THEN PrefillTokensToCompute(st, 0, r)
    ELSE ContextNow(r) - PrefixHit(st, 0, r)

-----------------------------------------------------------------------------
(* The pending order. *)

\* resident_prefix_tokens: what a pending request would find resident in st.
PrefixMatch(st, r) == ContextNow(r) - PrefillTokens(st, r)

\* peek: the front, or the longest cached match and the earliest among equals.
NextPending ==
    IF ~LongestPrefix THEN Head(queue)
    ELSE CHOOSE r \in Members(queue) : \A q \in Members(queue) \ {r} :
            \/ matched[q] < matched[r]
            \/ /\ matched[q] = matched[r]
               /\ PositionIn(queue, r) < PositionIn(queue, q)

\* As IsStale, were the head never refreshed.
NeverStale(r) == FALSE

IsStale(r) == LongestPrefix /\ PrefixMatch(kv, r) < matched[r]

-----------------------------------------------------------------------------
(* Capacity and the new-token ratio. *)

FootprintOf(r) ==
    IF Bounded THEN BoundedFootprint(ContextNow(r), OutputLeft(r), MaxFuture)
               ELSE Footprint(ContextNow(r), OutputLeft(r))

FitsNow(r) ==
    IF Bounded
    THEN FitsBounded(kv, 0, FootprintOf(r), MaxFuture, ratio,
                        IF Mix THEN Width ELSE 0)
    ELSE Fits(kv, 0, FootprintOf(r))

Reservations(r) ==
    IF Bounded THEN ReservedBounded(kv, r, 0, FootprintOf(r))
               ELSE ReservedPrefill(kv, r, 0, FootprintOf(r))

\* As Decayed, were the minimum not applied.
DecayedFreely(q) == [q EXCEPT !.part = q.part - RatioDecay]

\* decay_new_token_ratio.  The fraction stays on one denominator while it
\* decays.
Decayed(q) ==
    LET scale == IF q.of % RatioOf = 0 THEN 1 ELSE RatioOf
        of    == q.of * scale
        part  == q.part * scale - RatioDecay * (of \div RatioOf)
    IN  IF part * RatioOf <= MinimumRatio * of
        THEN Configured(MinimumRatio) ELSE [part |-> part, of |-> of]

\* update_ratio_after_retraction, from the decodes that are left.
RatioAfterRetraction ==
    LET part == SumOver(emitted, Live) + RetractSteps * Cardinality(Live)
        of   == SumOver(Target, Live) + 1
    IN  IF part >= of THEN Configured(RatioOf) ELSE [part |-> part, of |-> of]

-----------------------------------------------------------------------------
(* Retraction victims among the live decodes. *)

\* Fcfs: the last to be admitted.  Length: fewest tokens emitted, longest input, latest to join.
LengthPrefers(r, q) ==
    \/ emitted[r] < emitted[q]
    \/ /\ emitted[r] = emitted[q]
       /\ \/ ContextOf(r) > ContextOf(q)
          \/ ContextOf(r) = ContextOf(q) /\ PositionIn(running, r) > PositionIn(running, q)

IsVictim(r) ==
    /\ r \in Live
    /\ \A q \in Live \ {r} :
          IF Fcfs THEN PositionIn(entered, q) < PositionIn(entered, r)
                  ELSE LengthPrefers(r, q)

-----------------------------------------------------------------------------
(* Actions. *)

\* accept_message, between ticks.
Enqueue(r) ==
    /\ phase \in {"idle", "computing"}
    /\ r \notin arrived
    /\ Before[r] \in done \cup {NoRequest}
    /\ arrived' = arrived \cup {r}
    /\ queue' = Append(queue, r)
    /\ matched' = [matched EXCEPT ![r] = PrefixMatch(kv, r)]
    /\ UNCHANGED << config, kv, started, batch, left, running, entered, ratio,
                    retracted, phase, emitted, done >>

\* form_batch begins: a mixed engine claims the next decode step before it
\* admits anything.
StartForming(st) ==
    phase' = IF Mix /\ Bounded /\ LiveDecodes(st, 0) # {}
             THEN "preparing" ELSE "scheduling"

\* A tick of an idle worker with work.
BeginBatch ==
    /\ phase = "idle"
    /\ queue # << >> \/ started # << >>
    /\ StartForming(kv)
    /\ UNCHANGED << config, arrived, kv, queue, matched, started, batch, left, running, entered,
                    ratio, retracted, emitted, done >>

\* What follows prepare_decode: admission in a mixed engine, else the
\* decode-only iteration itself.
AfterPreparing == IF Mix THEN "scheduling" ELSE "computing"

\* prepare_decode ends: the step of every live decode fits.
Prepared ==
    /\ phase = "preparing"
    /\ kv' \in { st \in TrimmedForStep(kv, 0, Width) :
                    Shortfall(st, 0, Width) = 0 }
    /\ ratio' = IF retracted THEN RatioAfterRetraction ELSE Decayed(ratio)
    /\ retracted' = (retracted /\ Mix)
    /\ phase' = AfterPreparing
    /\ UNCHANGED << config, arrived, queue, matched, started, batch, left, running, entered,
                    emitted, done >>

\* requeue_retracted: Fcfs puts the request ahead of every waiting one, when
\* the pending order has a front.
Requeued(r) == IF Fcfs /\ ~LongestPrefix THEN << r >> \o queue ELSE Append(queue, r)

\* One pass of prepare_decode that retracts: the victim gives back all its KV.
Retract(r) ==
    /\ phase = "preparing"
    /\ Cardinality(Live) > 1
    /\ IsVictim(r)
    /\ \E st \in TrimmedForStep(kv, 0, Width) :
          /\ Shortfall(st, 0, Width) > 0
          /\ kv' = Released(st, r, 0)
    /\ queue' = Requeued(r)
    /\ matched' = [matched EXCEPT ![r] = PrefixMatch(kv', r)]
    /\ running' = Without(running, r)
    /\ entered' = Without(entered, r)
    /\ retracted' = TRUE
    /\ UNCHANGED << config, arrived, started, batch, left, ratio, phase, emitted, done >>

\* The assertion of prepare_decode: the last live decode does not fit.
Abort ==
    /\ phase = "preparing"
    /\ Cardinality(Live) = 1
    /\ \E st \in TrimmedForStep(kv, 0, Width) : Shortfall(st, 0, Width) > 0
    /\ phase' = "aborted"
    /\ UNCHANGED << config, arrived, kv, queue, matched, started, batch, left, running, entered,
                    ratio, retracted, emitted, done >>

\* Started prompts come first.  A step that retracted admits nothing.
ScheduleStarted ==
    /\ phase = "scheduling"
    /\ batch' = StartedChunks
    /\ started' = Kept(started, { r \in Requests : ChunkOf(batch', r) < left[r] })
    /\ phase' = IF retracted THEN "closing" ELSE "forming"
    /\ retracted' = FALSE
    /\ UNCHANGED << config, arrived, kv, queue, matched, left, running, entered, ratio, emitted,
                    done >>

FirstChunk(r) == ChunkTokens(r, PrefillTokens(kv, r), BudgetLeft(batch))

Admissible(r) ==
    /\ BudgetLeft(batch) > 0
    /\ SlotFree(r)
    /\ FirstChunk(r) > 0
    /\ FitsNow(r)

MayRefresh == BudgetLeft(batch) > 0 /\ queue # << >> /\ IsStale(NextPending)

\* refresh_head, one pass: a head that lost some of its prefix is put back
\* under its live match.
RefreshHead ==
    /\ phase = "forming"
    /\ MayRefresh
    /\ matched' = [matched EXCEPT ![NextPending] = PrefixMatch(kv, NextPending)]
    /\ UNCHANGED << config, arrived, kv, queue, started, batch, left, running, entered,
                    ratio, retracted, phase, emitted, done >>

\* One pass of the admission loop: the head gets its KV and its first chunk.
AdmitHead(r) ==
    /\ phase = "forming"
    /\ queue # << >> /\ r = NextPending /\ ~IsStale(r)
    /\ Admissible(r)
    /\ queue' = Without(queue, r)
    /\ kv' \in Reservations(r)
    /\ left' = [left EXCEPT ![r] = PrefillTokens(kv, r)]
    /\ batch' = Append(batch, [req |-> r, tokens |-> FirstChunk(r)])
    /\ started' = IF FirstChunk(r) < PrefillTokens(kv, r)
                  THEN Append(started, r) ELSE started
    /\ entered' = Append(entered, r)
    /\ UNCHANGED << config, arrived, matched, running, ratio, retracted, phase, emitted,
                    done >>

\* The batch is complete.  A separate engine with nothing to prefill claims its
\* decode step; an engine with nothing at all forgets its ratio.
CloseBatch ==
    /\ \/ phase = "closing"
       \/ /\ phase = "forming"
          /\ queue # << >> => ~Admissible(NextPending) /\ ~MayRefresh
    /\ phase' = IF batch = << >> /\ Live = {} THEN "idle"
                ELSE IF batch = << >> /\ Bounded /\ ~Mix THEN "preparing"
                ELSE "computing"
    /\ ratio' = IF phase' = "idle" /\ queue = << >> /\ started = << >>
                THEN Configured(InitialRatio) ELSE ratio
    /\ UNCHANGED << config, arrived, kv, queue, matched, started, batch, left, running, entered,
                    retracted, emitted, done >>

\* complete_decodes: a decode retires one token, a verify window between one
\* and all its rows.
Retired(live) == { steps \in [live -> 1 .. Width] :
                     \A r \in live : steps[r] <= kv.remaining[r] }

\* As NextToken, were the output a retracted request had lost emitted again.
TokenAgain(r) == IF emitted[r] = 0 THEN 1 ELSE 0

\* A finished prefill emits the next token, for a retracted request too.
NextToken(r) == 1

\* The prefills the iteration finishes, in the order of their chunks, and what
\* every request has emitted at its end.
Finished   == { r \in Requests : left[r] > 0 /\ ChunkOf(batch, r) = left[r] }
Finishing  == Kept([i \in 1 .. Len(batch) |-> batch[i].req], Finished)

EmittedBy(steps) ==
    [r \in Requests |-> emitted[r] + (IF r \in Finished THEN NextToken(r)
                                      ELSE IF r \in DOMAIN steps THEN steps[r] ELSE 0)]

\* complete_iteration, up to its releases.
CompleteIteration ==
    /\ phase = "computing"
    /\ \E steps \in Retired(IF Mix \/ batch = << >> THEN Live ELSE {}) :
          /\ emitted' = EmittedBy(steps)
          /\ kv' = Committed(AdvancedBy(kv, steps), Finished,
                       [r \in Requests |-> ContextNow(r)],
                       [r \in Requests |-> Target[r] - emitted'[r]])
    /\ running' = running \o Finishing
    /\ left' = [r \in Requests |-> left[r] - ChunkOf(batch, r)]
    /\ batch' = << >>
    /\ IF \E r \in Members(running') : emitted'[r] >= Target[r]
       THEN phase' = "finishing" ELSE StartForming(kv')
    /\ UNCHANGED << config, arrived, queue, matched, started, entered, ratio, retracted, done >>

\* One pass of the release loop: decodes in the order they joined, then the
\* prefills that ended with their only token.
ReleaseFinished(r) ==
    /\ phase = "finishing"
    /\ r \in Members(running) /\ IsComplete(r)
    /\ \A q \in Members(running) : IsComplete(q) =>
          PositionIn(running, r) <= PositionIn(running, q)
    /\ kv' \in ReleasedRetainingPrefix(kv, r, 0)
    /\ done' = done \cup {r}
    /\ running' = Without(running, r)
    /\ entered' = Without(entered, r)
    /\ IF \E q \in Members(running') : IsComplete(q)
       THEN phase' = phase ELSE StartForming(kv')
    /\ UNCHANGED << config, arrived, queue, matched, started, batch, left, ratio, retracted,
                    emitted >>

\* Everything is served, or the program has panicked.
Terminated ==
    /\ phase = "aborted" \/ (done = Requests /\ phase = "idle")
    /\ UNCHANGED vars

Tick ==
    \/ BeginBatch
    \/ Prepared
    \/ \E r \in Requests : Retract(r)
    \/ Abort
    \/ ScheduleStarted
    \/ RefreshHead
    \/ \E r \in Requests : AdmitHead(r)
    \/ CloseBatch
    \/ CompleteIteration
    \/ \E r \in Requests : ReleaseFinished(r)

Next ==
    \/ \E r \in Requests : Enqueue(r)
    \/ Tick
    \/ Terminated

\* As UnifiedWorker: a worker with queued or active work is ticked again.
Spec == Init /\ [][Next]_vars /\ WF_vars(Tick)

-----------------------------------------------------------------------------
(* Properties. *)

Prefilling == { r \in Requests : left[r] > 0 }

\* The worker's variables hold what their declarations say.
TypeOK ==
    /\ config \in Configs
    /\ arrived \subseteq Requests
    /\ kv \in Store
    /\ {queue, started, running, entered} \subseteq Seq(Requests)
    /\ \A s \in {queue, started, running, entered} : Distinct(s)
    /\ batch \in Seq([req : Requests, tokens : Nat \ {0}])
    /\ left \in [Requests -> Nat]
    /\ matched \in [Requests -> Nat]
    /\ ratio.part \in 0 .. ratio.of /\ ratio.of \in Nat \ {0}
    /\ retracted \in BOOLEAN
    /\ phase \in {"idle", "preparing", "scheduling", "forming", "closing",
                  "computing", "finishing", "aborted"}
    /\ emitted \in [Requests -> Nat]
    /\ done \subseteq Requests

\* A request is queued, prefilled, resident or done, also after a retraction
\* took its KV in the middle of its output, and then the store and the request
\* record count the same tokens: the output that was prefilled again is neither
\* emitted twice nor missing from the context.
RetractionLosesNothing ==
    /\ arrived = Members(queue) \cup Prefilling \cup Members(running) \cup done
    /\ Members(queue) \cap (Prefilling \cup Members(running) \cup done) = {}
    /\ Prefilling \cap (Members(running) \cup done) = {}
    /\ Members(running) \cap done = {}
    /\ Members(running) = kv.decodes[0]
    /\ Members(entered) = Prefilling \cup Members(running)
    /\ Members(entered) = { r \in Requests : kv.placement[r] # NoPartition }
    /\ \A r \in Members(running) :
          /\ emitted[r] >= 1
          /\ kv.context[r] = ContextNow(r) - 1
          /\ kv.remaining[r] = OutputLeft(r)
    /\ \A r \in Prefilling : kv.promised[r] >= ContextNow(r)

\* The partition holds what is resident and promised, and when an iteration runs
\* also what every decode may retire; a full footprint claims that much only while
\* every decode retires one token a step (see NeverOverfull).
KvClaimed ==
    (Bounded \/ Width = 1) =>
          ProtectedUnits(kv, 0)
            + (IF Bounded /\ phase = "computing" /\ (Mix \/ batch = << >>)
               THEN SumOver([r \in Requests |-> Smaller(kv.remaining[r], Width)], Live)
               ELSE 0)
          <= Capacity

\* A mixed iteration stays below the row cap with every decode at its full verify
\* width, and while chunks may end anywhere one prompt at most is half done.
RowsClaimed ==
    /\ (Mix /\ phase = "computing") =>
          TokensOf(batch) + Cardinality(Live) * Width <= BatchTokens
    /\ Quantum = 0 => Len(started) <= 1

\* "Admission must have claimed every step's tokens before the step ran;
\* advancing never checks capacity itself" (kv_cache_store.rs), in KV and in rows.
StepClaimed == KvClaimed /\ RowsClaimed

\* A full footprint is charged against the projected peak, which the code samples
\* from twelve decodes on; with fewer it is the peak they will reach.
PeakExact == ~Bounded /\ Width = 1 => FewDecodes(kv)

\* longest_prefix_match.rs: cached keys are upper bounds, so refreshing the head
\* alone is exact.  Whatever was evicted while the requests waited, the one
\* admitted finds the longest prefix of all, the earliest among equals.
BestFirst ==
    [][ LongestPrefix => \A r \in Members(queue) \ Members(queue') :
          \A q \in Members(queue) \ {r} :
             \/ PrefixMatch(kv, q) < PrefixMatch(kv, r)
             \/ /\ PrefixMatch(kv, q) = PrefixMatch(kv, r)
                /\ PositionIn(queue, r) < PositionIn(queue, q) ]_vars

Contract == INSTANCE ServingContract
    WITH released <- arrived, produced <- emitted, completed <- done

Panicked == phase = "aborted"

\* A decode that would not fit the partition alone before it ends: the trace is
\* checked against max_model_len only.
Outgrown == \E r \in Live : ContextOf(r) + Target[r] > Capacity + 1

\* Every request has a prompt, and would fit an empty partition.
EachServable == \A r \in Requests : ContextOf(r) > 0 /\ ContextOf(r) + Target[r] + 1 < Capacity

\* The program panics only when batches are mixed (see NeverAborts), or when a
\* decode outgrows the partition.
PanicsExplained == Panicked => Mix \/ Outgrown

\* The worker serves by the contract: retracted or not, a request gets exactly
\* its tokens, and no arrived request waits for ever unless the program panics,
\* given that each can be served alone.
ServesByContract ==
    /\ Contract!SafeSpec
    /\ []PanicsExplained
    /\ EachServable /\ []~Panicked => Contract!Completion

\* advance asserts that it never overfills the partition ("decode advance
\* overfilled KV partition", kv_cache_store.rs).
NeverOverfull == kv.resident[0] <= Capacity

\* prepare_decode asserts that a decode that does not fit is never the last.
NeverAborts == phase # "aborted"

=============================================================================
