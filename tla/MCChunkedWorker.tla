-------------------------- MODULE MCChunkedWorker ---------------------------
(* Small traces for ChunkedWorker: a session of two rounds, a prompt of     *)
(* several chunks and a request with a pinned prefix.                       *)
EXTENDS ChunkedWorker

CONSTANTS r1, r2, r3, r4, r5, s1

Pick(a, b, c, d, e) ==
    [r \in Requests |-> CASE r = r1 -> a [] r = r2 -> b [] r = r3 -> c
                          [] r = r4 -> d [] r = r5 -> e]

MCSessionOf == Pick(s1, s1, NoSession, NoSession, NoSession)
MCBefore    == Pick(NoRequest, r1, NoRequest, NoRequest, NoRequest)
MCFresh     == Pick(3, 2, 5, 2, 2)
MCDeclared  == Pick(0, 5, 0, 1, 0)
MCTarget    == Pick(3, 3, 3, 6, 4)

\* Mixed batches under a bounded future, retracted first come first served.
MCMix ==
    [longestPrefix |-> FALSE, mix |-> TRUE, bounded |-> TRUE, fcfs |-> TRUE,
     maxFuture |-> 1, ratioOf |-> 4, initialRatio |-> 1, minimumRatio |-> 0,
     ratioDecay |-> 1, retractSteps |-> 1, width |-> 2, batchTokens |-> 7,
     quantum |-> 0, oneBlockEarly |-> FALSE]

\* Prefills of their own with aligned chunks, in the order of the cached prefixes,
\* and retraction by length.
MCAligned ==
    [MCMix EXCEPT !.longestPrefix = TRUE, !.mix = FALSE, !.fcfs = FALSE,
                  !.initialRatio = 3, !.minimumRatio = 1, !.width = 1,
                  !.batchTokens = 4, !.quantum = 3, !.oneBlockEarly = TRUE]

\* Every request admitted with its full footprint.
MCFull == [MCMix EXCEPT !.bounded = FALSE, !.longestPrefix = TRUE]

MCConfigs == {MCMix, MCAligned, MCFull, [MCFull EXCEPT !.width = 1]}

\* No reservation for the future at all.
MCNone == [MCMix EXCEPT !.initialRatio = 0, !.ratioDecay = 0, !.width = 1,
                        !.batchTokens = 3]
MCAbortConfigs == {MCNone}

\* A short session beside a long prompt and a long answer.
MCLongFresh    == Pick(1, 2, 8, 3, 2)
MCLongDeclared == Pick(0, 2, 0, 0, 0)
MCLongTarget   == Pick(2, 2, 3, 7, 4)

\* Full footprints beside uneven verify windows: three decodes, the first of
\* which outlives the two others.
MCUneven == [MCMix EXCEPT !.bounded = FALSE, !.batchTokens = 8]
MCUnevenConfigs == {MCUneven}
MCNoSession     == [r \in Requests |-> NoSession]
MCNoBefore      == [r \in Requests |-> NoRequest]
MCUnevenFresh    == [r \in Requests |-> 3]
MCUnevenDeclared == [r \in Requests |-> 0]
MCUnevenTarget   == [r \in Requests |-> IF r = r1 THEN 7 ELSE 4]

=============================================================================
