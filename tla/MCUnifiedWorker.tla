--------------------------- MODULE MCUnifiedWorker --------------------------
(* A small trace for UnifiedWorker: a session of two rounds, one of three   *)
(* whose second declares no prefix, and a request with a pinned prefix, on  *)
(* two partitions where they compete for capacity.                          *)
EXTENDS UnifiedWorker

CONSTANTS r1, r2, r3, r4, r5, r6, s1, s2

Pick(a, b, c, d, e, f) ==
    [r \in Requests |-> CASE r = r1 -> a [] r = r2 -> b [] r = r3 -> c
                          [] r = r4 -> d [] r = r5 -> e [] r = r6 -> f]

MCSessionOf == Pick(s1, s1, s2, s2, NoSession, s2)
MCBefore    == Pick(NoRequest, r1, NoRequest, r3, NoRequest, r4)
MCFresh     == Pick(2, 1, 3, 3, 1, 1)
MCDeclared  == Pick(0, 4, 0, 0, 2, 4)
MCTarget    == Pick(2, 3, 1, 1, 2, 1)

\* Shortest job first; equal keys are first in, first out.
MCWork == [r \in Requests |-> ContextOf(r) + Target[r]]

=============================================================================
