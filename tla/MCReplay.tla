------------------------------ MODULE MCReplay ------------------------------
(* A trace of six rows in the order r1 .. r6: r1 and r3, r2 and r6 are the   *)
(* rounds of two sessions, the others stand alone.                           *)
EXTENDS Replay

CONSTANTS r1, r2, r3, r4, r5, r6, s1, s2

Pick(a, b, c, d, e, f) ==
    [r \in Requests |-> CASE r = r1 -> a [] r = r2 -> b [] r = r3 -> c
                          [] r = r4 -> d [] r = r5 -> e [] r = r6 -> f]

MCTrace     == << r1, r2, r3, r4, r5, r6 >>
MCSessionOf == Pick(s1, s2, s1, NoSession, NoSession, s2)
MCBefore    == Pick(NoRequest, NoRequest, r1, NoRequest, NoRequest, r2)
MCFresh     == Pick(1, 1, 1, 1, 1, 1)
MCDeclared  == Pick(0, 0, 1, 0, 0, 1)
MCTarget    == Pick(1, 1, 1, 1, 1, 1)
MCArrival   == Pick(0, 1, 1, 1, 5, 5)
MCToolWait  == Pick(3, 0, 0, 0, 0, 0)

\* The first row is long, and everything arrives early.
MCLongTarget   == Pick(3, 1, 1, 1, 1, 1)
MCEarlyArrival == Pick(0, 0, 0, 1, 1, 1)

=============================================================================
