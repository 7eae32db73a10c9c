----------------------------- MODULE MCAfdFlow -----------------------------
(* A small trace for AfdFlow: a session of two rounds, and two standalone      *)
(* requests, one of which the first one keeps out.                            *)
EXTENDS AfdFlow

CONSTANTS r1, r2, r3, r4, s1

Pick(a, b, c, d) ==
    [r \in Requests |-> CASE r = r1 -> a [] r = r2 -> b [] r = r3 -> c
                          [] r = r4 -> d]

MCSessionOf == Pick(s1, s1, NoSession, NoSession)
MCBefore    == Pick(NoRequest, r1, NoRequest, NoRequest)
MCFresh     == Pick(2, 1, 2, 2)
MCDeclared  == Pick(0, 2, 0, 0)
MCTarget    == Pick(2, 1, 3, 2)
MCKey       == Pick(0, 0, 2, 1)

\* A shorter trace, where liveness is checked: r4 fits beside neither of r1 and
\* r3, which fit together.
MCLiveFresh  == Pick(1, 1, 1, 1)
MCLiveTarget == Pick(1, 1, 1, 2)

=============================================================================
