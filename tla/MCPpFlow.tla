----------------------------- MODULE MCPpFlow -----------------------------
(* A small trace for PpFlow: a session of two rounds whose first prompt takes  *)
(* two chunks, and two standalone requests.                                   *)
EXTENDS PpFlow

CONSTANTS r1, r2, r3, r4, s1

Pick(a, b, c, d) ==
    [r \in Requests |-> CASE r = r1 -> a [] r = r2 -> b [] r = r3 -> c
                          [] r = r4 -> d]

MCSessionOf == Pick(s1, s1, NoSession, NoSession)
MCBefore    == Pick(NoRequest, r1, NoRequest, NoRequest)
MCFresh     == Pick(3, 1, 1, 2)
MCDeclared  == Pick(0, 3, 0, 0)
MCTarget    == Pick(4, 1, 3, 3)
MCKey       == Pick(0, 0, 2, 1)

=============================================================================
