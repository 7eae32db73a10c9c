------------------------------ MODULE MCPdFlow ------------------------------
(* Small traces for PdFlow: a session of two rounds whose first round leaves *)
(* a prefix behind, a small request, and one that exceeds the pull budget.     *)
EXTENDS PdFlow

CONSTANTS r1, r2, r3, r4, s1

Pick(a, b, c, d) ==
    [r \in Requests |-> CASE r = r1 -> a [] r = r2 -> b [] r = r3 -> c
                          [] r = r4 -> d]

MCSessionOf == Pick(s1, s1, NoSession, NoSession)
MCBefore    == Pick(NoRequest, r1, NoRequest, NoRequest)
MCFresh     == Pick(1, 1, 2, 5)
MCDeclared  == Pick(0, 2, 0, 0)
MCTarget    == Pick(2, 1, 6, 2)

=============================================================================
