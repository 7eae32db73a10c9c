--------------------------- MODULE ServingContract --------------------------
(***************************************************************************)
(* What any serving flow promises its caller, the tick loop, and nothing   *)
(* about how: a released request gets its output tokens one after another, *)
(* never more than it asked for, and is reported complete once, when it    *)
(* has all of them.  The workers and flows are shown to implement this;    *)
(* the replay loop is written against it.                                  *)
(***************************************************************************)
EXTENDS Workload

VARIABLES
    released,   \* requests handed to the flow (Flow::on_arrival)
    produced,   \* tokens each request has been given
    completed   \* requests returned by Flow::tick as completions

vars == << released, produced, completed >>

Init ==
    /\ released = {}
    /\ produced = [r \in Requests |-> 0]
    /\ completed = {}

\* A round is released after the round before it was reported complete.
Release(r) ==
    /\ r \notin released
    /\ Before[r] \in completed \cup {NoRequest}
    /\ released' = released \cup {r}
    /\ UNCHANGED << produced, completed >>

InService == released \ completed

\* A step of the flow: some requests in service get a token, or several where a
\* step verifies drafted ones, and some of those that have all their tokens are
\* reported.
Serve(S, C) ==
    /\ produced' \in [Requests -> Nat]
    /\ \A r \in Requests : IF r \in S THEN produced'[r] \in produced[r] + 1 .. Target[r]
                                     ELSE produced'[r] = produced[r]
    /\ \A r \in C : produced'[r] = Target[r]
    /\ completed' = completed \cup C
    /\ UNCHANGED released

Next ==
    \/ \E r \in Requests : Release(r)
    \/ \E S \in SUBSET InService, C \in SUBSET InService : Serve(S, C)

SafeSpec == Init /\ [][Next]_vars

\* No request stays in service for ever.
Completion == \A r \in Requests : []<>(r \notin InService)

Spec == SafeSpec /\ Completion

=============================================================================
