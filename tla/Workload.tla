------------------------------ MODULE Workload ------------------------------
(***************************************************************************)
(* The trace a simulation replays: immutable facts of every request, read  *)
(* by the frontend and by every worker.  A request is an independent one   *)
(* (no session), one with a pinned prefix, or a round of a session whose   *)
(* rounds follow each other.                                               *)
(***************************************************************************)
EXTENDS Integers, FiniteSets

CONSTANTS
    Requests,   \* the rows of the trace
    Sessions,   \* conversations that own several rows
    NoSession,  \* SessionOf of standalone and pinned-prefix rows
    NoRequest,  \* Before of the first round of a session
    SessionOf,  \* [Requests -> Sessions \cup {NoSession}]
    Before,     \* [Requests -> Requests \cup {NoRequest}]: the round before
    Fresh,      \* prompt_tokens: the new tokens of the round
    Declared,   \* declared_prefix_tokens: context inherited or pinned
    Target      \* target_output_tokens

ASSUME WorkloadAssumption ==
    /\ IsFiniteSet(Requests) /\ IsFiniteSet(Sessions)
    /\ NoSession \notin Sessions
    /\ NoRequest \notin Requests
    /\ SessionOf \in [Requests -> Sessions \cup {NoSession}]
    /\ Before \in [Requests -> Requests \cup {NoRequest}]
    /\ Fresh \in [Requests -> Nat]
    /\ Declared \in [Requests -> Nat]
    /\ Target \in [Requests -> Nat \ {0}]

\* A round follows a round of the same session, and every session is one
\* chain: it has one first round, and no two rounds share a predecessor.
ASSUME ChainAssumption ==
    /\ \A r \in Requests : Before[r] # NoRequest =>
          /\ SessionOf[r] # NoSession
          /\ SessionOf[Before[r]] = SessionOf[r]
    /\ \A q, r \in Requests :
          (q # r /\ SessionOf[q] = SessionOf[r] /\ SessionOf[r] # NoSession)
             => Before[q] # Before[r]

HasSession(r) == SessionOf[r] # NoSession

\* post_prefill_context_tokens: hits and misses change what is computed,
\* never the context the model sees after the prefill.
ContextOf(r) == Fresh[r] + Declared[r]

=============================================================================
