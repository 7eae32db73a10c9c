---------------------------- MODULE LayerBarrier ---------------------------
(***************************************************************************)
(* What the attention/FFN flow promises of one slot, and nothing about     *)
(* workers, queues or messages: layer after layer, starting with the       *)
(* boundary before layer 0, every participant reports once, the last       *)
(* report makes one task, and when the task is finished the next layer     *)
(* begins.  After the last layer comes the boundary again.                 *)
(***************************************************************************)
EXTENDS Integers

CONSTANTS Participants, NumLayers

VARIABLES
    layer,   \* layer that is collected, -1 at the boundary
    heard,   \* who has reported it
    fired    \* its task is being worked on

vars == << layer, heard, fired >>

Init == layer = -1 /\ heard = {} /\ fired = FALSE

Hear(w) ==
    /\ ~fired
    /\ w \notin heard
    /\ heard' = heard \cup {w}
    /\ fired' = (heard' = Participants)
    /\ layer' = layer

Finish ==
    /\ fired
    /\ layer' = IF layer = NumLayers - 1 THEN -1 ELSE layer + 1
    /\ heard' = {}
    /\ fired' = FALSE

Next == (\E w \in Participants : Hear(w)) \/ Finish

\* The barrier never stays closed: it opens, and what it fired is finished.
Opens == []<>fired /\ []<>~fired

SafeSpec == Init /\ [][Next]_vars
Spec == SafeSpec /\ Opens

=============================================================================
