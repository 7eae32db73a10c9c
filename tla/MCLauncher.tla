----------------------------- MODULE MCLauncher -----------------------------
(* A sweep over two log_dirs, a single run that refreshes one of them with    *)
(* another config, and the sweep resumed.                                     *)
EXTENDS Launcher

CONSTANTS sweep, single, resume, d1, d2, root, k1, k2, a, b

MCRuns  == [l \in Launchers |-> IF l = sweep THEN {d1, d2} ELSE {d1}]
MCRoot  == [l \in Launchers |-> IF l = single THEN d1 ELSE root]
MCAsked == [l \in Launchers |-> IF l = single THEN b ELSE a]
MCKeyOf == [c \in Configs |-> [d \in Dirs |-> IF d = d1 THEN k1 ELSE k2]]
MCSlots == [l \in Launchers |-> IF l = resume THEN 1 ELSE 2]

=============================================================================
