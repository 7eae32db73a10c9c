--------------------------- MODULE Launcher_proofs ---------------------------
(***************************************************************************)
(* The safety of Launcher for every number of invocations, log_dirs and    *)
(* cache keys, however often launchers are killed or interrupted: what a   *)
(* launcher waits for runs alone, what is marked complete is what a run    *)
(* left that ended well, and nothing complete is undone.  A step relies on *)
(* which lease each phase of an invocation and of a task holds, so that is *)
(* what the inductive invariant says first.                                *)
(***************************************************************************)
EXTENDS Launcher, FiniteSetTheorems, TLAPS

\* An invocation whose process is there and has opened its root.
Live(l) == pc[l] \notin {"start", "done", "killed"}

\* A task between its metadata and its end.
HasDir == {"described", "ready", "slotted", "up", "analyzed", "stopping"}

\* Tasks are those of the log_dirs to do, and stand where the invocation lets them.
PhaseAgrees ==
    /\ \A l \in Launchers : pending[l] \subseteq Runs[l]
    /\ \A l \in Launchers, d \in Dirs :
          /\ task[l][d] # "none" =>
                /\ d \in pending[l]
                /\ pc[l] \in {"running", "cancelling", "raising", "done", "killed"}
          /\ task[l][d] \in {"described", "ready", "slotted", "up", "analyzed"} =>
                pc[l] \in {"running", "killed"}
          /\ task[l][d] = "stopping" => pc[l] \in {"cancelling", "raising", "killed"}
          /\ task[l][d] = "left" => pc[l] = "done"
    /\ \A l \in Launchers : Alive(builder[l]) =>
          /\ pc[l] \in {"building", "cancelling", "killed"}
          /\ \A d \in Dirs : task[l][d] = "none"
          /\ builder[l].key \in Keys
          /\ pc[l] = "building" => builder[l].key \in toBuild[l]

\* A task holds the lease of its log_dir until it has ended.
DirLeases ==
    \A l \in Launchers, d \in Dirs :
        Live(l) /\ task[l][d] \in HasDir => holder[d] = l

\* Each holds the lease of profile.db its children need, and writers exclude readers.
DbLeases ==
    /\ \A l \in Launchers, d \in Dirs :
          pc[l] # "killed" /\ task[l][d] \in {"up", "stopping"} => << l, d >> \in readers
    /\ writer # Nobody => readers = {}
    /\ \A l \in Launchers :
          pc[l] = "building" \/ (pc[l] # "killed" /\ Alive(builder[l])) => writer = l

\* The keys of what is to run are in profile.db, or still to be seen to.
RowsAgree ==
    \A l \in Launchers, d \in Dirs :
        /\ pc[l] \in {"queued", "building"} /\ d \in pending[l] =>
              Key(l, d) \in rows \cup toBuild[l]
        /\ pc[l] = "running" /\ d \in pending[l] => Key(l, d) \in rows
        /\ task[l][d] \in {"up", "stopping"} => Key(l, d) \in rows

\* Rows a probe found missing are missing still, and still to be built, unless the
\* builder of a killed launcher was after them too.
ProbeAgrees ==
    \A l \in Launchers : builder[l].at = "probed" =>
        /\ pc[l] \notin {"start", "opened", "probing", "queued"}
        /\ pc[l] = "building" =>
              /\ builder[l].key \in toBuild[l]
              /\ builder[l].key \notin rows \/ Orphaned(builder[l].key)

\* What a task wrote into its log_dir stays while it holds the lease.
RecordAgrees ==
    \A l \in Launchers, d \in Dirs :
        Live(l) /\ task[l][d] \in HasDir =>
            /\ meta[d] = Asked[l]
            /\ task[l][d] # "described" => ~marker[d]

\* A simulator that runs is one its task has started and not seen the end of.
SimsAgree ==
    \A l \in Launchers, d \in Dirs :
        Alive(sim[l][d]) => task[l][d] \in {"up", "stopping", "left"}

NoneLeft(d) == \A l \in Launchers : ~LeftBehind(l, d)

\* Who has written metadata over a complete run was asked to, unless a simulator that
\* was left behind has completed it since.
NeedAgrees ==
    \A l \in Launchers, d \in Dirs :
        Live(l) /\ task[l][d] = "described" /\ IsComplete(d) /\ NoneLeft(d) => l \in Refresh

\* What a simulator writes is of the config its launcher asked for.
OutputAgrees ==
    \A l \in Launchers, d \in Dirs : Live(l) =>
        /\ task[l][d] = "up" /\ sim[l][d].at = "writing" => sim[l][d].cfg = Asked[l]
        /\ NoneLeft(d) /\ (task[l][d] = "analyzed" \/ (task[l][d] = "up" /\ sim[l][d].at = "ok")) =>
              out[d] = [cfg |-> Asked[l], whole |-> TRUE, clean |-> TRUE]

IInv == Typed /\ SlotBound /\ PhaseAgrees /\ DirLeases /\ DbLeases /\ RowsAgree /\ ProbeAgrees
        /\ RecordAgrees /\ SimsAgree /\ NeedAgrees /\ OutputAgrees /\ CompleteIsTrue

-----------------------------------------------------------------------------

\* The constants have the types their declarations say.
LEMMA Constants ==
    /\ Runs \in [Launchers -> SUBSET Dirs]
    /\ Root \in [Launchers -> Places] /\ Dirs \subseteq Places
    /\ Asked \in [Launchers -> Configs]
    /\ KeyOf \in [Configs -> [Dirs -> Keys]]
    /\ Nobody \notin Launchers /\ NoKey \notin Keys
    /\ MaxLosses \in Nat
    /\ \A l \in Launchers : Root[l] \in Dirs => Runs[l] = {Root[l]}
BY LauncherAssumption DEF Single


\* Cancelling tasks keeps the types of what it changes.
LEMMA CancelTyped ==
    ASSUME Typed, NEW l \in Launchers, Cancel(l)
    PROVE  /\ task' \in [Launchers -> [Dirs -> TaskStates]]
           /\ sim' \in [Launchers -> [Dirs -> [at : ChildStates, cfg : Configs \cup {NoConfig}]]]
           /\ readers' \subseteq readers
<1>1. \A d \in Dirs : sim[l][d] \in [at : ChildStates, cfg : Configs \cup {NoConfig}]
  BY DEF Typed
<1>2. \A d \in Dirs : [sim[l][d] EXCEPT !.at = "dying"] \in [at : ChildStates, cfg : Configs \cup {NoConfig}]
  BY <1>1 DEF ChildStates
<1>. QED  BY <1>1, <1>2 DEF Typed, Cancel, TaskStates

\* Every variable keeps its type.
LEMMA TypeStep ==
    ASSUME Typed, PhaseAgrees, [Next]_vars
    PROVE  Typed'
<1>1. ASSUME NEW l \in Launchers, Open(l) PROVE Typed'
  BY Constants, <1>1 DEF Open, InvocationStates, TaskStates, ChildStates, Typed, leases, disk,
     children
<1>2. ASSUME NEW l \in Launchers, StartProbe(l) PROVE Typed'
  BY <1>2 DEF StartProbe, Probe, InvocationStates, TaskStates, ChildStates, Typed, leases,
     disk, children
<1>3. ASSUME NEW l \in Launchers, EndProbe(l) PROVE Typed'
  <2>1. pc' \in [Launchers -> InvocationStates]
    BY <1>3 DEF EndProbe, InvocationStates, Typed
  <2>2. { Key(l, q) : q \in pending[l] } \subseteq Keys
    BY Constants DEF Key, Typed
  <2>3. toBuild' \in [Launchers -> SUBSET Keys] /\ readers' \subseteq readers
    BY <2>2, <1>3 DEF EndProbe, Typed
  <2>4. UNCHANGED << pending, builder, task, sim, holder, writer, rows, preset, meta, out, marker, losses >>
    BY <1>3 DEF EndProbe, leases, disk, children
  <2>. QED  BY <2>1, <2>2, <2>3, <2>4 DEF Typed
<1>4. ASSUME NEW l \in Launchers, StartBuilding(l) PROVE Typed'
  BY <1>4 DEF StartBuilding, InvocationStates, TaskStates, ChildStates, Typed, leases, disk,
     children
<1>5. ASSUME NEW l \in Launchers, NEW k \in Keys, SkipBuilt(l, k) PROVE Typed'
  BY <1>5 DEF SkipBuilt, InvocationStates, TaskStates, ChildStates, Typed, leases, disk,
     children
<1>6. ASSUME NEW l \in Launchers, NEW k \in Keys, FindMissing(l, k) PROVE Typed'
  BY Constants, <1>6 DEF FindMissing, InvocationStates, TaskStates, ChildStates, Typed,
     leases, disk, children
<1>6a. ASSUME NEW l \in Launchers, SpawnBuilder(l) PROVE Typed'
  BY Constants, <1>6a DEF SpawnBuilder, InvocationStates, TaskStates, ChildStates, Typed,
     leases, disk, children
<1>7. ASSUME NEW l \in Launchers, Verified(l) PROVE Typed'
  BY <1>7 DEF Verified, InvocationStates, TaskStates, ChildStates, Typed, leases, disk, children
<1>8. ASSUME NEW l \in Launchers, FailBuilding(l) PROVE Typed'
  BY <1>8 DEF FailBuilding, AfterBuilding, WriterReleased, InvocationStates, TaskStates,
     ChildStates, Typed, leases, disk, children
<1>9. ASSUME NEW l \in Launchers, EndBuilding(l) PROVE Typed'
  BY <1>9 DEF EndBuilding, AfterBuilding, WriterReleased, InvocationStates, TaskStates,
     ChildStates, Typed, leases, disk, children
<1>10. ASSUME NEW l \in Launchers, Close(l) PROVE Typed'
  BY Constants, <1>10 DEF Close, AllDirsReleased, InvocationStates, TaskStates, ChildStates,
     Typed, leases, disk, children
<1>11. ASSUME NEW l \in Launchers, CancelAgain(l) PROVE Typed'
  BY Constants, <1>11 DEF CancelAgain, AllDirsReleased, ReadBy, InvocationStates, TaskStates,
     ChildStates, Typed, leases, disk, children
<1>12. ASSUME NEW l \in Launchers, EndCancelled(l) PROVE Typed'
  BY <1>12 DEF EndCancelled, AllDirsReleased, WriterReleased, InvocationStates, TaskStates,
     ChildStates, Typed, leases, disk, children
<1>13. ASSUME NEW l \in Launchers, NEW d \in Dirs, Begin(l, d) PROVE Typed'
  <2>1. PICK at \in {"described", "ok"} : task' = [task EXCEPT ![l][d] = at]
    BY <1>13 DEF Begin
  <2>2. task' \in [Launchers -> [Dirs -> TaskStates]]
    BY <2>1 DEF TaskStates, Typed
  <2>3. holder' \in {holder, [holder EXCEPT ![d] = l]} /\ meta' \in {meta, [meta EXCEPT ![d] = Asked[l]]}
    BY <1>13 DEF Begin
  <2>4. holder' \in [Places -> Launchers \cup {Nobody}]
    BY <2>3, Constants DEF Typed
  <2>5. Asked[l] \in Configs
    BY Constants
  <2>6. meta' \in [Dirs -> Configs \cup {NoConfig}]
    BY <2>3, <2>5 DEF Typed
  <2>7. UNCHANGED << pc, pending, toBuild, builder, sim, readers, writer, rows, preset, out, marker, losses >>
    BY <1>13 DEF Begin, leases, disk, children
  <2>. QED  BY <2>1, <2>2, <2>3, <2>4, <2>5, <2>6, <2>7 DEF Typed
<1>14. ASSUME NEW l \in Launchers, NEW d \in Dirs, Unlink(l, d) PROVE Typed'
  BY <1>14 DEF Unlink, Unmarked, InvocationStates, TaskStates, ChildStates, Typed, leases,
     disk, children
<1>15. ASSUME NEW l \in Launchers, NEW d \in Dirs, TakeSlot(l, d) PROVE Typed'
  BY <1>15 DEF TakeSlot, InvocationStates, TaskStates, ChildStates, Typed, leases, disk,
     children
<1>16. ASSUME NEW l \in Launchers, NEW d \in Dirs, Spawn(l, d) PROVE Typed'
  BY <1>16 DEF Spawn, InvocationStates, TaskStates, ChildStates, Typed, leases, disk, children
<1>17. ASSUME NEW l \in Launchers, NEW d \in Dirs, Reap(l, d) PROVE Typed'
  <2>1. PICK at \in {"analyzed", "failed"} : task' = [task EXCEPT ![l][d] = at]
    BY <1>17 DEF Reap
  <2>2. task' \in [Launchers -> [Dirs -> TaskStates]]
    BY <2>1 DEF TaskStates, Typed
  <2>3. holder' \in [Places -> Launchers \cup {Nobody}] /\ readers' \subseteq readers
    BY <1>17 DEF Reap, DirReleased, Typed
  <2>4. UNCHANGED << pc, pending, toBuild, builder, sim, writer, rows, preset, meta, out, marker, losses >>
    BY <1>17 DEF Reap, leases, disk, children
  <2>. QED  BY <2>1, <2>2, <2>3, <2>4 DEF Typed
<1>18. ASSUME NEW l \in Launchers, NEW d \in Dirs, Finalize(l, d) PROVE Typed'
  BY <1>18 DEF Finalize, DirReleased, InvocationStates, TaskStates, ChildStates, Typed,
     leases, disk, children
<1>19. ASSUME NEW l \in Launchers, NEW d \in Dirs, TaskStopped(l, d) PROVE Typed'
  BY <1>19 DEF TaskStopped, DirReleased, InvocationStates, TaskStates, ChildStates, Typed,
     leases, disk, children
<1>20. ASSUME NEW l \in Launchers, BuilderEnds(l) PROVE Typed'
  <2>1. PICK at \in {"ok", "failed"} : builder' = [builder EXCEPT ![l].at = at]
    BY <1>20 DEF BuilderEnds
  <2>2. builder' \in [Launchers -> [key : Keys \cup {NoKey}, at : ChildStates]]
    BY <2>1, ZenonT(30) DEF ChildStates, Typed
  <2>3. rows' \subseteq Keys
    BY <1>20 DEF BuilderEnds, PhaseAgrees, Typed
  <2>4. UNCHANGED << pc, pending, toBuild, task, sim, holder, readers, writer, preset, meta, out, marker, losses >>
    BY <1>20 DEF BuilderEnds, leases, disk, children
  <2>. QED  BY <2>1, <2>2, <2>3, <2>4 DEF Typed
<1>21. ASSUME NEW l \in Launchers, NEW d \in Dirs, SimOpens(l, d) PROVE Typed'
  <2>1. sim' \in [Launchers -> [Dirs -> [at : ChildStates, cfg : Configs \cup {NoConfig}]]]
    BY Constants, <1>21 DEF SimOpens, ChildStates, Typed
  <2>2. PICK whole \in {FALSE, IsValid(d)} :
            out' = [out EXCEPT ![d] = [cfg |-> meta[d], whole |-> whole, clean |-> FALSE]]
    BY Constants, <1>21 DEF SimOpens
  <2>3. whole \in BOOLEAN
    BY Zenon DEF IsValid, Typed
  <2>4. out' \in [Dirs -> [cfg : Configs \cup {NoConfig}, whole : BOOLEAN, clean : BOOLEAN]]
    BY <2>2, <2>3 DEF Typed
  <2>5. UNCHANGED << pc, pending, toBuild, builder, task, holder, readers, writer, rows, preset, meta, marker, losses >>
    BY Constants, <1>21 DEF SimOpens, leases, disk, children
  <2>. QED  BY <2>1, <2>2, <2>3, <2>4, <2>5 DEF Typed
<1>22. ASSUME NEW l \in Launchers, NEW d \in Dirs, SimEnds(l, d) PROVE Typed'
  <2>1. PICK at \in {"ok", "failed"} : sim' = [sim EXCEPT ![l][d].at = at]
    BY <1>22 DEF SimEnds
  <2>2. sim[l] \in [Dirs -> [at : ChildStates, cfg : Configs \cup {NoConfig}]]
    BY DEF Typed
  <2>3. [sim[l] EXCEPT ![d].at = at] \in [Dirs -> [at : ChildStates, cfg : Configs \cup {NoConfig}]]
    BY <2>2 DEF ChildStates
  <2>4. sim' \in [Launchers -> [Dirs -> [at : ChildStates, cfg : Configs \cup {NoConfig}]]]
    BY <2>1, <2>3 DEF Typed
  <2>5. out[d] \in [cfg : Configs \cup {NoConfig}, whole : BOOLEAN, clean : BOOLEAN]
        /\ sim[l][d].cfg \in Configs \cup {NoConfig}
    BY DEF Typed
  <2>6. PICK o \in [cfg : Configs \cup {NoConfig}, whole : BOOLEAN, clean : BOOLEAN] :
            out' = [out EXCEPT ![d] = o] \/ out' = out
    BY <2>5, <1>22 DEF SimEnds, Typed
  <2>7. out' \in [Dirs -> [cfg : Configs \cup {NoConfig}, whole : BOOLEAN, clean : BOOLEAN]]
    BY <2>6 DEF Typed
  <2>8. UNCHANGED << pc, pending, toBuild, builder, task, holder, readers, writer, rows, preset, meta, marker, losses >>
    BY <1>22 DEF SimEnds, leases, disk, children
  <2>. QED  BY <2>1, <2>2, <2>3, <2>4, <2>5, <2>6, <2>7, <2>8 DEF Typed
<1>23. ASSUME NEW l \in Launchers, Interrupt(l), InterruptPrebuild(l) PROVE Typed'
  <2>1. builder' = builder \/ builder' = [builder EXCEPT ![l].at = "dying"]
    BY <1>23 DEF InterruptPrebuild
  <2>2. builder[l] \in [key : Keys \cup {NoKey}, at : ChildStates]
    BY DEF Typed
  <2>3. [builder[l] EXCEPT !.at = "dying"] \in [key : Keys \cup {NoKey}, at : ChildStates]
    BY <2>2 DEF ChildStates
  <2>4. builder' \in [Launchers -> [key : Keys \cup {NoKey}, at : ChildStates]]
    BY <2>1, <2>3 DEF Typed
  <2>5. writer' \in Launchers \cup {Nobody} /\ readers' \subseteq readers
    BY <1>23 DEF InterruptPrebuild, WriterReleased, Typed
  <2>6. pc' \in [Launchers -> InvocationStates] /\ losses' \in 0 .. MaxLosses
    BY <1>23, Constants DEF Interrupt, InvocationStates, Typed
  <2>7. UNCHANGED << pending, toBuild, task, sim, holder, rows, preset, meta, out, marker >>
    BY <1>23 DEF InterruptPrebuild, Interrupt, leases, disk, children
  <2>. QED  BY <2>1, <2>2, <2>3, <2>4, <2>5, <2>6, <2>7 DEF Typed
<1>24. ASSUME NEW l \in Launchers, Interrupt(l), InterruptTasks(l) PROVE Typed'
  <2>1. task' \in [Launchers -> [Dirs -> TaskStates]] /\ sim' \in [Launchers -> [Dirs -> [at : ChildStates, cfg : Configs \cup {NoConfig}]]]
        /\ readers' \subseteq readers
    BY <1>24, CancelTyped DEF InterruptTasks
  <2>2. holder' \in [Places -> Launchers \cup {Nobody}]
    BY <1>24 DEF InterruptTasks, DirReleased, Typed
  <2>3. pc' \in [Launchers -> InvocationStates] /\ losses' \in 0 .. MaxLosses
    BY <1>24, Constants DEF Interrupt, InvocationStates, Typed
  <2>4. UNCHANGED << pending, toBuild, builder, writer, rows, preset, meta, out, marker >>
    BY <1>24 DEF InterruptTasks, Interrupt, leases, disk, children
  <2>. QED  BY <2>1, <2>2, <2>3, <2>4 DEF Typed
<1>25. ASSUME NEW l \in Launchers, Kill(l) PROVE Typed'
  BY Constants, <1>25 DEF Kill, AllDirsReleased, ReadBy, WriterReleased, InvocationStates,
     TaskStates, ChildStates, Typed, leases, disk, children
<1>26. ASSUME NEW l \in Launchers, NEW d \in Dirs, SpawnRaises(l, d) PROVE Typed'
  <2>1. task' \in [Launchers -> [Dirs -> TaskStates]] /\ sim' \in [Launchers -> [Dirs -> [at : ChildStates, cfg : Configs \cup {NoConfig}]]]
        /\ readers' \subseteq readers
    BY <1>26, CancelTyped DEF SpawnRaises
  <2>2. holder' \in [Places -> Launchers \cup {Nobody}]
    BY <1>26, Constants DEF SpawnRaises, DirReleased, Typed
  <2>3. pc' \in [Launchers -> InvocationStates]
    BY <1>26 DEF SpawnRaises, InvocationStates, Typed
  <2>4. UNCHANGED << pending, toBuild, builder, writer, rows, preset, meta, out, marker, losses >>
    BY <1>26 DEF SpawnRaises, leases, disk, children
  <2>. QED  BY <2>1, <2>2, <2>3, <2>4 DEF Typed
<1>27. CASE UNCHANGED vars
  BY <1>27 DEF vars, leases, disk, children, Typed
<1>. QED
  BY <1>1, <1>2, <1>3, <1>4, <1>5, <1>6, <1>6a, <1>7, <1>8, <1>9, <1>10, <1>11, <1>12, <1>13, <1>14,
     <1>15, <1>16, <1>17, <1>18, <1>19, <1>20, <1>21, <1>22, <1>23, <1>24, <1>25, <1>26, <1>27
     DEF Next, Proceed, Child, TaskStep, Interrupt


\* No launcher runs more simulations than it has slots.
LEMMA SlotStep ==
    ASSUME Typed, SlotBound, [Next]_vars
    PROVE  SlotBound'
<1>1. ASSUME NEW l \in Launchers, Open(l)
      PROVE  \A m \in Launchers : InSlot(m)' \subseteq InSlot(m)
  BY <1>1 DEF Open, InSlot, Typed, Running, leases, disk, children
<1>2. ASSUME NEW l \in Launchers, StartProbe(l)
      PROVE  \A m \in Launchers : InSlot(m)' \subseteq InSlot(m)
  BY <1>2 DEF StartProbe, Probe, InSlot, Typed, Running, leases, disk, children
<1>3. ASSUME NEW l \in Launchers, EndProbe(l)
      PROVE  \A m \in Launchers : InSlot(m)' \subseteq InSlot(m)
  BY <1>3 DEF EndProbe, Probe, InSlot, Typed, Running, leases, disk, children
<1>4. ASSUME NEW l \in Launchers, StartBuilding(l)
      PROVE  \A m \in Launchers : InSlot(m)' \subseteq InSlot(m)
  BY <1>4 DEF StartBuilding, InSlot, Typed, Running, leases, disk, children
<1>5. ASSUME NEW l \in Launchers, NEW k \in Keys, SkipBuilt(l, k)
      PROVE  \A m \in Launchers : InSlot(m)' \subseteq InSlot(m)
  BY <1>5 DEF SkipBuilt, InSlot, Typed, Running, leases, disk, children
<1>6. ASSUME NEW l \in Launchers, NEW k \in Keys, FindMissing(l, k)
      PROVE  \A m \in Launchers : InSlot(m)' \subseteq InSlot(m)
  BY <1>6 DEF FindMissing, InSlot, Typed, Running, leases, disk, children
<1>6a. ASSUME NEW l \in Launchers, SpawnBuilder(l)
      PROVE  \A m \in Launchers : InSlot(m)' \subseteq InSlot(m)
  BY <1>6a DEF SpawnBuilder, InSlot, Typed, Running, leases, disk, children
<1>7. ASSUME NEW l \in Launchers, Verified(l)
      PROVE  \A m \in Launchers : InSlot(m)' \subseteq InSlot(m)
  BY <1>7 DEF Verified, InSlot, Typed, Running, leases, disk, children
<1>8. ASSUME NEW l \in Launchers, FailBuilding(l)
      PROVE  \A m \in Launchers : InSlot(m)' \subseteq InSlot(m)
  BY <1>8 DEF FailBuilding, AfterBuilding, WriterReleased, InSlot, Typed, Running, leases,
     disk, children
<1>9. ASSUME NEW l \in Launchers, EndBuilding(l)
      PROVE  \A m \in Launchers : InSlot(m)' \subseteq InSlot(m)
  BY <1>9 DEF EndBuilding, AfterBuilding, WriterReleased, InSlot, Typed, Running, leases,
     disk, children
<1>10. ASSUME NEW l \in Launchers, Close(l)
       PROVE  \A m \in Launchers : InSlot(m)' \subseteq InSlot(m)
  BY <1>10 DEF Close, AllDirsReleased, InSlot, Typed, Running, leases, disk, children
<1>11. ASSUME NEW l \in Launchers, CancelAgain(l)
       PROVE  \A m \in Launchers : InSlot(m)' \subseteq InSlot(m)
  BY <1>11 DEF CancelAgain, AllDirsReleased, ReadBy, InSlot, Typed, Running, leases, disk,
     children
<1>12. ASSUME NEW l \in Launchers, EndCancelled(l)
       PROVE  \A m \in Launchers : InSlot(m)' \subseteq InSlot(m)
  BY <1>12 DEF EndCancelled, AllDirsReleased, WriterReleased, InSlot, Typed, Running, leases,
     disk, children
<1>13. ASSUME NEW l \in Launchers, NEW d \in Dirs, Begin(l, d)
       PROVE  \A m \in Launchers : InSlot(m)' \subseteq InSlot(m)
  <2>1. PICK at \in {"described", "ok"} : task' = [task EXCEPT ![l][d] = at]
    BY <1>13 DEF Begin
  <2>. QED  BY <2>1 DEF InSlot, Typed
<1>14. ASSUME NEW l \in Launchers, NEW d \in Dirs, Unlink(l, d)
       PROVE  \A m \in Launchers : InSlot(m)' \subseteq InSlot(m)
  BY <1>14 DEF Unlink, Unmarked, InSlot, Typed, Running, leases, disk, children
<1>15. ASSUME NEW l \in Launchers, NEW d \in Dirs, TakeSlot(l, d) PROVE SlotBound'
  <2>1. IsFiniteSet(InSlot(l)) /\ InSlot(l)' = InSlot(l) \cup {d} /\ d \notin InSlot(l)
    BY <1>15, FS_Subset, LauncherAssumption DEF TakeSlot, InSlot, Typed
  <2>2. Cardinality(InSlot(l)') = Cardinality(InSlot(l)) + 1
    BY <2>1, FS_AddElement
  <2>3. Cardinality(InSlot(l)') <= Slots[l]
    BY <2>1, <2>2, <1>15, FS_CardinalityType, LauncherAssumption DEF TakeSlot, SlotFree
  <2>4. ASSUME NEW m \in Launchers \ {l} PROVE InSlot(m)' = InSlot(m)
    BY <1>15 DEF TakeSlot, InSlot, Typed
  <2>. QED  BY <2>3, <2>4 DEF SlotBound
<1>16. ASSUME NEW l \in Launchers, NEW d \in Dirs, Spawn(l, d)
       PROVE  \A m \in Launchers : InSlot(m)' \subseteq InSlot(m)
  BY <1>16 DEF Spawn, InSlot, Typed, Running, leases, disk, children
<1>17. ASSUME NEW l \in Launchers, NEW d \in Dirs, Reap(l, d)
       PROVE  \A m \in Launchers : InSlot(m)' \subseteq InSlot(m)
  <2>1. PICK at \in {"analyzed", "failed"} : task' = [task EXCEPT ![l][d] = at]
    BY <1>17 DEF Reap
  <2>. QED  BY <2>1 DEF InSlot, Typed
<1>18. ASSUME NEW l \in Launchers, NEW d \in Dirs, Finalize(l, d)
       PROVE  \A m \in Launchers : InSlot(m)' \subseteq InSlot(m)
  BY <1>18 DEF Finalize, DirReleased, InSlot, Typed, Running, leases, disk, children
<1>19. ASSUME NEW l \in Launchers, NEW d \in Dirs, TaskStopped(l, d)
       PROVE  \A m \in Launchers : InSlot(m)' \subseteq InSlot(m)
  BY <1>19 DEF TaskStopped, DirReleased, InSlot, Typed, Running, leases, disk, children
<1>20. ASSUME NEW l \in Launchers, BuilderEnds(l)
       PROVE  \A m \in Launchers : InSlot(m)' \subseteq InSlot(m)
  BY <1>20 DEF BuilderEnds, Alive, InSlot, Typed, Running, leases, disk, children
<1>21. ASSUME NEW l \in Launchers, NEW d \in Dirs, SimOpens(l, d)
       PROVE  \A m \in Launchers : InSlot(m)' \subseteq InSlot(m)
  BY <1>21 DEF SimOpens, NoOutput, InSlot, Typed, Running, leases, disk, children
<1>22. ASSUME NEW l \in Launchers, NEW d \in Dirs, SimEnds(l, d)
       PROVE  \A m \in Launchers : InSlot(m)' \subseteq InSlot(m)
  BY <1>22 DEF SimEnds, InSlot, Typed, Running, leases, disk, children
<1>23. ASSUME NEW l \in Launchers, Interrupt(l), InterruptPrebuild(l)
       PROVE  \A m \in Launchers : InSlot(m)' \subseteq InSlot(m)
  BY <1>23 DEF Interrupt, InterruptPrebuild, WriterReleased, ReadBy, Alive, InSlot, Typed,
     Running, leases, disk, children
<1>24. ASSUME NEW l \in Launchers, Interrupt(l), InterruptTasks(l)
       PROVE  \A m \in Launchers : InSlot(m)' \subseteq InSlot(m)
  BY <1>24 DEF Interrupt, InterruptTasks, DirReleased, Cancel, InSlot, Typed, Running, leases,
     disk, children
<1>25. ASSUME NEW l \in Launchers, Kill(l)
       PROVE  \A m \in Launchers : InSlot(m)' \subseteq InSlot(m)
  BY <1>25 DEF Kill, AllDirsReleased, ReadBy, WriterReleased, InSlot, Typed, Running, leases,
     disk, children
<1>26. ASSUME NEW l \in Launchers, NEW d \in Dirs, SpawnRaises(l, d)
       PROVE  \A m \in Launchers : InSlot(m)' \subseteq InSlot(m)
  BY <1>26 DEF SpawnRaises, DirReleased, Cancel, InSlot, Typed, Running, leases, disk, children
<1>27. ASSUME UNCHANGED vars PROVE \A m \in Launchers : InSlot(m)' \subseteq InSlot(m)
  BY <1>27 DEF vars, leases, disk, children, InSlot
<1>28. ASSUME \A m \in Launchers : InSlot(m)' \subseteq InSlot(m)
       PROVE  SlotBound'
  <2>. SUFFICES ASSUME NEW m \in Launchers PROVE Cardinality(InSlot(m)') <= Slots[m]
    BY DEF SlotBound
  <2>1. IsFiniteSet(InSlot(m))
    BY FS_Subset, LauncherAssumption DEF InSlot
  <2>2. Cardinality(InSlot(m)') <= Cardinality(InSlot(m))
    BY <2>1, <1>28, FS_Subset
  <2>3. IsFiniteSet(InSlot(m)')
    BY <2>1, <1>28, FS_Subset
  <2>. QED  BY <2>1, <2>2, <2>3, FS_CardinalityType, LauncherAssumption DEF SlotBound
<1>. QED
  BY <1>1, <1>2, <1>3, <1>4, <1>5, <1>6, <1>6a, <1>7, <1>8, <1>9, <1>10, <1>11, <1>12, <1>13, <1>14,
     <1>15, <1>16, <1>17, <1>18, <1>19, <1>20, <1>21, <1>22, <1>23, <1>24, <1>25, <1>26, <1>27, <1>28
     DEF Next, Proceed, Child, TaskStep, Interrupt


-----------------------------------------------------------------------------


\* Tasks and invocations keep in phase.
LEMMA PhaseStep ==
    ASSUME Typed, PhaseAgrees, ProbeAgrees, [Next]_vars
    PROVE  PhaseAgrees'
<1>1. ASSUME NEW l \in Launchers, Open(l) PROVE PhaseAgrees'
  BY <1>1 DEF Open, PhaseAgrees, Typed, Alive, leases, disk, children
<1>2. ASSUME NEW l \in Launchers, StartProbe(l) PROVE PhaseAgrees'
  BY <1>2 DEF StartProbe, Probe, PhaseAgrees, Typed, Alive, leases, disk, children
<1>3. ASSUME NEW l \in Launchers, EndProbe(l) PROVE PhaseAgrees'
  <2>1. PICK at \in {"running", "queued", "closing"} : pc' = [pc EXCEPT ![l] = at]
    BY <1>3 DEF EndProbe
  <2>2. pc[l] = "probing" /\ UNCHANGED << pending, builder, task >>
    BY <1>3 DEF EndProbe
  <2>3. \A m \in Launchers \ {l} : toBuild'[m] = toBuild[m]
    BY <1>3 DEF EndProbe, Typed
  <2>4. ~Alive(builder[l]) /\ \A q \in Dirs : task[l][q] = "none"
    BY <2>2 DEF PhaseAgrees, Typed
  <2>. QED  BY <2>1, <2>2, <2>3, <2>4 DEF PhaseAgrees, Typed, Alive
<1>4. ASSUME NEW l \in Launchers, StartBuilding(l) PROVE PhaseAgrees'
  BY <1>4 DEF StartBuilding, PhaseAgrees, Typed, Alive, leases, disk, children
<1>5. ASSUME NEW l \in Launchers, NEW k \in Keys, SkipBuilt(l, k) PROVE PhaseAgrees'
  BY <1>5 DEF SkipBuilt, PhaseAgrees, Typed, Alive, leases, disk, children
<1>6. ASSUME NEW l \in Launchers, NEW k \in Keys, FindMissing(l, k) PROVE PhaseAgrees'
  <2>1. builder' = [builder EXCEPT ![l] = [key |-> k, at |-> "probed"]]
    BY <1>6 DEF FindMissing
  <2>2. UNCHANGED << pc, pending, toBuild, task >>
    BY <1>6 DEF FindMissing
  <2>. QED  BY <2>1, <2>2 DEF PhaseAgrees, Typed, Alive
<1>6a. ASSUME NEW l \in Launchers, SpawnBuilder(l) PROVE PhaseAgrees'
  <2>1. /\ builder' = [builder EXCEPT ![l].at = "up"]
        /\ pc[l] = "building" /\ builder[l].key \in toBuild[l] /\ builder[l].key \in Keys
    BY <1>6a DEF SpawnBuilder, ProbeAgrees, Typed
  <2>2. UNCHANGED << pc, pending, toBuild, task >>
    BY <1>6a DEF SpawnBuilder
  <2>3. \A q \in Dirs : task[l][q] = "none"
    BY <2>1 DEF PhaseAgrees, Typed
  <2>. QED  BY <2>1, <2>2, <2>3 DEF PhaseAgrees, Typed, Alive
<1>7. ASSUME NEW l \in Launchers, Verified(l) PROVE PhaseAgrees'
  BY <1>7 DEF Verified, PhaseAgrees, Typed, Alive, leases, disk, children
<1>8. ASSUME NEW l \in Launchers, FailBuilding(l) PROVE PhaseAgrees'
  BY <1>8 DEF FailBuilding, AfterBuilding, WriterReleased, PhaseAgrees, Typed, Alive, leases,
     disk, children
<1>9. ASSUME NEW l \in Launchers, EndBuilding(l) PROVE PhaseAgrees'
  BY <1>9 DEF EndBuilding, AfterBuilding, WriterReleased, PhaseAgrees, Typed, Alive, leases,
     disk, children
<1>10. ASSUME NEW l \in Launchers, Close(l) PROVE PhaseAgrees'
  <2>1. pc[l] = "running" => \A q \in Dirs : task[l][q] \in {"none", "ok", "failed"}
    BY <1>10 DEF Close, Finished, PhaseAgrees, Typed
  <2>2. pc' = [pc EXCEPT ![l] = "done"] /\ pc[l] \in {"closing", "running"}
    BY <1>10 DEF Close
  <2>3. UNCHANGED << pending, toBuild, builder, task >>
    BY <1>10 DEF Close
  <2>4. ~Alive(builder[l]) /\ \A q \in Dirs : task[l][q] \notin {"described", "ready", "slotted", "up", "analyzed", "stopping"}
    BY <2>1, <2>2 DEF PhaseAgrees, Typed
  <2>. QED  BY <2>1, <2>2, <2>3, <2>4 DEF PhaseAgrees, Typed, Alive
<1>11. ASSUME NEW l \in Launchers, CancelAgain(l) PROVE PhaseAgrees'
  <2>1. \A q \in Dirs : task'[l][q] = IF task[l][q] = "stopping" THEN "left" ELSE task[l][q]
    BY <1>11 DEF CancelAgain, Typed
  <2>2. \A m \in Launchers \ {l} : task'[m] = task[m]
    BY <1>11 DEF CancelAgain, Typed
  <2>3. pc' = [pc EXCEPT ![l] = "done"] /\ pc[l] = "cancelling"
    BY <1>11 DEF CancelAgain
  <2>4. UNCHANGED << pending, toBuild, builder >>
    BY <1>11 DEF CancelAgain, children
  <2>5. ~Alive(builder[l])
    BY <1>11 DEF CancelAgain, PhaseAgrees, Stopping
  <2>. QED  BY <2>1, <2>2, <2>3, <2>4, <2>5 DEF PhaseAgrees, Typed, Alive
<1>12. ASSUME NEW l \in Launchers, EndCancelled(l) PROVE PhaseAgrees'
  <2>1. \A q \in Dirs : task[l][q] # "stopping"
    BY <1>12 DEF EndCancelled, Stopping
  <2>2. pc' = [pc EXCEPT ![l] = "done"] /\ pc[l] \in {"cancelling", "raising"} /\ ~Alive(builder[l])
    BY <1>12 DEF EndCancelled
  <2>3. UNCHANGED << pending, toBuild, builder, task >>
    BY <1>12 DEF EndCancelled, children
  <2>. QED  BY <2>1, <2>2, <2>3 DEF PhaseAgrees, Typed, Alive
<1>13. ASSUME NEW l \in Launchers, NEW d \in Dirs, Begin(l, d) PROVE PhaseAgrees'
  <2>1. PICK at \in {"described", "ok"} : task' = [task EXCEPT ![l][d] = at]
    BY <1>13 DEF Begin
  <2>2. pc[l] = "running" /\ d \in pending[l]
    BY <1>13 DEF Begin
  <2>3. UNCHANGED << pc, pending, toBuild, builder >>
    BY <1>13 DEF Begin, children
  <2>4. ~Alive(builder[l])
    BY <2>2 DEF PhaseAgrees
  <2>. QED  BY <2>1, <2>2, <2>3, <2>4 DEF PhaseAgrees, Typed, Alive
<1>14. ASSUME NEW l \in Launchers, NEW d \in Dirs, Unlink(l, d) PROVE PhaseAgrees'
  BY <1>14 DEF Unlink, Unmarked, PhaseAgrees, Typed, Alive, leases, disk, children
<1>15. ASSUME NEW l \in Launchers, NEW d \in Dirs, TakeSlot(l, d) PROVE PhaseAgrees'
  BY <1>15 DEF TakeSlot, PhaseAgrees, Typed, Alive, leases, disk, children
<1>16. ASSUME NEW l \in Launchers, NEW d \in Dirs, Spawn(l, d) PROVE PhaseAgrees'
  BY <1>16 DEF Spawn, PhaseAgrees, Typed, Alive, leases, disk, children
<1>17. ASSUME NEW l \in Launchers, NEW d \in Dirs, Reap(l, d) PROVE PhaseAgrees'
  <2>1. PICK at \in {"analyzed", "failed"} : task' = [task EXCEPT ![l][d] = at]
    BY <1>17 DEF Reap
  <2>2. pc[l] = "running" /\ task[l][d] = "up"
    BY <1>17 DEF Reap
  <2>3. UNCHANGED << pc, pending, toBuild, builder >>
    BY <1>17 DEF Reap, children
  <2>4. ~Alive(builder[l])
    BY <2>2 DEF PhaseAgrees
  <2>. QED  BY <2>1, <2>2, <2>3, <2>4 DEF PhaseAgrees, Typed, Alive
<1>18. ASSUME NEW l \in Launchers, NEW d \in Dirs, Finalize(l, d) PROVE PhaseAgrees'
  BY <1>18 DEF Finalize, DirReleased, PhaseAgrees, Typed, Alive, leases, disk, children
<1>19. ASSUME NEW l \in Launchers, NEW d \in Dirs, TaskStopped(l, d) PROVE PhaseAgrees'
  BY <1>19 DEF TaskStopped, DirReleased, PhaseAgrees, Typed, Alive, leases, disk, children
<1>20. ASSUME NEW l \in Launchers, BuilderEnds(l) PROVE PhaseAgrees'
  <2>1. PICK at \in {"ok", "failed"} : builder' = [builder EXCEPT ![l].at = at]
    BY <1>20 DEF BuilderEnds
  <2>2. UNCHANGED << pc, pending, toBuild, task >>
    BY <1>20 DEF BuilderEnds
  <2>3. \A m \in Launchers \ {l} : builder'[m] = builder[m]
    BY <2>1 DEF Typed
  <2>4. ~Alive(builder[l])'
    BY <2>1 DEF Alive, Typed
  <2>5. PhaseAgrees
    OBVIOUS
  <2>. QED  BY <2>2, <2>3, <2>4, <2>5 DEF PhaseAgrees, Alive
<1>21. ASSUME NEW l \in Launchers, NEW d \in Dirs, SimOpens(l, d) PROVE PhaseAgrees'
  BY <1>21 DEF SimOpens, NoOutput, PhaseAgrees, Typed, Alive, leases, disk, children
<1>22. ASSUME NEW l \in Launchers, NEW d \in Dirs, SimEnds(l, d) PROVE PhaseAgrees'
  BY <1>22 DEF SimEnds, PhaseAgrees, Typed, Alive, leases, disk, children
<1>23. ASSUME NEW l \in Launchers, Interrupt(l), InterruptPrebuild(l) PROVE PhaseAgrees'
  <2>1. pc' = [pc EXCEPT ![l] = "cancelling"] /\ pc[l] \in {"opened", "probing", "queued", "building"}
    BY <1>23 DEF Interrupt, InterruptPrebuild
  <2>2. UNCHANGED << pending, toBuild, task >>
    BY <1>23 DEF Interrupt, InterruptPrebuild
  <2>3. \A m \in Launchers \ {l} : builder'[m] = builder[m] /\ pc'[m] = pc[m]
    BY <1>23, <2>1 DEF InterruptPrebuild, Typed
  <2>4. \A q \in Dirs : task[l][q] = "none"
    BY <2>1, ZenonT(30) DEF PhaseAgrees, Typed
  <2>5. Alive(builder'[l]) => builder'[l].key = builder[l].key /\ Alive(builder[l])
    BY <1>23 DEF InterruptPrebuild, Typed, Alive
  <2>6. pc'[l] = "cancelling"
    BY <2>1 DEF Typed
  <2>. QED  BY <2>2, <2>3, <2>4, <2>5, <2>6 DEF PhaseAgrees
<1>24. ASSUME NEW l \in Launchers, Interrupt(l), InterruptTasks(l) PROVE PhaseAgrees'
  <2>1. \A q \in Dirs : task'[l][q] = IF q \in Running(l) THEN "stopping"
                                    ELSE IF q \in Unfinished(l) THEN "cancelled" ELSE task[l][q]
    BY <1>24 DEF InterruptTasks, Cancel, Typed
  <2>2. \A m \in Launchers \ {l} : task'[m] = task[m] /\ pc'[m] = pc[m]
    BY <1>24 DEF Interrupt, InterruptTasks, Cancel, Typed
  <2>3. pc'[l] = "cancelling" /\ pc[l] = "running"
    BY <1>24 DEF Interrupt, InterruptTasks, Typed
  <2>4. UNCHANGED << pending, toBuild, builder >>
    BY <1>24 DEF Interrupt, InterruptTasks
  <2>5. ~Alive(builder[l])
    BY <2>3 DEF PhaseAgrees
  <2>6. \A q \in Dirs : /\ task'[l][q] \in {"none", "ok", "failed", "stopping", "cancelled"}
                        /\ task'[l][q] # "none" => q \in pending[l]
    BY <2>1, <2>3 DEF PhaseAgrees, Typed, TaskStates, Running, Unfinished
  <2>7. ASSUME NEW m \in Launchers, NEW q \in Dirs
        PROVE  /\ task'[m][q] # "none" =>
                    /\ q \in pending[m]
                    /\ pc'[m] \in {"running", "cancelling", "raising", "done", "killed"}
               /\ task'[m][q] \in {"described", "ready", "slotted", "up", "analyzed"} =>
                    pc'[m] \in {"running", "killed"}
               /\ task'[m][q] = "stopping" => pc'[m] \in {"cancelling", "raising", "killed"}
               /\ task'[m][q] = "left" => pc'[m] = "done"
    <3>1. CASE m = l
      <4>1. /\ task'[m][q] \in {"none", "ok", "failed", "stopping", "cancelled"}
            /\ task'[m][q] # "none" => q \in pending[m]
        BY <3>1, <2>6
      <4>2. pc'[m] = "cancelling"
        BY <3>1, <2>3
      <4>. QED  BY <4>1, <4>2
    <3>2. CASE m # l
      BY <3>2, <2>2 DEF PhaseAgrees
    <3>. QED  BY <3>1, <3>2
  <2>8. ASSUME NEW m \in Launchers, Alive(builder[m])'
        PROVE  /\ pc'[m] \in {"building", "cancelling", "killed"}
               /\ \A q \in Dirs : task'[m][q] = "none"
               /\ builder'[m].key \in Keys
               /\ pc'[m] = "building" => builder'[m].key \in toBuild'[m]
    <3>1. Alive(builder[m]) /\ m # l
      BY <2>4, <2>5, <2>8 DEF Alive
    <3>. QED  BY <3>1, <2>2, <2>4 DEF PhaseAgrees
  <2>9. \A m \in Launchers : pending'[m] \subseteq Runs[m]
    BY <2>4 DEF PhaseAgrees
  <2>. QED  BY <2>4, <2>7, <2>8, <2>9 DEF PhaseAgrees
<1>25. ASSUME NEW l \in Launchers, Kill(l) PROVE PhaseAgrees'
  BY <1>25 DEF Kill, AllDirsReleased, ReadBy, WriterReleased, PhaseAgrees, Typed, Alive,
     leases, disk, children
<1>26. ASSUME NEW l \in Launchers, NEW d \in Dirs, SpawnRaises(l, d) PROVE PhaseAgrees'
  <2>1. \A q \in Dirs : task'[l][q] = IF q \in Running(l) THEN "stopping"
                                    ELSE IF q \in Unfinished(l) THEN "cancelled" ELSE task[l][q]
    BY <1>26 DEF SpawnRaises, Cancel, Typed
  <2>2. \A m \in Launchers \ {l} : task'[m] = task[m] /\ pc'[m] = pc[m]
    BY <1>26 DEF SpawnRaises, Cancel, Typed
  <2>3. pc'[l] = "raising" /\ pc[l] = "running"
    BY <1>26 DEF SpawnRaises, Typed
  <2>4. UNCHANGED << pending, toBuild, builder >>
    BY <1>26 DEF SpawnRaises
  <2>5. ~Alive(builder[l])
    BY <2>3 DEF PhaseAgrees
  <2>6. \A q \in Dirs : /\ task'[l][q] \in {"none", "ok", "failed", "stopping", "cancelled"}
                        /\ task'[l][q] # "none" => q \in pending[l]
    BY <2>1, <2>3 DEF PhaseAgrees, Typed, TaskStates, Running, Unfinished
  <2>7. ASSUME NEW m \in Launchers, NEW q \in Dirs
        PROVE  /\ task'[m][q] # "none" =>
                    /\ q \in pending[m]
                    /\ pc'[m] \in {"running", "cancelling", "raising", "done", "killed"}
               /\ task'[m][q] \in {"described", "ready", "slotted", "up", "analyzed"} =>
                    pc'[m] \in {"running", "killed"}
               /\ task'[m][q] = "stopping" => pc'[m] \in {"cancelling", "raising", "killed"}
               /\ task'[m][q] = "left" => pc'[m] = "done"
    <3>1. CASE m = l
      <4>1. /\ task'[m][q] \in {"none", "ok", "failed", "stopping", "cancelled"}
            /\ task'[m][q] # "none" => q \in pending[m]
        BY <3>1, <2>6
      <4>2. pc'[m] = "raising"
        BY <3>1, <2>3
      <4>. QED  BY <4>1, <4>2
    <3>2. CASE m # l
      BY <3>2, <2>2 DEF PhaseAgrees
    <3>. QED  BY <3>1, <3>2
  <2>8. ASSUME NEW m \in Launchers, Alive(builder[m])'
        PROVE  /\ pc'[m] \in {"building", "cancelling", "killed"}
               /\ \A q \in Dirs : task'[m][q] = "none"
               /\ builder'[m].key \in Keys
               /\ pc'[m] = "building" => builder'[m].key \in toBuild'[m]
    <3>1. Alive(builder[m]) /\ m # l
      BY <2>4, <2>5, <2>8 DEF Alive
    <3>. QED  BY <3>1, <2>2, <2>4 DEF PhaseAgrees
  <2>9. \A m \in Launchers : pending'[m] \subseteq Runs[m]
    BY <2>4 DEF PhaseAgrees
  <2>. QED  BY <2>4, <2>7, <2>8, <2>9 DEF PhaseAgrees
<1>27. CASE UNCHANGED vars
  BY <1>27 DEF vars, leases, disk, children, PhaseAgrees, Alive
<1>. QED
  BY <1>1, <1>2, <1>3, <1>4, <1>5, <1>6, <1>6a, <1>7, <1>8, <1>9, <1>10, <1>11, <1>12, <1>13, <1>14,
     <1>15, <1>16, <1>17, <1>18, <1>19, <1>20, <1>21, <1>22, <1>23, <1>24, <1>25, <1>26, <1>27
     DEF Next, Proceed, Child, TaskStep, Interrupt


-----------------------------------------------------------------------------


\* A cancelled task has ended, unless its simulator was running: then it stops it.
LEMMA CancelledTasks ==
    ASSUME Typed, PhaseAgrees, NEW l \in Launchers, pc[l] = "running", Cancel(l)
    PROVE  /\ \A m \in Launchers \ {l} : task'[m] = task[m]
           /\ \A q \in Dirs : IF q \in Running(l)
                             THEN task'[l][q] = "stopping" /\ task[l][q] = "up"
                             ELSE task'[l][q] \in {"none", "ok", "failed", "cancelled"}
<1>1. \A m \in Launchers \ {l} : task'[m] = task[m]
  BY DEF Cancel, Typed
<1>2. \A q \in Dirs : task'[l][q] = IF q \in Running(l) THEN "stopping"
                                  ELSE IF q \in Unfinished(l) THEN "cancelled" ELSE task[l][q]
  BY DEF Cancel, Typed
<1>3. \A q \in Dirs : q \notin Unfinished(l) => task[l][q] \in {"none", "ok", "failed"}
  BY DEF PhaseAgrees, Unfinished
<1>. QED  BY <1>1, <1>2, <1>3 DEF Running

\* Giving back what a launcher holds, when it ends, takes nothing from the others.
LEMMA EndedLauncher ==
    ASSUME Typed, DirLeases, NEW l \in Launchers,
           pc' = [pc EXCEPT ![l] = "done"] \/ pc' = [pc EXCEPT ![l] = "killed"],
           \A m \in Launchers \ {l} : task'[m] = task[m],
           holder' = AllDirsReleased(l)
    PROVE  DirLeases'
<1>1. ~Live(l)' /\ \A m \in Launchers \ {l} : Live(m)' => Live(m)
  BY DEF Live, Typed
<1>2. \A m \in Launchers \ {l}, q \in Dirs : holder[q] = m => holder'[q] = m
  BY Constants DEF AllDirsReleased
<1>. QED  BY <1>1, <1>2 DEF DirLeases

\* Nor does giving back the lease of a task that has ended.
LEMMA EndedTask ==
    ASSUME Typed, DirLeases, NEW l \in Launchers, NEW d \in Dirs, NEW at,
           at \notin HasDir,
           task' = [task EXCEPT ![l][d] = at], pc' = pc, holder' = DirReleased(l, {d})
    PROVE  DirLeases'
<1>. SUFFICES ASSUME NEW m \in Launchers, NEW q \in Dirs, Live(m), task'[m][q] \in HasDir
              PROVE  holder'[q] = m
  BY DEF DirLeases, Live
<1>1. task[m][q] = task'[m][q] /\ ~(m = l /\ q = d)
  BY DEF Typed
<1>2. holder[q] = m
  BY <1>1 DEF DirLeases
<1>. QED  BY <1>1, <1>2, Constants DEF DirReleased

\* Cancelled tasks that have ended give their leases back, the others keep them.
LEMMA CancelledDirs ==
    ASSUME Typed, PhaseAgrees, DirLeases, NEW l \in Launchers, pc[l] = "running", Cancel(l),
           NEW m \in Launchers, NEW q \in Dirs, Live(m), task'[m][q] \in HasDir
    PROVE  /\ DirReleased(l, Unfinished(l) \ Running(l))[q] = m
           /\ holder[q] = m
           /\ m = l => q \in Running(l)
<1>1. CASE m = l
  <2>1. q \in Running(l) /\ task[l][q] = "up"
    BY <1>1, CancelledTasks DEF HasDir
  <2>2. holder[q] = l
    BY <2>1, <1>1 DEF DirLeases, HasDir
  <2>. QED  BY <1>1, <2>1, <2>2, Constants DEF DirReleased
<1>2. CASE m # l
  <2>1. holder[q] = m
    BY <1>2, CancelledTasks DEF DirLeases
  <2>. QED  BY <1>2, <2>1, Constants DEF DirReleased
<1>. QED  BY <1>1, <1>2

\* A task keeps the lease of its log_dir to its end.
LEMMA DirStep ==
    ASSUME Typed, PhaseAgrees, DirLeases, [Next]_vars
    PROVE  DirLeases'
<1>1. ASSUME NEW l \in Launchers, Open(l) PROVE DirLeases'
  <2>1. \A m \in Launchers, q \in Dirs : task[m][q] \in HasDir /\ Live(m)' => Live(m)
    BY <1>1 DEF Open, PhaseAgrees, Live, HasDir, Typed
  <2>2. \A p \in Places : holder[p] # Nobody => holder'[p] = holder[p]
    BY <1>1 DEF Open, Typed
  <2>3. task' = task
    BY <1>1 DEF Open
  <2>. QED  BY <2>1, <2>2, <2>3, Constants DEF DirLeases
<1>2. ASSUME NEW l \in Launchers, StartProbe(l) PROVE DirLeases'
  BY <1>2 DEF StartProbe, Probe, DirLeases, Live, HasDir, Typed, leases, disk, children
<1>3. ASSUME NEW l \in Launchers, EndProbe(l) PROVE DirLeases'
  BY <1>3 DEF EndProbe, Probe, DirLeases, Live, HasDir, Typed, leases, disk, children
<1>4. ASSUME NEW l \in Launchers, StartBuilding(l) PROVE DirLeases'
  BY <1>4 DEF StartBuilding, DirLeases, Live, HasDir, Typed, leases, disk, children
<1>5. ASSUME NEW l \in Launchers, NEW k \in Keys, SkipBuilt(l, k) PROVE DirLeases'
  BY <1>5 DEF SkipBuilt, DirLeases, Live, HasDir, Typed, leases, disk, children
<1>6. ASSUME NEW l \in Launchers, NEW k \in Keys, FindMissing(l, k) PROVE DirLeases'
  BY <1>6 DEF FindMissing, DirLeases, Live, HasDir, Typed, leases, disk, children
<1>6a. ASSUME NEW l \in Launchers, SpawnBuilder(l) PROVE DirLeases'
  BY <1>6a DEF SpawnBuilder, DirLeases, Live, HasDir, Typed, leases, disk, children
<1>7. ASSUME NEW l \in Launchers, Verified(l) PROVE DirLeases'
  BY <1>7 DEF Verified, DirLeases, Live, HasDir, Typed, leases, disk, children
<1>8. ASSUME NEW l \in Launchers, FailBuilding(l) PROVE DirLeases'
  BY <1>8 DEF FailBuilding, AfterBuilding, WriterReleased, DirLeases, Live, HasDir, Typed,
     leases, disk, children
<1>9. ASSUME NEW l \in Launchers, EndBuilding(l) PROVE DirLeases'
  BY <1>9 DEF EndBuilding, AfterBuilding, WriterReleased, DirLeases, Live, HasDir, Typed,
     leases, disk, children
<1>10. ASSUME NEW l \in Launchers, Close(l) PROVE DirLeases'
  <2>1. pc' = [pc EXCEPT ![l] = "done"] /\ holder' = AllDirsReleased(l)
    BY <1>10 DEF Close
  <2>2. \A m \in Launchers \ {l} : task'[m] = task[m]
    BY <1>10 DEF Close, Typed
  <2>. QED  BY <2>1, <2>2, EndedLauncher
<1>11. ASSUME NEW l \in Launchers, CancelAgain(l) PROVE DirLeases'
  <2>1. pc' = [pc EXCEPT ![l] = "done"] /\ holder' = AllDirsReleased(l)
    BY <1>11 DEF CancelAgain
  <2>2. \A m \in Launchers \ {l} : task'[m] = task[m]
    BY <1>11 DEF CancelAgain, Typed
  <2>. QED  BY <2>1, <2>2, EndedLauncher
<1>12. ASSUME NEW l \in Launchers, EndCancelled(l) PROVE DirLeases'
  <2>1. pc' = [pc EXCEPT ![l] = "done"] /\ holder' = AllDirsReleased(l)
    BY <1>12 DEF EndCancelled
  <2>2. \A m \in Launchers \ {l} : task'[m] = task[m]
    BY <1>12 DEF EndCancelled, Typed
  <2>. QED  BY <2>1, <2>2, EndedLauncher
<1>13. ASSUME NEW l \in Launchers, NEW d \in Dirs, Begin(l, d) PROVE DirLeases'
  <2>1. PICK at \in {"described", "ok"} :
            /\ task' = [task EXCEPT ![l][d] = at]
            /\ at = "described" => holder' = [holder EXCEPT ![d] = l]
            /\ at = "ok" => holder' = holder
    BY <1>13 DEF Begin
  <2>2. holder[d] \in {l, Nobody} /\ pc' = pc
    BY <1>13 DEF Begin
  <2>. SUFFICES ASSUME NEW m \in Launchers, NEW q \in Dirs, Live(m), task'[m][q] \in HasDir
                PROVE  holder'[q] = m
    BY <2>2 DEF DirLeases, Live
  <2>3. CASE m = l /\ q = d
    BY <2>3, <2>1, Constants DEF HasDir, Typed
  <2>4. CASE ~(m = l /\ q = d)
    <3>1. holder[q] = m
      BY <2>4, <2>1 DEF DirLeases, Typed
    <3>2. q = d => m = l
      BY <3>1, <2>2, Constants
    <3>. QED  BY <3>1, <3>2, <2>1, <2>4, Constants DEF Typed
  <2>. QED  BY <2>3, <2>4
<1>14. ASSUME NEW l \in Launchers, NEW d \in Dirs, Unlink(l, d) PROVE DirLeases'
  BY <1>14 DEF Unlink, Unmarked, DirLeases, Live, HasDir, Typed, leases, disk, children
<1>15. ASSUME NEW l \in Launchers, NEW d \in Dirs, TakeSlot(l, d) PROVE DirLeases'
  BY <1>15 DEF TakeSlot, DirLeases, Live, HasDir, Typed, leases, disk, children
<1>16. ASSUME NEW l \in Launchers, NEW d \in Dirs, Spawn(l, d) PROVE DirLeases'
  BY <1>16 DEF Spawn, DirLeases, Live, HasDir, Typed, leases, disk, children
<1>17. ASSUME NEW l \in Launchers, NEW d \in Dirs, Reap(l, d) PROVE DirLeases'
  <2>1. CASE task' = [task EXCEPT ![l][d] = "analyzed"] /\ holder' = holder
    BY <1>17, <2>1 DEF Reap, DirLeases, Live, HasDir, Typed
  <2>2. CASE task' = [task EXCEPT ![l][d] = "failed"] /\ holder' = DirReleased(l, {d})
    <3>. "failed" \notin HasDir /\ pc' = pc
      BY <1>17 DEF Reap, HasDir
    <3>. QED  BY <2>2, EndedTask
  <2>. QED  BY <1>17, <2>1, <2>2 DEF Reap
<1>18. ASSUME NEW l \in Launchers, NEW d \in Dirs, Finalize(l, d) PROVE DirLeases'
  <2>1. "ok" \notin HasDir /\ pc' = pc
    BY <1>18 DEF Finalize, HasDir
  <2>2. task' = [task EXCEPT ![l][d] = "ok"] /\ holder' = DirReleased(l, {d})
    BY <1>18 DEF Finalize
  <2>. QED  BY <2>1, <2>2, EndedTask
<1>19. ASSUME NEW l \in Launchers, NEW d \in Dirs, TaskStopped(l, d) PROVE DirLeases'
  <2>1. "cancelled" \notin HasDir /\ pc' = pc
    BY <1>19 DEF TaskStopped, HasDir
  <2>2. task' = [task EXCEPT ![l][d] = "cancelled"] /\ holder' = DirReleased(l, {d})
    BY <1>19 DEF TaskStopped
  <2>. QED  BY <2>1, <2>2, EndedTask
<1>20. ASSUME NEW l \in Launchers, BuilderEnds(l) PROVE DirLeases'
  BY <1>20 DEF BuilderEnds, Alive, DirLeases, Live, HasDir, Typed, leases, disk, children
<1>21. ASSUME NEW l \in Launchers, NEW d \in Dirs, SimOpens(l, d) PROVE DirLeases'
  BY <1>21 DEF SimOpens, NoOutput, DirLeases, Live, HasDir, Typed, leases, disk, children
<1>22. ASSUME NEW l \in Launchers, NEW d \in Dirs, SimEnds(l, d) PROVE DirLeases'
  BY <1>22 DEF SimEnds, DirLeases, Live, HasDir, Typed, leases, disk, children
<1>23. ASSUME NEW l \in Launchers, Interrupt(l), InterruptPrebuild(l) PROVE DirLeases'
  BY <1>23 DEF Interrupt, InterruptPrebuild, WriterReleased, ReadBy, Alive, DirLeases, Live,
     HasDir, Typed, leases, disk, children
<1>24. ASSUME NEW l \in Launchers, Interrupt(l), InterruptTasks(l) PROVE DirLeases'
  <2>1. pc[l] = "running" /\ Cancel(l) /\ holder' = DirReleased(l, Unfinished(l) \ Running(l))
    BY <1>24 DEF InterruptTasks
  <2>2. \A m \in Launchers : Live(m)' => Live(m)
    BY <1>24, <2>1 DEF Interrupt, Live, Typed
  <2>. QED  BY <2>1, <2>2, CancelledDirs DEF DirLeases
<1>25. ASSUME NEW l \in Launchers, Kill(l) PROVE DirLeases'
  <2>1. pc' = [pc EXCEPT ![l] = "killed"] /\ holder' = AllDirsReleased(l)
    BY <1>25 DEF Kill
  <2>2. \A m \in Launchers \ {l} : task'[m] = task[m]
    BY <1>25 DEF Kill, Typed
  <2>. QED  BY <2>1, <2>2, EndedLauncher
<1>26. ASSUME NEW l \in Launchers, NEW d \in Dirs, SpawnRaises(l, d) PROVE DirLeases'
  <2>1. /\ pc[l] = "running" /\ Cancel(l) /\ task[l][d] = "slotted"
        /\ holder' = [p \in Places |->
              IF p = Root[l] /\ holder[p] = l THEN Nobody
              ELSE DirReleased(l, Unfinished(l) \ Running(l))[p]]
    BY <1>26 DEF SpawnRaises
  <2>2. \A m \in Launchers : Live(m)' => Live(m)
    BY <1>26, <2>1 DEF SpawnRaises, Live, Typed
  <2>. SUFFICES ASSUME NEW m \in Launchers, NEW q \in Dirs, Live(m), task'[m][q] \in HasDir
                PROVE  holder'[q] = m
    BY <2>2 DEF DirLeases
  <2>3. /\ DirReleased(l, Unfinished(l) \ Running(l))[q] = m
        /\ holder[q] = m
        /\ m = l => q \in Running(l)
    BY <2>1, CancelledDirs
  <2>4. ~(q = Root[l] /\ m = l)
    <3>. SUFFICES ASSUME q = Root[l], m = l PROVE FALSE
      OBVIOUS
    <3>1. Runs[l] = {q} /\ task[l][q] = "up"
      BY <2>3, Constants DEF Running
    <3>2. d = q
      BY <3>1, <2>1 DEF PhaseAgrees
    <3>. QED  BY <3>1, <3>2, <2>1
  <2>. QED  BY <2>1, <2>3, <2>4, Constants
<1>27. CASE UNCHANGED vars
  BY <1>27 DEF vars, leases, disk, children, DirLeases, Live, HasDir
<1>. QED
  BY <1>1, <1>2, <1>3, <1>4, <1>5, <1>6, <1>6a, <1>7, <1>8, <1>9, <1>10, <1>11, <1>12, <1>13, <1>14,
     <1>15, <1>16, <1>17, <1>18, <1>19, <1>20, <1>21, <1>22, <1>23, <1>24, <1>25, <1>26, <1>27
     DEF Next, Proceed, Child, TaskStep, Interrupt


\* The leases of profile.db are held while a child needs them.
LEMMA DbStep ==
    ASSUME Typed, PhaseAgrees, DbLeases, [Next]_vars
    PROVE  DbLeases'
<1>1. ASSUME NEW l \in Launchers, Open(l) PROVE DbLeases'
  BY <1>1 DEF Open, DbLeases, Alive, Typed, leases, disk, children
<1>2. ASSUME NEW l \in Launchers, StartProbe(l) PROVE DbLeases'
  <2>1. writer = Nobody /\ readers \subseteq readers'
    BY <1>2 DEF StartProbe, MayRead
  <2>2. pc' = [pc EXCEPT ![l] = "probing"] /\ pc[l] = "opened"
    BY <1>2 DEF StartProbe
  <2>3. UNCHANGED << writer, task, builder >>
    BY <1>2 DEF StartProbe
  <2>4. \A m \in Launchers : ~Alive(builder[m]) \/ pc[m] = "killed"
    BY <2>1, Constants DEF DbLeases
  <2>. QED  BY <2>1, <2>2, <2>3, <2>4 DEF DbLeases, Alive, Typed
<1>3. ASSUME NEW l \in Launchers, EndProbe(l) PROVE DbLeases'
  <2>1. PICK at \in {"running", "queued", "closing"} : pc' = [pc EXCEPT ![l] = at]
    BY <1>3 DEF EndProbe
  <2>2. pc[l] = "probing" /\ readers' = readers \ {<< l, "probe" >>} /\ UNCHANGED << writer, task, builder >>
    BY <1>3 DEF EndProbe, Probe
  <2>3. \A q \in Dirs : task[l][q] \notin {"up", "stopping"}
    BY <2>2 DEF PhaseAgrees, Typed
  <2>4. ASSUME NEW m \in Launchers, NEW q \in Dirs, pc'[m] # "killed", task'[m][q] \in {"up", "stopping"}
        PROVE  << m, q >> \in readers'
    <3>1. m # l
      BY <2>2, <2>3, <2>4
    <3>2. << m, q >> \in readers
      BY <3>1, <2>1, <2>2, <2>4 DEF DbLeases, Typed
    <3>. QED  BY <3>1, <3>2, <2>2
  <2>5. \A m \in Launchers : pc'[m] = "building" \/ (pc'[m] # "killed" /\ Alive(builder[m])) => writer = m
    BY <2>1, <2>2 DEF DbLeases, Typed
  <2>. QED  BY <2>2, <2>4, <2>5 DEF DbLeases, Alive
<1>4. ASSUME NEW l \in Launchers, StartBuilding(l) PROVE DbLeases'
  <2>1. writer = Nobody /\ readers = {} /\ writer' = l /\ readers' = {}
    BY <1>4 DEF StartBuilding, MayWrite
  <2>2. pc' = [pc EXCEPT ![l] = "building"] /\ pc[l] = "queued" /\ UNCHANGED << task, builder >>
    BY <1>4 DEF StartBuilding
  <2>. QED  BY <2>1, <2>2, Constants DEF DbLeases, Alive, Typed
<1>5. ASSUME NEW l \in Launchers, NEW k \in Keys, SkipBuilt(l, k) PROVE DbLeases'
  BY <1>5 DEF SkipBuilt, DbLeases, Alive, Typed, leases, disk, children
<1>6. ASSUME NEW l \in Launchers, NEW k \in Keys, FindMissing(l, k) PROVE DbLeases'
  BY <1>6 DEF FindMissing, DbLeases, Alive, Typed, leases, disk, children
<1>6a. ASSUME NEW l \in Launchers, SpawnBuilder(l) PROVE DbLeases'
  BY <1>6a DEF SpawnBuilder, DbLeases, Alive, Typed, leases, disk, children
<1>7. ASSUME NEW l \in Launchers, Verified(l) PROVE DbLeases'
  BY <1>7 DEF Verified, DbLeases, Alive, Typed, leases, disk, children
<1>8. ASSUME NEW l \in Launchers, FailBuilding(l) PROVE DbLeases'
  <2>1. pc' = [pc EXCEPT ![l] = "closing"] /\ pc[l] = "building" /\ writer' = IF writer = l THEN Nobody ELSE writer
    BY <1>8 DEF FailBuilding, AfterBuilding, WriterReleased
  <2>2. ~Alive(builder[l])
    BY <1>8 DEF FailBuilding, Alive
  <2>3. UNCHANGED << readers, task, builder >>
    BY <1>8 DEF FailBuilding
  <2>. QED  BY <2>1, <2>2, <2>3, Constants DEF DbLeases, Alive, Typed
<1>9. ASSUME NEW l \in Launchers, EndBuilding(l) PROVE DbLeases'
  <2>1. pc' = [pc EXCEPT ![l] = "running"] /\ pc[l] = "building" /\ writer' = IF writer = l THEN Nobody ELSE writer
    BY <1>9 DEF EndBuilding, AfterBuilding, WriterReleased
  <2>2. ~Alive(builder[l])
    BY <1>9 DEF EndBuilding, PhaseAgrees
  <2>3. UNCHANGED << readers, task, builder >>
    BY <1>9 DEF EndBuilding
  <2>. QED  BY <2>1, <2>2, <2>3, Constants DEF DbLeases, Alive, Typed
<1>10. ASSUME NEW l \in Launchers, Close(l) PROVE DbLeases'
  BY <1>10 DEF Close, AllDirsReleased, DbLeases, Alive, Typed, leases, disk, children
<1>11. ASSUME NEW l \in Launchers, CancelAgain(l) PROVE DbLeases'
  <2>1. pc' = [pc EXCEPT ![l] = "done"] /\ pc[l] = "cancelling" /\ readers' = readers \ ReadBy(l)
    BY <1>11 DEF CancelAgain
  <2>2. UNCHANGED << writer, builder >>
    BY <1>11 DEF CancelAgain, children
  <2>3. \A m \in Launchers \ {l} : task'[m] = task[m] /\ pc'[m] = pc[m]
    BY <1>11 DEF CancelAgain, Typed
  <2>4. \A q \in Dirs : task'[l][q] \notin {"up", "stopping"}
    <3>1. \A q \in Dirs : task[l][q] # "up"
      BY <2>1 DEF PhaseAgrees
    <3>2. \A q \in Dirs : task'[l][q] = IF task[l][q] = "stopping" THEN "left" ELSE task[l][q]
      BY <1>11 DEF CancelAgain, Typed
    <3>. QED  BY <3>1, <3>2
  <2>5. \A m \in Launchers \ {l}, q \in Dirs : << m, q >> \in readers => << m, q >> \in readers'
    BY <2>1 DEF ReadBy
  <2>6. \A m \in Launchers : pc'[m] = "building" \/ (pc'[m] # "killed" /\ Alive(builder[m])) => writer = m
    BY <2>1 DEF DbLeases, Typed
  <2>. QED  BY <2>1, <2>2, <2>3, <2>4, <2>5, <2>6 DEF DbLeases, Alive
<1>12. ASSUME NEW l \in Launchers, EndCancelled(l) PROVE DbLeases'
  BY <1>12 DEF EndCancelled, AllDirsReleased, WriterReleased, DbLeases, Alive, Typed, leases,
     disk, children
<1>13. ASSUME NEW l \in Launchers, NEW d \in Dirs, Begin(l, d) PROVE DbLeases'
  <2>1. PICK at \in {"described", "ok"} : task' = [task EXCEPT ![l][d] = at]
    BY <1>13 DEF Begin
  <2>2. UNCHANGED << pc, readers, writer, builder >>
    BY <1>13 DEF Begin, children
  <2>. QED  BY <2>1, <2>2 DEF DbLeases, Alive, Typed
<1>14. ASSUME NEW l \in Launchers, NEW d \in Dirs, Unlink(l, d) PROVE DbLeases'
  BY <1>14 DEF Unlink, Unmarked, DbLeases, Alive, Typed, leases, disk, children
<1>15. ASSUME NEW l \in Launchers, NEW d \in Dirs, TakeSlot(l, d) PROVE DbLeases'
  BY <1>15 DEF TakeSlot, DbLeases, Alive, Typed, leases, disk, children
<1>16. ASSUME NEW l \in Launchers, NEW d \in Dirs, Spawn(l, d) PROVE DbLeases'
  <2>1. writer = Nobody /\ readers' = readers \cup {<< l, d >>} /\ task' = [task EXCEPT ![l][d] = "up"]
    BY <1>16 DEF Spawn, MayRead
  <2>2. UNCHANGED << pc, writer, builder >>
    BY <1>16 DEF Spawn
  <2>. QED  BY <2>1, <2>2 DEF DbLeases, Alive, Typed
<1>17. ASSUME NEW l \in Launchers, NEW d \in Dirs, Reap(l, d) PROVE DbLeases'
  BY <1>17 DEF Reap, DirReleased, DbLeases, Alive, Typed, leases, disk, children
<1>18. ASSUME NEW l \in Launchers, NEW d \in Dirs, Finalize(l, d) PROVE DbLeases'
  BY <1>18 DEF Finalize, DirReleased, DbLeases, Alive, Typed, leases, disk, children
<1>19. ASSUME NEW l \in Launchers, NEW d \in Dirs, TaskStopped(l, d) PROVE DbLeases'
  BY <1>19 DEF TaskStopped, DirReleased, DbLeases, Alive, Typed, leases, disk, children
<1>20. ASSUME NEW l \in Launchers, BuilderEnds(l) PROVE DbLeases'
  BY <1>20 DEF BuilderEnds, DbLeases, Alive, Typed, leases, disk, children
<1>21. ASSUME NEW l \in Launchers, NEW d \in Dirs, SimOpens(l, d) PROVE DbLeases'
  BY <1>21 DEF SimOpens, NoOutput, DbLeases, Alive, Typed, leases, disk, children
<1>22. ASSUME NEW l \in Launchers, NEW d \in Dirs, SimEnds(l, d) PROVE DbLeases'
  BY <1>22 DEF SimEnds, DbLeases, Alive, Typed, leases, disk, children
<1>23. ASSUME NEW l \in Launchers, Interrupt(l), InterruptPrebuild(l) PROVE DbLeases'
  <2>1. pc' = [pc EXCEPT ![l] = "cancelling"] /\ pc[l] \in {"opened", "probing", "queued", "building"}
    BY <1>23 DEF Interrupt, InterruptPrebuild
  <2>2. readers' = readers \ ReadBy(l) /\ task' = task
    BY <1>23 DEF InterruptPrebuild
  <2>3. \A q \in Dirs : task[l][q] \notin {"up", "stopping"}
    BY <2>1 DEF PhaseAgrees, Typed
  <2>4. \A m \in Launchers \ {l}, q \in Dirs : << m, q >> \in readers => << m, q >> \in readers'
    BY <2>2 DEF ReadBy
  <2>5. \A m \in Launchers \ {l} : pc'[m] = pc[m] /\ builder'[m] = builder[m]
    BY <1>23, <2>1 DEF InterruptPrebuild, Typed
  <2>6. writer' \in {writer, Nobody} /\ (writer # l => writer' = writer)
    BY <1>23 DEF InterruptPrebuild, WriterReleased
  <2>7. pc'[l] = "cancelling"
    BY <2>1 DEF Typed
  <2>8. Alive(builder'[l]) => Alive(builder[l]) /\ writer' = writer
    BY <1>23 DEF InterruptPrebuild, Alive
  <2>9. \A m \in Launchers : pc'[m] = "building" \/ (pc'[m] # "killed" /\ Alive(builder'[m])) => writer' = m
    <3>1. Alive(builder'[l]) => writer' = l
      BY <2>1, <2>8 DEF DbLeases
    <3>2. ASSUME NEW m \in Launchers \ {l}, pc'[m] = "building" \/ (pc'[m] # "killed" /\ Alive(builder'[m]))
          PROVE  writer' = m
      <4>1. writer = m
        BY <3>2, <2>5 DEF DbLeases
      <4>. QED  BY <4>1, <2>6
    <3>. QED  BY <3>1, <3>2, <2>7
  <2>10. \A m \in Launchers, q \in Dirs :
            pc'[m] # "killed" /\ task'[m][q] \in {"up", "stopping"} => << m, q >> \in readers'
    BY <2>2, <2>3, <2>4, <2>5 DEF DbLeases
  <2>11. writer' # Nobody => readers' = {}
    BY <2>2, <2>6 DEF DbLeases
  <2>. QED  BY <2>9, <2>10, <2>11 DEF DbLeases, Alive
<1>24. ASSUME NEW l \in Launchers, Interrupt(l), InterruptTasks(l) PROVE DbLeases'
  <2>1. pc[l] = "running" /\ Cancel(l) /\ readers' = { x \in readers : x[1] = l => x[2] \in Running(l) }
    BY <1>24 DEF InterruptTasks, Cancel
  <2>2. pc' = [pc EXCEPT ![l] = "cancelling"] /\ UNCHANGED << writer, builder >>
    BY <1>24 DEF Interrupt, InterruptTasks, children
  <2>3. ASSUME NEW m \in Launchers, NEW q \in Dirs, pc'[m] # "killed", task'[m][q] \in {"up", "stopping"}
        PROVE  << m, q >> \in readers'
    <3>1. task[m][q] \in {"up", "stopping"} /\ (m = l => q \in Running(l))
      BY <2>1, <2>3, CancelledTasks
    <3>2. pc[m] # "killed"
      BY <2>1, <2>2, <2>3 DEF Typed
    <3>3. << m, q >> \in readers
      BY <3>1, <3>2 DEF DbLeases
    <3>. QED  BY <2>1, <3>1, <3>3
  <2>4. \A m \in Launchers : pc'[m] = "building" \/ (pc'[m] # "killed" /\ Alive(builder[m])) => writer = m
    BY <2>1, <2>2 DEF DbLeases, Typed
  <2>5. writer' # Nobody => readers' = {}
    BY <2>1, <2>2 DEF DbLeases
  <2>. QED  BY <2>2, <2>3, <2>4, <2>5 DEF DbLeases, Alive
<1>25. ASSUME NEW l \in Launchers, Kill(l) PROVE DbLeases'
  BY <1>25 DEF Kill, AllDirsReleased, ReadBy, WriterReleased, DbLeases, Alive, Typed, leases,
     disk, children
<1>26. ASSUME NEW l \in Launchers, NEW d \in Dirs, SpawnRaises(l, d) PROVE DbLeases'
  <2>1. pc[l] = "running" /\ Cancel(l) /\ readers' = { x \in readers : x[1] = l => x[2] \in Running(l) }
    BY <1>26 DEF SpawnRaises, Cancel
  <2>2. pc' = [pc EXCEPT ![l] = "raising"] /\ UNCHANGED << writer, builder >>
    BY <1>26 DEF SpawnRaises, children
  <2>3. ASSUME NEW m \in Launchers, NEW q \in Dirs, pc'[m] # "killed", task'[m][q] \in {"up", "stopping"}
        PROVE  << m, q >> \in readers'
    <3>1. task[m][q] \in {"up", "stopping"} /\ (m = l => q \in Running(l))
      BY <2>1, <2>3, CancelledTasks
    <3>2. pc[m] # "killed"
      BY <2>1, <2>2, <2>3 DEF Typed
    <3>3. << m, q >> \in readers
      BY <3>1, <3>2 DEF DbLeases
    <3>. QED  BY <2>1, <3>1, <3>3
  <2>4. \A m \in Launchers : pc'[m] = "building" \/ (pc'[m] # "killed" /\ Alive(builder[m])) => writer = m
    BY <2>1, <2>2 DEF DbLeases, Typed
  <2>5. writer' # Nobody => readers' = {}
    BY <2>1, <2>2 DEF DbLeases
  <2>. QED  BY <2>2, <2>3, <2>4, <2>5 DEF DbLeases, Alive
<1>27. CASE UNCHANGED vars
  BY <1>27 DEF vars, leases, disk, children, DbLeases, Alive
<1>. QED
  BY <1>1, <1>2, <1>3, <1>4, <1>5, <1>6, <1>6a, <1>7, <1>8, <1>9, <1>10, <1>11, <1>12, <1>13, <1>14,
     <1>15, <1>16, <1>17, <1>18, <1>19, <1>20, <1>21, <1>22, <1>23, <1>24, <1>25, <1>26, <1>27
     DEF Next, Proceed, Child, TaskStep, Interrupt


-----------------------------------------------------------------------------


\* The rows a simulator needs are there when it runs.
LEMMA RowsStep ==
    ASSUME Typed, PhaseAgrees, RowsAgree, [Next]_vars
    PROVE  RowsAgree'
<1>1. ASSUME NEW l \in Launchers, Open(l) PROVE RowsAgree'
  BY <1>1 DEF Open, RowsAgree, Key, Typed, leases, disk, children
<1>2. ASSUME NEW l \in Launchers, StartProbe(l) PROVE RowsAgree'
  BY <1>2 DEF StartProbe, Probe, RowsAgree, Key, Typed, leases, disk, children
<1>3. ASSUME NEW l \in Launchers, EndProbe(l) PROVE RowsAgree'
  BY <1>3 DEF EndProbe, Probe, RowsAgree, Key, Typed, leases, disk, children
<1>4. ASSUME NEW l \in Launchers, StartBuilding(l) PROVE RowsAgree'
  BY <1>4 DEF StartBuilding, RowsAgree, Key, Typed, leases, disk, children
<1>5. ASSUME NEW l \in Launchers, NEW k \in Keys, SkipBuilt(l, k) PROVE RowsAgree'
  <2>1. k \in rows /\ toBuild' = [toBuild EXCEPT ![l] = toBuild[l] \ {k}]
    BY <1>5 DEF SkipBuilt, IsMissing
  <2>2. UNCHANGED << pc, pending, task, rows >>
    BY <1>5 DEF SkipBuilt
  <2>. QED  BY <2>1, <2>2 DEF RowsAgree, Key, Typed
<1>6. ASSUME NEW l \in Launchers, NEW k \in Keys, FindMissing(l, k) PROVE RowsAgree'
  BY <1>6 DEF FindMissing, RowsAgree, Key, Typed, leases, disk, children
<1>6a. ASSUME NEW l \in Launchers, SpawnBuilder(l) PROVE RowsAgree'
  BY <1>6a DEF SpawnBuilder, RowsAgree, Key, Typed, leases, disk, children
<1>7. ASSUME NEW l \in Launchers, Verified(l) PROVE RowsAgree'
  <2>1. builder[l].key \in rows /\ toBuild' = [toBuild EXCEPT ![l] = toBuild[l] \ {builder[l].key}]
    BY <1>7 DEF Verified, IsMissing
  <2>2. UNCHANGED << pc, pending, task, rows >>
    BY <1>7 DEF Verified
  <2>. QED  BY <2>1, <2>2 DEF RowsAgree, Key, Typed
<1>8. ASSUME NEW l \in Launchers, FailBuilding(l) PROVE RowsAgree'
  BY <1>8 DEF FailBuilding, AfterBuilding, WriterReleased, RowsAgree, Key, Typed, leases,
     disk, children
<1>9. ASSUME NEW l \in Launchers, EndBuilding(l) PROVE RowsAgree'
  BY <1>9 DEF EndBuilding, AfterBuilding, WriterReleased, RowsAgree, Key, Typed, leases, disk,
     children
<1>10. ASSUME NEW l \in Launchers, Close(l) PROVE RowsAgree'
  BY <1>10 DEF Close, AllDirsReleased, RowsAgree, Key, Typed, leases, disk, children
<1>11. ASSUME NEW l \in Launchers, CancelAgain(l) PROVE RowsAgree'
  BY <1>11 DEF CancelAgain, AllDirsReleased, ReadBy, RowsAgree, Key, Typed, leases, disk,
     children
<1>12. ASSUME NEW l \in Launchers, EndCancelled(l) PROVE RowsAgree'
  BY <1>12 DEF EndCancelled, AllDirsReleased, WriterReleased, RowsAgree, Key, Typed, leases,
     disk, children
<1>13. ASSUME NEW l \in Launchers, NEW d \in Dirs, Begin(l, d) PROVE RowsAgree'
  <2>1. PICK at \in {"described", "ok"} : task' = [task EXCEPT ![l][d] = at]
    BY <1>13 DEF Begin
  <2>2. UNCHANGED << pc, pending, toBuild, rows >>
    BY <1>13 DEF Begin
  <2>. QED  BY <2>1, <2>2 DEF RowsAgree, Key, Typed
<1>14. ASSUME NEW l \in Launchers, NEW d \in Dirs, Unlink(l, d) PROVE RowsAgree'
  BY <1>14 DEF Unlink, Unmarked, RowsAgree, Key, Typed, leases, disk, children
<1>15. ASSUME NEW l \in Launchers, NEW d \in Dirs, TakeSlot(l, d) PROVE RowsAgree'
  BY <1>15 DEF TakeSlot, RowsAgree, Key, Typed, leases, disk, children
<1>16. ASSUME NEW l \in Launchers, NEW d \in Dirs, Spawn(l, d) PROVE RowsAgree'
  <2>1. task' = [task EXCEPT ![l][d] = "up"] /\ pc[l] = "running" /\ task[l][d] # "none"
    BY <1>16 DEF Spawn
  <2>2. UNCHANGED << pc, pending, toBuild, rows >>
    BY <1>16 DEF Spawn
  <2>3. Key(l, d) \in rows
    BY <2>1 DEF PhaseAgrees, RowsAgree
  <2>. QED  BY <2>1, <2>2, <2>3 DEF RowsAgree, Key, Typed
<1>17. ASSUME NEW l \in Launchers, NEW d \in Dirs, Reap(l, d) PROVE RowsAgree'
  <2>1. PICK at \in {"analyzed", "failed"} : task' = [task EXCEPT ![l][d] = at]
    BY <1>17 DEF Reap
  <2>2. UNCHANGED << pc, pending, toBuild, rows >>
    BY <1>17 DEF Reap
  <2>. QED  BY <2>1, <2>2 DEF RowsAgree, Key, Typed
<1>18. ASSUME NEW l \in Launchers, NEW d \in Dirs, Finalize(l, d) PROVE RowsAgree'
  BY <1>18 DEF Finalize, DirReleased, RowsAgree, Key, Typed, leases, disk, children
<1>19. ASSUME NEW l \in Launchers, NEW d \in Dirs, TaskStopped(l, d) PROVE RowsAgree'
  BY <1>19 DEF TaskStopped, DirReleased, RowsAgree, Key, Typed, leases, disk, children
<1>20. ASSUME NEW l \in Launchers, BuilderEnds(l) PROVE RowsAgree'
  BY <1>20 DEF BuilderEnds, Alive, RowsAgree, Key, Typed, leases, disk, children
<1>21. ASSUME NEW l \in Launchers, NEW d \in Dirs, SimOpens(l, d) PROVE RowsAgree'
  BY <1>21 DEF SimOpens, NoOutput, RowsAgree, Key, Typed, leases, disk, children
<1>22. ASSUME NEW l \in Launchers, NEW d \in Dirs, SimEnds(l, d) PROVE RowsAgree'
  BY <1>22 DEF SimEnds, RowsAgree, Key, Typed, leases, disk, children
<1>23. ASSUME NEW l \in Launchers, Interrupt(l), InterruptPrebuild(l) PROVE RowsAgree'
  BY <1>23 DEF Interrupt, InterruptPrebuild, WriterReleased, ReadBy, Alive, RowsAgree, Key,
     Typed, leases, disk, children
<1>24. ASSUME NEW l \in Launchers, Interrupt(l), InterruptTasks(l) PROVE RowsAgree'
  <2>1. pc[l] = "running" /\ Cancel(l)
    BY <1>24 DEF InterruptTasks
  <2>2. pc' = [pc EXCEPT ![l] = "cancelling"] /\ UNCHANGED << pending, toBuild, rows >>
    BY <1>24 DEF Interrupt, InterruptTasks
  <2>3. \A m \in Launchers, q \in Dirs :
           task'[m][q] \in {"up", "stopping"} => task[m][q] \in {"up", "stopping"}
    BY <2>1, CancelledTasks
  <2>. QED  BY <2>2, <2>3 DEF RowsAgree, Key, Typed
<1>25. ASSUME NEW l \in Launchers, Kill(l) PROVE RowsAgree'
  BY <1>25 DEF Kill, AllDirsReleased, ReadBy, WriterReleased, RowsAgree, Key, Typed, leases,
     disk, children
<1>26. ASSUME NEW l \in Launchers, NEW d \in Dirs, SpawnRaises(l, d) PROVE RowsAgree'
  <2>1. pc[l] = "running" /\ Cancel(l)
    BY <1>26 DEF SpawnRaises
  <2>2. pc' = [pc EXCEPT ![l] = "raising"] /\ UNCHANGED << pending, toBuild, rows >>
    BY <1>26 DEF SpawnRaises
  <2>3. \A m \in Launchers, q \in Dirs :
           task'[m][q] \in {"up", "stopping"} => task[m][q] \in {"up", "stopping"}
    BY <2>1, CancelledTasks
  <2>. QED  BY <2>2, <2>3 DEF RowsAgree, Key, Typed
<1>27. CASE UNCHANGED vars
  BY <1>27 DEF vars, leases, disk, children, RowsAgree, Key
<1>. QED
  BY <1>1, <1>2, <1>3, <1>4, <1>5, <1>6, <1>6a, <1>7, <1>8, <1>9, <1>10, <1>11, <1>12, <1>13, <1>14,
     <1>15, <1>16, <1>17, <1>18, <1>19, <1>20, <1>21, <1>22, <1>23, <1>24, <1>25, <1>26, <1>27
     DEF Next, Proceed, Child, TaskStep, Interrupt


\* What a task wrote stays while it holds the lease.
LEMMA RecordStep ==
    ASSUME Typed, PhaseAgrees, DirLeases, RecordAgrees, [Next]_vars
    PROVE  RecordAgrees'
<1>1. ASSUME NEW l \in Launchers, Open(l) PROVE RecordAgrees'
  <2>1. \A m \in Launchers, q \in Dirs : task[m][q] \in HasDir /\ Live(m)' => Live(m)
    BY <1>1 DEF Open, PhaseAgrees, Live, HasDir, Typed
  <2>2. UNCHANGED << task, meta, marker >>
    BY <1>1 DEF Open, disk
  <2>. QED  BY <2>1, <2>2 DEF RecordAgrees
<1>2. ASSUME NEW l \in Launchers, StartProbe(l) PROVE RecordAgrees'
  BY <1>2 DEF StartProbe, Probe, RecordAgrees, Live, HasDir, Typed, leases, disk, children
<1>3. ASSUME NEW l \in Launchers, EndProbe(l) PROVE RecordAgrees'
  BY <1>3 DEF EndProbe, Probe, RecordAgrees, Live, HasDir, Typed, leases, disk, children
<1>4. ASSUME NEW l \in Launchers, StartBuilding(l) PROVE RecordAgrees'
  BY <1>4 DEF StartBuilding, RecordAgrees, Live, HasDir, Typed, leases, disk, children
<1>5. ASSUME NEW l \in Launchers, NEW k \in Keys, SkipBuilt(l, k) PROVE RecordAgrees'
  BY <1>5 DEF SkipBuilt, RecordAgrees, Live, HasDir, Typed, leases, disk, children
<1>6. ASSUME NEW l \in Launchers, NEW k \in Keys, FindMissing(l, k) PROVE RecordAgrees'
  BY <1>6 DEF FindMissing, RecordAgrees, Live, HasDir, Typed, leases, disk, children
<1>6a. ASSUME NEW l \in Launchers, SpawnBuilder(l) PROVE RecordAgrees'
  BY <1>6a DEF SpawnBuilder, RecordAgrees, Live, HasDir, Typed, leases, disk, children
<1>7. ASSUME NEW l \in Launchers, Verified(l) PROVE RecordAgrees'
  BY <1>7 DEF Verified, RecordAgrees, Live, HasDir, Typed, leases, disk, children
<1>8. ASSUME NEW l \in Launchers, FailBuilding(l) PROVE RecordAgrees'
  BY <1>8 DEF FailBuilding, AfterBuilding, WriterReleased, RecordAgrees, Live, HasDir, Typed,
     leases, disk, children
<1>9. ASSUME NEW l \in Launchers, EndBuilding(l) PROVE RecordAgrees'
  BY <1>9 DEF EndBuilding, AfterBuilding, WriterReleased, RecordAgrees, Live, HasDir, Typed,
     leases, disk, children
<1>10. ASSUME NEW l \in Launchers, Close(l) PROVE RecordAgrees'
  BY <1>10 DEF Close, AllDirsReleased, RecordAgrees, Live, HasDir, Typed, leases, disk, children
<1>11. ASSUME NEW l \in Launchers, CancelAgain(l) PROVE RecordAgrees'
  BY <1>11 DEF CancelAgain, AllDirsReleased, ReadBy, RecordAgrees, Live, HasDir, Typed,
     leases, disk, children
<1>12. ASSUME NEW l \in Launchers, EndCancelled(l) PROVE RecordAgrees'
  BY <1>12 DEF EndCancelled, AllDirsReleased, WriterReleased, RecordAgrees, Live, HasDir,
     Typed, leases, disk, children
<1>13. ASSUME NEW l \in Launchers, NEW d \in Dirs, Begin(l, d) PROVE RecordAgrees'
  <2>1. PICK at \in {"described", "ok"} :
            /\ task' = [task EXCEPT ![l][d] = at]
            /\ at = "described" => meta' = [meta EXCEPT ![d] = Asked[l]]
            /\ at = "ok" => meta' = meta
    BY <1>13 DEF Begin
  <2>2. UNCHANGED << pc, marker >>
    BY <1>13 DEF Begin
  <2>3. holder[d] \in {l, Nobody} /\ pc[l] = "running"
    BY <1>13 DEF Begin
  <2>4. ASSUME NEW m \in Launchers, NEW q \in Dirs, Live(m), task'[m][q] \in HasDir
        PROVE  /\ meta'[q] = Asked[m]
               /\ task'[m][q] # "described" => ~marker[q]
    <3>1. CASE m = l /\ q = d
      BY <3>1, <2>1, <2>4 DEF HasDir, Typed
    <3>2. CASE q # d
      BY <3>2, <2>1, <2>4 DEF RecordAgrees, Typed
    <3>3. CASE m # l /\ q = d
      <4>1. task[m][d] \in HasDir
        BY <3>3, <2>1, <2>4 DEF Typed
      <4>2. holder[d] = m
        BY <4>1, <2>4, <3>3 DEF DirLeases
      <4>. QED  BY <4>2, <2>3, <3>3, Constants
    <3>. QED  BY <3>1, <3>2, <3>3
  <2>. QED  BY <2>2, <2>4 DEF RecordAgrees, Live
<1>14. ASSUME NEW l \in Launchers, NEW d \in Dirs, Unlink(l, d) PROVE RecordAgrees'
  BY <1>14 DEF Unlink, Unmarked, RecordAgrees, Live, HasDir, Typed, leases, disk, children
<1>15. ASSUME NEW l \in Launchers, NEW d \in Dirs, TakeSlot(l, d) PROVE RecordAgrees'
  BY <1>15 DEF TakeSlot, RecordAgrees, Live, HasDir, Typed, leases, disk, children
<1>16. ASSUME NEW l \in Launchers, NEW d \in Dirs, Spawn(l, d) PROVE RecordAgrees'
  BY <1>16 DEF Spawn, RecordAgrees, Live, HasDir, Typed, leases, disk, children
<1>17. ASSUME NEW l \in Launchers, NEW d \in Dirs, Reap(l, d) PROVE RecordAgrees'
  <2>1. PICK at \in {"analyzed", "failed"} : task' = [task EXCEPT ![l][d] = at]
    BY <1>17 DEF Reap
  <2>2. UNCHANGED << pc, meta, marker >> /\ task[l][d] = "up"
    BY <1>17 DEF Reap, disk
  <2>. QED  BY <2>1, <2>2 DEF RecordAgrees, Live, HasDir, Typed
<1>18. ASSUME NEW l \in Launchers, NEW d \in Dirs, Finalize(l, d) PROVE RecordAgrees'
  <2>1. task' = [task EXCEPT ![l][d] = "ok"] /\ marker' = [marker EXCEPT ![d] = TRUE]
    BY <1>18 DEF Finalize
  <2>2. UNCHANGED << pc, meta >> /\ pc[l] = "running" /\ task[l][d] = "analyzed"
    BY <1>18 DEF Finalize
  <2>3. holder[d] = l
    BY <2>2 DEF DirLeases, Live, HasDir
  <2>4. ASSUME NEW m \in Launchers, NEW q \in Dirs, Live(m), task'[m][q] \in HasDir
        PROVE  task[m][q] = task'[m][q] /\ q # d
    <3>1. ~(m = l /\ q = d) /\ task'[m][q] = task[m][q]
      BY <2>1, <2>4 DEF HasDir, Typed
    <3>2. holder[q] = m
      BY <3>1, <2>4 DEF DirLeases
    <3>. QED  BY <3>1, <3>2, <2>3
  <2>. QED  BY <2>1, <2>2, <2>4 DEF RecordAgrees, Live, Typed
<1>19. ASSUME NEW l \in Launchers, NEW d \in Dirs, TaskStopped(l, d) PROVE RecordAgrees'
  BY <1>19 DEF TaskStopped, DirReleased, RecordAgrees, Live, HasDir, Typed, leases, disk,
     children
<1>20. ASSUME NEW l \in Launchers, BuilderEnds(l) PROVE RecordAgrees'
  BY <1>20 DEF BuilderEnds, Alive, RecordAgrees, Live, HasDir, Typed, leases, disk, children
<1>21. ASSUME NEW l \in Launchers, NEW d \in Dirs, SimOpens(l, d) PROVE RecordAgrees'
  BY <1>21 DEF SimOpens, NoOutput, RecordAgrees, Live, HasDir, Typed, leases, disk, children
<1>22. ASSUME NEW l \in Launchers, NEW d \in Dirs, SimEnds(l, d) PROVE RecordAgrees'
  BY <1>22 DEF SimEnds, RecordAgrees, Live, HasDir, Typed, leases, disk, children
<1>23. ASSUME NEW l \in Launchers, Interrupt(l), InterruptPrebuild(l) PROVE RecordAgrees'
  BY <1>23 DEF Interrupt, InterruptPrebuild, WriterReleased, ReadBy, Alive, RecordAgrees,
     Live, HasDir, Typed, leases, disk, children
<1>24. ASSUME NEW l \in Launchers, Interrupt(l), InterruptTasks(l) PROVE RecordAgrees'
  <2>1. pc[l] = "running" /\ Cancel(l)
    BY <1>24 DEF InterruptTasks
  <2>2. pc' = [pc EXCEPT ![l] = "cancelling"] /\ UNCHANGED << meta, marker >>
    BY <1>24 DEF Interrupt, InterruptTasks, disk
  <2>3. \A m \in Launchers, q \in Dirs : task'[m][q] \in HasDir =>
           task[m][q] = task'[m][q] \/ task[m][q] = "up"
    BY <2>1, CancelledTasks DEF HasDir
  <2>4. \A m \in Launchers : Live(m)' => Live(m)
    BY <2>1, <2>2 DEF Live, Typed
  <2>. QED  BY <2>2, <2>3, <2>4 DEF RecordAgrees, HasDir
<1>25. ASSUME NEW l \in Launchers, Kill(l) PROVE RecordAgrees'
  BY <1>25 DEF Kill, AllDirsReleased, ReadBy, WriterReleased, RecordAgrees, Live, HasDir,
     Typed, leases, disk, children
<1>26. ASSUME NEW l \in Launchers, NEW d \in Dirs, SpawnRaises(l, d) PROVE RecordAgrees'
  <2>1. pc[l] = "running" /\ Cancel(l)
    BY <1>26 DEF SpawnRaises
  <2>2. pc' = [pc EXCEPT ![l] = "raising"] /\ UNCHANGED << meta, marker >>
    BY <1>26 DEF SpawnRaises, disk
  <2>3. \A m \in Launchers, q \in Dirs : task'[m][q] \in HasDir =>
           task[m][q] = task'[m][q] \/ task[m][q] = "up"
    BY <2>1, CancelledTasks DEF HasDir
  <2>4. \A m \in Launchers : Live(m)' => Live(m)
    BY <2>1, <2>2 DEF Live, Typed
  <2>. QED  BY <2>2, <2>3, <2>4 DEF RecordAgrees, HasDir
<1>27. CASE UNCHANGED vars
  BY <1>27 DEF vars, leases, disk, children, RecordAgrees, Live, HasDir
<1>. QED
  BY <1>1, <1>2, <1>3, <1>4, <1>5, <1>6, <1>6a, <1>7, <1>8, <1>9, <1>10, <1>11, <1>12, <1>13, <1>14,
     <1>15, <1>16, <1>17, <1>18, <1>19, <1>20, <1>21, <1>22, <1>23, <1>24, <1>25, <1>26, <1>27
     DEF Next, Proceed, Child, TaskStep, Interrupt


-----------------------------------------------------------------------------


\* No simulator runs that no task has started.
LEMMA SimsStep ==
    ASSUME Typed, PhaseAgrees, SimsAgree, [Next]_vars
    PROVE  SimsAgree'
<1>1. ASSUME NEW l \in Launchers, Open(l) PROVE SimsAgree'
  BY <1>1 DEF Open, SimsAgree, Alive, Typed, leases, disk, children
<1>2. ASSUME NEW l \in Launchers, StartProbe(l) PROVE SimsAgree'
  BY <1>2 DEF StartProbe, Probe, SimsAgree, Alive, Typed, leases, disk, children
<1>3. ASSUME NEW l \in Launchers, EndProbe(l) PROVE SimsAgree'
  BY <1>3 DEF EndProbe, Probe, SimsAgree, Alive, Typed, leases, disk, children
<1>4. ASSUME NEW l \in Launchers, StartBuilding(l) PROVE SimsAgree'
  BY <1>4 DEF StartBuilding, SimsAgree, Alive, Typed, leases, disk, children
<1>5. ASSUME NEW l \in Launchers, NEW k \in Keys, SkipBuilt(l, k) PROVE SimsAgree'
  BY <1>5 DEF SkipBuilt, SimsAgree, Alive, Typed, leases, disk, children
<1>6. ASSUME NEW l \in Launchers, NEW k \in Keys, FindMissing(l, k) PROVE SimsAgree'
  BY <1>6 DEF FindMissing, SimsAgree, Alive, Typed, leases, disk, children
<1>6a. ASSUME NEW l \in Launchers, SpawnBuilder(l) PROVE SimsAgree'
  BY <1>6a DEF SpawnBuilder, SimsAgree, Alive, Typed, leases, disk, children
<1>7. ASSUME NEW l \in Launchers, Verified(l) PROVE SimsAgree'
  BY <1>7 DEF Verified, SimsAgree, Alive, Typed, leases, disk, children
<1>8. ASSUME NEW l \in Launchers, FailBuilding(l) PROVE SimsAgree'
  BY <1>8 DEF FailBuilding, AfterBuilding, WriterReleased, SimsAgree, Alive, Typed, leases,
     disk, children
<1>9. ASSUME NEW l \in Launchers, EndBuilding(l) PROVE SimsAgree'
  BY <1>9 DEF EndBuilding, AfterBuilding, WriterReleased, SimsAgree, Alive, Typed, leases,
     disk, children
<1>10. ASSUME NEW l \in Launchers, Close(l) PROVE SimsAgree'
  BY <1>10 DEF Close, AllDirsReleased, SimsAgree, Alive, Typed, leases, disk, children
<1>11. ASSUME NEW l \in Launchers, CancelAgain(l) PROVE SimsAgree'
  BY <1>11 DEF CancelAgain, AllDirsReleased, ReadBy, SimsAgree, Alive, Typed, leases, disk,
     children
<1>12. ASSUME NEW l \in Launchers, EndCancelled(l) PROVE SimsAgree'
  BY <1>12 DEF EndCancelled, AllDirsReleased, WriterReleased, SimsAgree, Alive, Typed, leases,
     disk, children
<1>13. ASSUME NEW l \in Launchers, NEW d \in Dirs, Begin(l, d) PROVE SimsAgree'
  <2>1. PICK at \in {"described", "ok"} : task' = [task EXCEPT ![l][d] = at]
    BY <1>13 DEF Begin
  <2>2. sim' = sim /\ task[l][d] = "none"
    BY <1>13 DEF Begin, children
  <2>. QED  BY <2>1, <2>2 DEF SimsAgree, Alive, Ended, Typed
<1>14. ASSUME NEW l \in Launchers, NEW d \in Dirs, Unlink(l, d) PROVE SimsAgree'
  BY <1>14 DEF Unlink, Unmarked, SimsAgree, Alive, Typed, leases, disk, children
<1>15. ASSUME NEW l \in Launchers, NEW d \in Dirs, TakeSlot(l, d) PROVE SimsAgree'
  BY <1>15 DEF TakeSlot, SimsAgree, Alive, Typed, leases, disk, children
<1>16. ASSUME NEW l \in Launchers, NEW d \in Dirs, Spawn(l, d) PROVE SimsAgree'
  BY <1>16 DEF Spawn, SimsAgree, Alive, Typed, leases, disk, children
<1>17. ASSUME NEW l \in Launchers, NEW d \in Dirs, Reap(l, d) PROVE SimsAgree'
  <2>1. PICK at \in {"analyzed", "failed"} : task' = [task EXCEPT ![l][d] = at]
    BY <1>17 DEF Reap
  <2>2. sim' = sim /\ Ended(sim[l][d])
    BY <1>17 DEF Reap, children
  <2>. QED  BY <2>1, <2>2 DEF SimsAgree, Alive, Ended, Typed
<1>18. ASSUME NEW l \in Launchers, NEW d \in Dirs, Finalize(l, d) PROVE SimsAgree'
  BY <1>18 DEF Finalize, DirReleased, SimsAgree, Alive, Typed, leases, disk, children
<1>19. ASSUME NEW l \in Launchers, NEW d \in Dirs, TaskStopped(l, d) PROVE SimsAgree'
  <2>1. task' = [task EXCEPT ![l][d] = "cancelled"] /\ sim' = sim /\ Ended(sim[l][d])
    BY <1>19 DEF TaskStopped, children
  <2>. QED  BY <2>1 DEF SimsAgree, Alive, Ended, Typed
<1>20. ASSUME NEW l \in Launchers, BuilderEnds(l) PROVE SimsAgree'
  BY <1>20 DEF BuilderEnds, Alive, SimsAgree, Alive, Typed, leases, disk, children
<1>21. ASSUME NEW l \in Launchers, NEW d \in Dirs, SimOpens(l, d) PROVE SimsAgree'
  BY <1>21 DEF SimOpens, NoOutput, SimsAgree, Alive, Typed, leases, disk, children
<1>22. ASSUME NEW l \in Launchers, NEW d \in Dirs, SimEnds(l, d) PROVE SimsAgree'
  <2>1. \A m \in Launchers, q \in Dirs : Alive(sim'[m][q]) => Alive(sim[m][q])
    <3>1. PICK at \in {"ok", "failed"} : sim' = [sim EXCEPT ![l][d].at = at]
      BY <1>22 DEF SimEnds
    <3>2. ~Alive(sim'[l][d])
      BY <3>1 DEF Alive, Typed
    <3>3. \A m \in Launchers, q \in Dirs : ~(m = l /\ q = d) => sim'[m][q] = sim[m][q]
      BY <3>1 DEF Typed
    <3>. QED  BY <3>2, <3>3
  <2>2. task' = task
    BY <1>22 DEF SimEnds
  <2>. QED  BY <2>1, <2>2 DEF SimsAgree, Alive
<1>23. ASSUME NEW l \in Launchers, Interrupt(l), InterruptPrebuild(l) PROVE SimsAgree'
  BY <1>23 DEF Interrupt, InterruptPrebuild, WriterReleased, ReadBy, Alive, SimsAgree, Alive,
     Typed, leases, disk, children
<1>24. ASSUME NEW l \in Launchers, Interrupt(l), InterruptTasks(l) PROVE SimsAgree'
  <2>1. pc[l] = "running" /\ Cancel(l)
    BY <1>24 DEF InterruptTasks
  <2>2. \A m \in Launchers \ {l} : task'[m] = task[m] /\ sim'[m] = sim[m]
    BY <2>1 DEF Cancel, Typed
  <2>3. \A q \in Dirs : q \in Running(l) => task'[l][q] = "stopping"
    BY <2>1, CancelledTasks
  <2>4. \A q \in Dirs : q \notin Running(l) => ~Alive(sim[l][q])
    BY <2>1 DEF SimsAgree, PhaseAgrees, Running
  <2>5. \A q \in Dirs : q \notin Running(l) => sim'[l][q] = sim[l][q]
    BY <2>1 DEF Cancel, Typed
  <2>. QED  BY <2>2, <2>3, <2>4, <2>5 DEF SimsAgree, Alive
<1>25. ASSUME NEW l \in Launchers, Kill(l) PROVE SimsAgree'
  BY <1>25 DEF Kill, AllDirsReleased, ReadBy, WriterReleased, SimsAgree, Alive, Typed, leases,
     disk, children
<1>26. ASSUME NEW l \in Launchers, NEW d \in Dirs, SpawnRaises(l, d) PROVE SimsAgree'
  <2>1. pc[l] = "running" /\ Cancel(l)
    BY <1>26 DEF SpawnRaises
  <2>2. \A m \in Launchers \ {l} : task'[m] = task[m] /\ sim'[m] = sim[m]
    BY <2>1 DEF Cancel, Typed
  <2>3. \A q \in Dirs : q \in Running(l) => task'[l][q] = "stopping"
    BY <2>1, CancelledTasks
  <2>4. \A q \in Dirs : q \notin Running(l) => ~Alive(sim[l][q])
    BY <2>1 DEF SimsAgree, PhaseAgrees, Running
  <2>5. \A q \in Dirs : q \notin Running(l) => sim'[l][q] = sim[l][q]
    BY <2>1 DEF Cancel, Typed
  <2>. QED  BY <2>2, <2>3, <2>4, <2>5 DEF SimsAgree, Alive
<1>27. CASE UNCHANGED vars
  BY <1>27 DEF vars, leases, disk, children, SimsAgree, Alive
<1>. QED
  BY <1>1, <1>2, <1>3, <1>4, <1>5, <1>6, <1>6a, <1>7, <1>8, <1>9, <1>10, <1>11, <1>12, <1>13, <1>14,
     <1>15, <1>16, <1>17, <1>18, <1>19, <1>20, <1>21, <1>22, <1>23, <1>24, <1>25, <1>26, <1>27
     DEF Next, Proceed, Child, TaskStep, Interrupt


\* A simulator that was left behind stays so.
LEMMA LeftStays ==
    ASSUME Typed, PhaseAgrees, [Next]_vars
    PROVE  \A m \in Launchers, q \in Dirs : LeftBehind(m, q) => LeftBehind(m, q)'
<1>1. ASSUME NEW l \in Launchers, Open(l)
      PROVE  \A m \in Launchers, q \in Dirs : LeftBehind(m, q) => LeftBehind(m, q)'
  BY <1>1 DEF Open, LeftBehind, Typed, leases, disk, children
<1>2. ASSUME NEW l \in Launchers, StartProbe(l)
      PROVE  \A m \in Launchers, q \in Dirs : LeftBehind(m, q) => LeftBehind(m, q)'
  BY <1>2 DEF StartProbe, Probe, LeftBehind, Typed, leases, disk, children
<1>3. ASSUME NEW l \in Launchers, EndProbe(l)
      PROVE  \A m \in Launchers, q \in Dirs : LeftBehind(m, q) => LeftBehind(m, q)'
  BY <1>3 DEF EndProbe, Probe, LeftBehind, Typed, leases, disk, children
<1>4. ASSUME NEW l \in Launchers, StartBuilding(l)
      PROVE  \A m \in Launchers, q \in Dirs : LeftBehind(m, q) => LeftBehind(m, q)'
  BY <1>4 DEF StartBuilding, LeftBehind, Typed, leases, disk, children
<1>5. ASSUME NEW l \in Launchers, NEW k \in Keys, SkipBuilt(l, k)
      PROVE  \A m \in Launchers, q \in Dirs : LeftBehind(m, q) => LeftBehind(m, q)'
  BY <1>5 DEF SkipBuilt, LeftBehind, Typed, leases, disk, children
<1>6. ASSUME NEW l \in Launchers, NEW k \in Keys, FindMissing(l, k)
      PROVE  \A m \in Launchers, q \in Dirs : LeftBehind(m, q) => LeftBehind(m, q)'
  BY <1>6 DEF FindMissing, LeftBehind, Typed, leases, disk, children
<1>6a. ASSUME NEW l \in Launchers, SpawnBuilder(l)
      PROVE  \A m \in Launchers, q \in Dirs : LeftBehind(m, q) => LeftBehind(m, q)'
  BY <1>6a DEF SpawnBuilder, LeftBehind, Typed, leases, disk, children
<1>7. ASSUME NEW l \in Launchers, Verified(l)
      PROVE  \A m \in Launchers, q \in Dirs : LeftBehind(m, q) => LeftBehind(m, q)'
  BY <1>7 DEF Verified, LeftBehind, Typed, leases, disk, children
<1>8. ASSUME NEW l \in Launchers, FailBuilding(l)
      PROVE  \A m \in Launchers, q \in Dirs : LeftBehind(m, q) => LeftBehind(m, q)'
  BY <1>8 DEF FailBuilding, AfterBuilding, WriterReleased, LeftBehind, Typed, leases, disk,
     children
<1>9. ASSUME NEW l \in Launchers, EndBuilding(l)
      PROVE  \A m \in Launchers, q \in Dirs : LeftBehind(m, q) => LeftBehind(m, q)'
  BY <1>9 DEF EndBuilding, AfterBuilding, WriterReleased, LeftBehind, Typed, leases, disk,
     children
<1>10. ASSUME NEW l \in Launchers, Close(l)
       PROVE  \A m \in Launchers, q \in Dirs : LeftBehind(m, q) => LeftBehind(m, q)'
  BY <1>10 DEF Close, AllDirsReleased, LeftBehind, Typed, leases, disk, children
<1>11. ASSUME NEW l \in Launchers, CancelAgain(l)
       PROVE  \A m \in Launchers, q \in Dirs : LeftBehind(m, q) => LeftBehind(m, q)'
  BY <1>11 DEF CancelAgain, AllDirsReleased, ReadBy, LeftBehind, Typed, leases, disk, children
<1>12. ASSUME NEW l \in Launchers, EndCancelled(l)
       PROVE  \A m \in Launchers, q \in Dirs : LeftBehind(m, q) => LeftBehind(m, q)'
  BY <1>12 DEF EndCancelled, AllDirsReleased, WriterReleased, LeftBehind, Typed, leases, disk,
     children
<1>13. ASSUME NEW l \in Launchers, NEW d \in Dirs, Begin(l, d)
       PROVE  \A m \in Launchers, q \in Dirs : LeftBehind(m, q) => LeftBehind(m, q)'
  <2>1. PICK at \in {"described", "ok"} : task' = [task EXCEPT ![l][d] = at]
    BY <1>13 DEF Begin
  <2>2. UNCHANGED pc /\ pc[l] = "running" /\ task[l][d] # "left"
    BY <1>13 DEF Begin
  <2>. QED  BY <2>1, <2>2 DEF LeftBehind, Typed
<1>14. ASSUME NEW l \in Launchers, NEW d \in Dirs, Unlink(l, d)
       PROVE  \A m \in Launchers, q \in Dirs : LeftBehind(m, q) => LeftBehind(m, q)'
  BY <1>14 DEF Unlink, Unmarked, LeftBehind, Typed, leases, disk, children
<1>15. ASSUME NEW l \in Launchers, NEW d \in Dirs, TakeSlot(l, d)
       PROVE  \A m \in Launchers, q \in Dirs : LeftBehind(m, q) => LeftBehind(m, q)'
  BY <1>15 DEF TakeSlot, LeftBehind, Typed, leases, disk, children
<1>16. ASSUME NEW l \in Launchers, NEW d \in Dirs, Spawn(l, d)
       PROVE  \A m \in Launchers, q \in Dirs : LeftBehind(m, q) => LeftBehind(m, q)'
  BY <1>16 DEF Spawn, LeftBehind, Typed, leases, disk, children
<1>17. ASSUME NEW l \in Launchers, NEW d \in Dirs, Reap(l, d)
       PROVE  \A m \in Launchers, q \in Dirs : LeftBehind(m, q) => LeftBehind(m, q)'
  <2>1. PICK at \in {"analyzed", "failed"} : task' = [task EXCEPT ![l][d] = at]
    BY <1>17 DEF Reap
  <2>2. UNCHANGED pc /\ pc[l] = "running" /\ task[l][d] # "left"
    BY <1>17 DEF Reap
  <2>. QED  BY <2>1, <2>2 DEF LeftBehind, Typed
<1>18. ASSUME NEW l \in Launchers, NEW d \in Dirs, Finalize(l, d)
       PROVE  \A m \in Launchers, q \in Dirs : LeftBehind(m, q) => LeftBehind(m, q)'
  BY <1>18 DEF Finalize, DirReleased, LeftBehind, Typed, leases, disk, children
<1>19. ASSUME NEW l \in Launchers, NEW d \in Dirs, TaskStopped(l, d)
       PROVE  \A m \in Launchers, q \in Dirs : LeftBehind(m, q) => LeftBehind(m, q)'
  BY <1>19 DEF TaskStopped, DirReleased, LeftBehind, Typed, leases, disk, children
<1>20. ASSUME NEW l \in Launchers, BuilderEnds(l)
       PROVE  \A m \in Launchers, q \in Dirs : LeftBehind(m, q) => LeftBehind(m, q)'
  BY <1>20 DEF BuilderEnds, Alive, LeftBehind, Typed, leases, disk, children
<1>21. ASSUME NEW l \in Launchers, NEW d \in Dirs, SimOpens(l, d)
       PROVE  \A m \in Launchers, q \in Dirs : LeftBehind(m, q) => LeftBehind(m, q)'
  BY <1>21 DEF SimOpens, NoOutput, LeftBehind, Typed, leases, disk, children
<1>22. ASSUME NEW l \in Launchers, NEW d \in Dirs, SimEnds(l, d)
       PROVE  \A m \in Launchers, q \in Dirs : LeftBehind(m, q) => LeftBehind(m, q)'
  BY <1>22 DEF SimEnds, LeftBehind, Typed, leases, disk, children
<1>23. ASSUME NEW l \in Launchers, Interrupt(l), InterruptPrebuild(l)
       PROVE  \A m \in Launchers, q \in Dirs : LeftBehind(m, q) => LeftBehind(m, q)'
  BY <1>23 DEF Interrupt, InterruptPrebuild, WriterReleased, ReadBy, Alive, LeftBehind, Typed,
     leases, disk, children
<1>24. ASSUME NEW l \in Launchers, Interrupt(l), InterruptTasks(l)
       PROVE  \A m \in Launchers, q \in Dirs : LeftBehind(m, q) => LeftBehind(m, q)'
  <2>1. pc[l] = "running" /\ Cancel(l)
    BY <1>24 DEF InterruptTasks
  <2>2. \A m \in Launchers \ {l} : task'[m] = task[m] /\ pc'[m] = pc[m]
    BY <1>24, <2>1, CancelledTasks DEF Interrupt, Typed
  <2>3. \A q \in Dirs : ~LeftBehind(l, q)
    BY <2>1 DEF LeftBehind, PhaseAgrees
  <2>. QED  BY <2>2, <2>3 DEF LeftBehind
<1>25. ASSUME NEW l \in Launchers, Kill(l)
       PROVE  \A m \in Launchers, q \in Dirs : LeftBehind(m, q) => LeftBehind(m, q)'
  BY <1>25 DEF Kill, AllDirsReleased, ReadBy, WriterReleased, LeftBehind, Typed, leases, disk,
     children
<1>26. ASSUME NEW l \in Launchers, NEW d \in Dirs, SpawnRaises(l, d)
       PROVE  \A m \in Launchers, q \in Dirs : LeftBehind(m, q) => LeftBehind(m, q)'
  <2>1. pc[l] = "running" /\ Cancel(l)
    BY <1>26 DEF SpawnRaises
  <2>2. \A m \in Launchers \ {l} : task'[m] = task[m] /\ pc'[m] = pc[m]
    BY <1>26, <2>1, CancelledTasks DEF SpawnRaises, Typed
  <2>3. \A q \in Dirs : ~LeftBehind(l, q)
    BY <2>1 DEF LeftBehind, PhaseAgrees
  <2>. QED  BY <2>2, <2>3 DEF LeftBehind
<1>27. CASE UNCHANGED vars
  BY <1>27 DEF vars, leases, disk, children, LeftBehind
<1>. QED
  BY <1>1, <1>2, <1>3, <1>4, <1>5, <1>6, <1>6a, <1>7, <1>8, <1>9, <1>10, <1>11, <1>12, <1>13, <1>14,
     <1>15, <1>16, <1>17, <1>18, <1>19, <1>20, <1>21, <1>22, <1>23, <1>24, <1>25, <1>26, <1>27
     DEF Next, Proceed, Child, TaskStep, Interrupt

\* What nobody has left behind after a step nobody had before it.
LEMMA NoneLeftBefore ==
    ASSUME Typed, PhaseAgrees, [Next]_vars
    PROVE  \A q \in Dirs : NoneLeft(q)' => NoneLeft(q)
BY LeftStays DEF NoneLeft

\* While a task holds the lease of its log_dir, no simulator writes there but its own
\* and those that were left behind; and where a launcher waits for one is no marker.
LEMMA OneWriter ==
    ASSUME Typed, PhaseAgrees, DirLeases, RecordAgrees, SimsAgree,
           NEW m \in Launchers, NEW q \in Dirs, Alive(sim[m][q]), ~LeftBehind(m, q)
    PROVE  /\ task[m][q] \in {"up", "stopping"} /\ Live(m) /\ ~marker[q]
           /\ \A l \in Launchers : Live(l) /\ task[l][q] \in HasDir => l = m
<1>1. task[m][q] \in {"up", "stopping"} /\ pc[m] # "killed"
  BY DEF SimsAgree, LeftBehind
<1>2. Live(m)
  BY <1>1 DEF PhaseAgrees, Live
<1>3. ~marker[q]
  BY <1>1, <1>2 DEF RecordAgrees, HasDir
<1>4. \A l \in Launchers : Live(l) /\ task[l][q] \in HasDir => l = m
  BY <1>1, <1>2 DEF DirLeases, HasDir
<1>. QED  BY <1>1, <1>2, <1>3, <1>4


-----------------------------------------------------------------------------


\* Complete runs are begun again where that was asked for.
LEMMA NeedStep ==
    ASSUME Typed, PhaseAgrees, DirLeases, RecordAgrees, SimsAgree, NeedAgrees, [Next]_vars
    PROVE  NeedAgrees'
<1>a. \A q \in Dirs : NoneLeft(q)' => NoneLeft(q)
  BY NoneLeftBefore
<1>. USE <1>a
<1>1. ASSUME NEW l \in Launchers, Open(l) PROVE NeedAgrees'
  <2>1. \A m \in Launchers, q \in Dirs : task[m][q] \in HasDir /\ Live(m)' => Live(m)
    BY <1>1 DEF Open, PhaseAgrees, Live, HasDir, Typed
  <2>2. UNCHANGED << task, out, marker >>
    BY <1>1 DEF Open, disk
  <2>. QED  BY <2>1, <2>2 DEF NeedAgrees, IsComplete, IsValid, HasDir
<1>2. ASSUME NEW l \in Launchers, StartProbe(l) PROVE NeedAgrees'
  BY <1>2 DEF StartProbe, Probe, NeedAgrees, Live, IsComplete, IsValid, Typed, leases, disk,
     children
<1>3. ASSUME NEW l \in Launchers, EndProbe(l) PROVE NeedAgrees'
  BY <1>3 DEF EndProbe, Probe, NeedAgrees, Live, IsComplete, IsValid, Typed, leases, disk,
     children
<1>4. ASSUME NEW l \in Launchers, StartBuilding(l) PROVE NeedAgrees'
  BY <1>4 DEF StartBuilding, NeedAgrees, Live, IsComplete, IsValid, Typed, leases, disk,
     children
<1>5. ASSUME NEW l \in Launchers, NEW k \in Keys, SkipBuilt(l, k) PROVE NeedAgrees'
  BY <1>5 DEF SkipBuilt, NeedAgrees, Live, IsComplete, IsValid, Typed, leases, disk, children
<1>6. ASSUME NEW l \in Launchers, NEW k \in Keys, FindMissing(l, k) PROVE NeedAgrees'
  BY <1>6 DEF FindMissing, NeedAgrees, Live, IsComplete, IsValid, Typed, leases, disk, children
<1>6a. ASSUME NEW l \in Launchers, SpawnBuilder(l) PROVE NeedAgrees'
  BY <1>6a DEF SpawnBuilder, NeedAgrees, Live, IsComplete, IsValid, Typed, leases, disk, children
<1>7. ASSUME NEW l \in Launchers, Verified(l) PROVE NeedAgrees'
  BY <1>7 DEF Verified, NeedAgrees, Live, IsComplete, IsValid, Typed, leases, disk, children
<1>8. ASSUME NEW l \in Launchers, FailBuilding(l) PROVE NeedAgrees'
  BY <1>8 DEF FailBuilding, AfterBuilding, WriterReleased, NeedAgrees, Live, IsComplete,
     IsValid, Typed, leases, disk, children
<1>9. ASSUME NEW l \in Launchers, EndBuilding(l) PROVE NeedAgrees'
  BY <1>9 DEF EndBuilding, AfterBuilding, WriterReleased, NeedAgrees, Live, IsComplete,
     IsValid, Typed, leases, disk, children
<1>10. ASSUME NEW l \in Launchers, Close(l) PROVE NeedAgrees'
  BY <1>10 DEF Close, AllDirsReleased, NeedAgrees, Live, IsComplete, IsValid, Typed, leases,
     disk, children
<1>11. ASSUME NEW l \in Launchers, CancelAgain(l) PROVE NeedAgrees'
  BY <1>11 DEF CancelAgain, AllDirsReleased, ReadBy, NeedAgrees, Live, IsComplete, IsValid,
     Typed, leases, disk, children
<1>12. ASSUME NEW l \in Launchers, EndCancelled(l) PROVE NeedAgrees'
  BY <1>12 DEF EndCancelled, AllDirsReleased, WriterReleased, NeedAgrees, Live, IsComplete,
     IsValid, Typed, leases, disk, children
<1>13. ASSUME NEW l \in Launchers, NEW d \in Dirs, Begin(l, d) PROVE NeedAgrees'
  <2>1. PICK at \in {"described", "ok"} :
            /\ task' = [task EXCEPT ![l][d] = at]
            /\ at = "described" => NeedsRun(l, d)
    BY <1>13 DEF Begin, StillNeeded
  <2>2. UNCHANGED << pc, out, marker >>
    BY <1>13 DEF Begin
  <2>. QED  BY <2>1, <2>2 DEF NeedAgrees, NeedsRun, Live, IsComplete, IsValid, Typed
<1>14. ASSUME NEW l \in Launchers, NEW d \in Dirs, Unlink(l, d) PROVE NeedAgrees'
  BY <1>14 DEF Unlink, Unmarked, NeedAgrees, Live, IsComplete, IsValid, Typed, leases, disk,
     children
<1>15. ASSUME NEW l \in Launchers, NEW d \in Dirs, TakeSlot(l, d) PROVE NeedAgrees'
  BY <1>15 DEF TakeSlot, NeedAgrees, Live, IsComplete, IsValid, Typed, leases, disk, children
<1>16. ASSUME NEW l \in Launchers, NEW d \in Dirs, Spawn(l, d) PROVE NeedAgrees'
  BY <1>16 DEF Spawn, NeedAgrees, Live, IsComplete, IsValid, Typed, leases, disk, children
<1>17. ASSUME NEW l \in Launchers, NEW d \in Dirs, Reap(l, d) PROVE NeedAgrees'
  <2>1. PICK at \in {"analyzed", "failed"} : task' = [task EXCEPT ![l][d] = at]
    BY <1>17 DEF Reap
  <2>2. UNCHANGED << pc, out, marker >>
    BY <1>17 DEF Reap, disk
  <2>. QED  BY <2>1, <2>2 DEF NeedAgrees, Live, IsComplete, IsValid, Typed
<1>18. ASSUME NEW l \in Launchers, NEW d \in Dirs, Finalize(l, d) PROVE NeedAgrees'
  <2>1. task' = [task EXCEPT ![l][d] = "ok"] /\ marker' = [marker EXCEPT ![d] = TRUE]
    BY <1>18 DEF Finalize
  <2>2. UNCHANGED << pc, out >> /\ pc[l] = "running" /\ task[l][d] = "analyzed"
    BY <1>18 DEF Finalize
  <2>3. holder[d] = l
    BY <2>2 DEF DirLeases, Live, HasDir
  <2>4. ASSUME NEW m \in Launchers, NEW q \in Dirs, Live(m), task'[m][q] = "described"
        PROVE  task[m][q] = "described" /\ q # d
    <3>1. task[m][q] = "described"
      BY <2>1, <2>4 DEF Typed
    <3>2. holder[q] = m
      BY <3>1, <2>4 DEF DirLeases, HasDir
    <3>. QED  BY <3>1, <3>2, <2>2, <2>3
  <2>. QED  BY <2>1, <2>2, <2>4 DEF NeedAgrees, Live, IsComplete, IsValid, Typed
<1>19. ASSUME NEW l \in Launchers, NEW d \in Dirs, TaskStopped(l, d) PROVE NeedAgrees'
  BY <1>19 DEF TaskStopped, DirReleased, NeedAgrees, Live, IsComplete, IsValid, Typed, leases,
     disk, children
<1>20. ASSUME NEW l \in Launchers, BuilderEnds(l) PROVE NeedAgrees'
  BY <1>20 DEF BuilderEnds, Alive, NeedAgrees, Live, IsComplete, IsValid, Typed, leases, disk,
     children
<1>21. ASSUME NEW l \in Launchers, NEW d \in Dirs, SimOpens(l, d) PROVE NeedAgrees'
  <2>1. PICK whole \in {FALSE, IsValid(d)} :
            out' = [out EXCEPT ![d] = [cfg |-> meta[d], whole |-> whole, clean |-> FALSE]]
    BY <1>21 DEF SimOpens
  <2>2. UNCHANGED << pc, task, marker >>
    BY <1>21 DEF SimOpens
  <2>3. \A q \in Dirs : IsValid(q)' => IsValid(q)
    BY <2>1 DEF IsValid, Typed
  <2>. QED  BY <2>2, <2>3 DEF NeedAgrees, Live, IsComplete
<1>22. ASSUME NEW l \in Launchers, NEW d \in Dirs, SimEnds(l, d) PROVE NeedAgrees'
  <2>1. Alive(sim[l][d]) /\ \A q \in Dirs \ {d} : out'[q] = out[q]
    BY <1>22 DEF SimEnds, Typed
  <2>2. UNCHANGED << pc, task, marker >>
    BY <1>22 DEF SimEnds
  <2>3. ASSUME NEW m \in Launchers, Live(m), task[m][d] = "described", NoneLeft(d)
        PROVE  FALSE
    BY <2>1, <2>3, OneWriter DEF NoneLeft, HasDir
  <2>. QED  BY <2>1, <2>2, <2>3 DEF NeedAgrees, Live, IsComplete, IsValid
<1>23. ASSUME NEW l \in Launchers, Interrupt(l), InterruptPrebuild(l) PROVE NeedAgrees'
  BY <1>23 DEF Interrupt, InterruptPrebuild, WriterReleased, ReadBy, Alive, NeedAgrees, Live,
     IsComplete, IsValid, Typed, leases, disk, children
<1>24. ASSUME NEW l \in Launchers, Interrupt(l), InterruptTasks(l) PROVE NeedAgrees'
  BY <1>24 DEF Interrupt, InterruptTasks, DirReleased, Cancel, NeedAgrees, Live, IsComplete,
     IsValid, Typed, leases, disk, children
<1>25. ASSUME NEW l \in Launchers, Kill(l) PROVE NeedAgrees'
  BY <1>25 DEF Kill, AllDirsReleased, ReadBy, WriterReleased, NeedAgrees, Live, IsComplete,
     IsValid, Typed, leases, disk, children
<1>26. ASSUME NEW l \in Launchers, NEW d \in Dirs, SpawnRaises(l, d) PROVE NeedAgrees'
  BY <1>26 DEF SpawnRaises, DirReleased, Cancel, NeedAgrees, Live, IsComplete, IsValid, Typed,
     leases, disk, children
<1>27. CASE UNCHANGED vars
  BY <1>27 DEF vars, leases, disk, children, NeedAgrees, Live, IsComplete, IsValid
<1>. QED
  BY <1>1, <1>2, <1>3, <1>4, <1>5, <1>6, <1>6a, <1>7, <1>8, <1>9, <1>10, <1>11, <1>12, <1>13, <1>14,
     <1>15, <1>16, <1>17, <1>18, <1>19, <1>20, <1>21, <1>22, <1>23, <1>24, <1>25, <1>26, <1>27
     DEF Next, Proceed, Child, TaskStep, Interrupt


\* What a simulator wrote stays until its task has ended.
LEMMA OutputStep ==
    ASSUME Typed, PhaseAgrees, DirLeases, RecordAgrees, SimsAgree, OutputAgrees, [Next]_vars
    PROVE  OutputAgrees'
<1>a. \A q \in Dirs : NoneLeft(q)' => NoneLeft(q)
  BY NoneLeftBefore
<1>. USE <1>a
<1>1. ASSUME NEW l \in Launchers, Open(l) PROVE OutputAgrees'
  <2>1. \A m \in Launchers, q \in Dirs : task[m][q] \in HasDir /\ Live(m)' => Live(m)
    BY <1>1 DEF Open, PhaseAgrees, Live, HasDir, Typed
  <2>2. UNCHANGED << task, sim, out >>
    BY <1>1 DEF Open, disk
  <2>. QED  BY <2>1, <2>2 DEF OutputAgrees, HasDir
<1>2. ASSUME NEW l \in Launchers, StartProbe(l) PROVE OutputAgrees'
  BY <1>2 DEF StartProbe, Probe, OutputAgrees, Live, Typed, leases, disk, children
<1>3. ASSUME NEW l \in Launchers, EndProbe(l) PROVE OutputAgrees'
  BY <1>3, ZenonT(30) DEF EndProbe, Probe, OutputAgrees, Live, Typed, leases, disk, children
<1>4. ASSUME NEW l \in Launchers, StartBuilding(l) PROVE OutputAgrees'
  BY <1>4 DEF StartBuilding, OutputAgrees, Live, Typed, leases, disk, children
<1>5. ASSUME NEW l \in Launchers, NEW k \in Keys, SkipBuilt(l, k) PROVE OutputAgrees'
  BY <1>5 DEF SkipBuilt, OutputAgrees, Live, Typed, leases, disk, children
<1>6. ASSUME NEW l \in Launchers, NEW k \in Keys, FindMissing(l, k) PROVE OutputAgrees'
  BY <1>6 DEF FindMissing, OutputAgrees, Live, Typed, leases, disk, children
<1>6a. ASSUME NEW l \in Launchers, SpawnBuilder(l) PROVE OutputAgrees'
  BY <1>6a DEF SpawnBuilder, OutputAgrees, Live, Typed, leases, disk, children
<1>7. ASSUME NEW l \in Launchers, Verified(l) PROVE OutputAgrees'
  BY <1>7 DEF Verified, OutputAgrees, Live, Typed, leases, disk, children
<1>8. ASSUME NEW l \in Launchers, FailBuilding(l) PROVE OutputAgrees'
  BY <1>8 DEF FailBuilding, AfterBuilding, WriterReleased, OutputAgrees, Live, Typed, leases,
     disk, children
<1>9. ASSUME NEW l \in Launchers, EndBuilding(l) PROVE OutputAgrees'
  BY <1>9 DEF EndBuilding, AfterBuilding, WriterReleased, OutputAgrees, Live, Typed, leases,
     disk, children
<1>10. ASSUME NEW l \in Launchers, Close(l) PROVE OutputAgrees'
  BY <1>10 DEF Close, AllDirsReleased, OutputAgrees, Live, Typed, leases, disk, children
<1>11. ASSUME NEW l \in Launchers, CancelAgain(l) PROVE OutputAgrees'
  BY <1>11 DEF CancelAgain, AllDirsReleased, ReadBy, OutputAgrees, Live, Typed, leases, disk,
     children
<1>12. ASSUME NEW l \in Launchers, EndCancelled(l) PROVE OutputAgrees'
  BY <1>12 DEF EndCancelled, AllDirsReleased, WriterReleased, OutputAgrees, Live, Typed,
     leases, disk, children
<1>13. ASSUME NEW l \in Launchers, NEW d \in Dirs, Begin(l, d) PROVE OutputAgrees'
  <2>1. PICK at \in {"described", "ok"} : task' = [task EXCEPT ![l][d] = at]
    BY <1>13 DEF Begin
  <2>2. UNCHANGED << pc, sim, out >>
    BY <1>13 DEF Begin, children
  <2>. QED  BY <2>1, <2>2 DEF OutputAgrees, Live, Typed
<1>14. ASSUME NEW l \in Launchers, NEW d \in Dirs, Unlink(l, d) PROVE OutputAgrees'
  BY <1>14 DEF Unlink, Unmarked, OutputAgrees, Live, Typed, leases, disk, children
<1>15. ASSUME NEW l \in Launchers, NEW d \in Dirs, TakeSlot(l, d) PROVE OutputAgrees'
  BY <1>15 DEF TakeSlot, OutputAgrees, Live, Typed, leases, disk, children
<1>16. ASSUME NEW l \in Launchers, NEW d \in Dirs, Spawn(l, d) PROVE OutputAgrees'
  BY <1>16 DEF Spawn, OutputAgrees, Live, Typed, leases, disk, children
<1>17. ASSUME NEW l \in Launchers, NEW d \in Dirs, Reap(l, d) PROVE OutputAgrees'
  <2>1. PICK at \in {"analyzed", "failed"} :
            /\ task' = [task EXCEPT ![l][d] = at]
            /\ at = "analyzed" => sim[l][d].at = "ok"
    BY <1>17 DEF Reap
  <2>2. UNCHANGED << pc, sim, out >> /\ task[l][d] = "up"
    BY <1>17 DEF Reap, disk, children
  <2>. QED  BY <2>1, <2>2 DEF OutputAgrees, Live, Typed
<1>18. ASSUME NEW l \in Launchers, NEW d \in Dirs, Finalize(l, d) PROVE OutputAgrees'
  BY <1>18 DEF Finalize, DirReleased, OutputAgrees, Live, Typed, leases, disk, children
<1>19. ASSUME NEW l \in Launchers, NEW d \in Dirs, TaskStopped(l, d) PROVE OutputAgrees'
  BY <1>19 DEF TaskStopped, DirReleased, OutputAgrees, Live, Typed, leases, disk, children
<1>20. ASSUME NEW l \in Launchers, BuilderEnds(l) PROVE OutputAgrees'
  BY <1>20 DEF BuilderEnds, Alive, OutputAgrees, Live, Typed, leases, disk, children
<1>21. ASSUME NEW l \in Launchers, NEW d \in Dirs, SimOpens(l, d) PROVE OutputAgrees'
  <2>1. PICK o : sim' = [sim EXCEPT ![l][d] = [at |-> "writing", cfg |-> meta[d]]] /\ out' = [out EXCEPT ![d] = o]
    BY <1>21 DEF SimOpens
  <2>2. UNCHANGED << pc, task >> /\ Alive(sim[l][d])
    BY <1>21 DEF SimOpens, Alive
  <2>3. Live(l) /\ task[l][d] = "up" => meta[d] = Asked[l]
    BY DEF RecordAgrees, HasDir
  <2>4. ASSUME NEW m \in Launchers, Live(m), task[m][d] \in HasDir, NoneLeft(d)
        PROVE  m = l /\ task[l][d] # "analyzed"
    BY <2>2, <2>4, OneWriter DEF NoneLeft
  <2>5. /\ sim'[l][d].at = "writing" /\ sim'[l][d].cfg = meta[d]
        /\ \A m \in Launchers, q \in Dirs : ~(m = l /\ q = d) => sim'[m][q] = sim[m][q]
        /\ \A q \in Dirs \ {d} : out'[q] = out[q]
    BY <2>1 DEF Typed
  <2>. QED  BY <2>2, <2>3, <2>4, <2>5 DEF OutputAgrees, Live, HasDir
<1>22. ASSUME NEW l \in Launchers, NEW d \in Dirs, SimEnds(l, d) PROVE OutputAgrees'
  <2>1. Alive(sim[l][d]) /\ UNCHANGED << pc, task >> /\ \A q \in Dirs \ {d} : out'[q] = out[q]
    BY <1>22 DEF SimEnds, Typed
  <2>2. PICK at \in {"ok", "failed"} :
            /\ sim' = [sim EXCEPT ![l][d].at = at]
            /\ at = "ok" => /\ sim[l][d].at = "writing"
                           /\ out'[d] = [cfg |-> sim[l][d].cfg, whole |-> TRUE, clean |-> TRUE]
    BY <1>22 DEF SimEnds, Typed
  <2>3. /\ sim'[l][d].at = at
        /\ \A m \in Launchers, q \in Dirs : ~(m = l /\ q = d) => sim'[m][q] = sim[m][q]
    BY <2>2 DEF Typed
  <2>4. ASSUME NEW m \in Launchers, Live(m), task[m][d] \in HasDir, NoneLeft(d)
        PROVE  m = l /\ task[l][d] # "analyzed"
    BY <2>1, <2>4, OneWriter DEF NoneLeft
  <2>5. Live(l) /\ task[l][d] = "up" /\ at = "ok" =>
           out'[d] = [cfg |-> Asked[l], whole |-> TRUE, clean |-> TRUE]
    BY <2>2 DEF OutputAgrees
  <2>6. \A m \in Launchers, q \in Dirs : Live(m)' => Live(m)
    BY <2>1 DEF Live
  <2>7. ASSUME NEW m \in Launchers, NEW q \in Dirs, Live(m)'
        PROVE  task'[m][q] = "up" /\ sim'[m][q].at = "writing" => sim'[m][q].cfg = Asked[m]
    BY <2>1, <2>3, <2>6, <2>7, ZenonT(30) DEF OutputAgrees
  <2>8. ASSUME NEW m \in Launchers, NEW q \in Dirs, Live(m)', NoneLeft(q)',
               task'[m][q] = "analyzed" \/ (task'[m][q] = "up" /\ sim'[m][q].at = "ok")
        PROVE  out'[q] = [cfg |-> Asked[m], whole |-> TRUE, clean |-> TRUE]
    <3>1. CASE q = d
      BY <3>1, <2>1, <2>3, <2>4, <2>5, <2>6, <2>8 DEF HasDir
    <3>2. CASE q # d
      BY <3>2, <2>1, <2>3, <2>6, <2>8 DEF OutputAgrees
    <3>. QED  BY <3>1, <3>2
  <2>. QED  BY <2>7, <2>8 DEF OutputAgrees
<1>23. ASSUME NEW l \in Launchers, Interrupt(l), InterruptPrebuild(l) PROVE OutputAgrees'
  BY <1>23 DEF Interrupt, InterruptPrebuild, WriterReleased, ReadBy, Alive, OutputAgrees,
     Live, Typed, leases, disk, children
<1>24. ASSUME NEW l \in Launchers, Interrupt(l), InterruptTasks(l) PROVE OutputAgrees'
  BY <1>24 DEF Interrupt, InterruptTasks, DirReleased, Cancel, OutputAgrees, Live, Typed,
     leases, disk, children
<1>25. ASSUME NEW l \in Launchers, Kill(l) PROVE OutputAgrees'
  BY <1>25 DEF Kill, AllDirsReleased, ReadBy, WriterReleased, OutputAgrees, Live, Typed,
     leases, disk, children
<1>26. ASSUME NEW l \in Launchers, NEW d \in Dirs, SpawnRaises(l, d) PROVE OutputAgrees'
  BY <1>26 DEF SpawnRaises, DirReleased, Cancel, OutputAgrees, Live, Typed, leases, disk,
     children
<1>27. CASE UNCHANGED vars
  BY <1>27 DEF vars, leases, disk, children, OutputAgrees, Live
<1>. QED
  BY <1>1, <1>2, <1>3, <1>4, <1>5, <1>6, <1>6a, <1>7, <1>8, <1>9, <1>10, <1>11, <1>12, <1>13, <1>14,
     <1>15, <1>16, <1>17, <1>18, <1>19, <1>20, <1>21, <1>22, <1>23, <1>24, <1>25, <1>26, <1>27
     DEF Next, Proceed, Child, TaskStep, Interrupt


-----------------------------------------------------------------------------


\* What passes for complete is what a run has left that ended well.
LEMMA CompleteStep ==
    ASSUME Typed, PhaseAgrees, DirLeases, RecordAgrees, SimsAgree, OutputAgrees, CompleteIsTrue, [Next]_vars
    PROVE  CompleteIsTrue'
<1>a. \A m \in Launchers, q \in Dirs : LeftBehind(m, q) => LeftBehind(m, q)'
  BY LeftStays
<1>. USE <1>a
<1>1. ASSUME NEW l \in Launchers, Open(l) PROVE CompleteIsTrue'
  BY <1>1 DEF Open, CompleteIsTrue, IsComplete, IsValid, Typed, leases, disk, children
<1>2. ASSUME NEW l \in Launchers, StartProbe(l) PROVE CompleteIsTrue'
  BY <1>2 DEF StartProbe, Probe, CompleteIsTrue, IsComplete, IsValid, Typed, leases, disk,
     children
<1>3. ASSUME NEW l \in Launchers, EndProbe(l) PROVE CompleteIsTrue'
  BY <1>3 DEF EndProbe, Probe, CompleteIsTrue, IsComplete, IsValid, Typed, leases, disk,
     children
<1>4. ASSUME NEW l \in Launchers, StartBuilding(l) PROVE CompleteIsTrue'
  BY <1>4 DEF StartBuilding, CompleteIsTrue, IsComplete, IsValid, Typed, leases, disk, children
<1>5. ASSUME NEW l \in Launchers, NEW k \in Keys, SkipBuilt(l, k) PROVE CompleteIsTrue'
  BY <1>5 DEF SkipBuilt, CompleteIsTrue, IsComplete, IsValid, Typed, leases, disk, children
<1>6. ASSUME NEW l \in Launchers, NEW k \in Keys, FindMissing(l, k) PROVE CompleteIsTrue'
  BY <1>6 DEF FindMissing, CompleteIsTrue, IsComplete, IsValid, Typed, leases, disk, children
<1>6a. ASSUME NEW l \in Launchers, SpawnBuilder(l) PROVE CompleteIsTrue'
  BY <1>6a DEF SpawnBuilder, CompleteIsTrue, IsComplete, IsValid, Typed, leases, disk, children
<1>7. ASSUME NEW l \in Launchers, Verified(l) PROVE CompleteIsTrue'
  BY <1>7 DEF Verified, CompleteIsTrue, IsComplete, IsValid, Typed, leases, disk, children
<1>8. ASSUME NEW l \in Launchers, FailBuilding(l) PROVE CompleteIsTrue'
  BY <1>8 DEF FailBuilding, AfterBuilding, WriterReleased, CompleteIsTrue, IsComplete,
     IsValid, Typed, leases, disk, children
<1>9. ASSUME NEW l \in Launchers, EndBuilding(l) PROVE CompleteIsTrue'
  BY <1>9 DEF EndBuilding, AfterBuilding, WriterReleased, CompleteIsTrue, IsComplete, IsValid,
     Typed, leases, disk, children
<1>10. ASSUME NEW l \in Launchers, Close(l) PROVE CompleteIsTrue'
  BY <1>10 DEF Close, AllDirsReleased, CompleteIsTrue, IsComplete, IsValid, Typed, leases,
     disk, children
<1>11. ASSUME NEW l \in Launchers, CancelAgain(l) PROVE CompleteIsTrue'
  BY <1>11 DEF CancelAgain, AllDirsReleased, ReadBy, CompleteIsTrue, IsComplete, IsValid,
     Typed, leases, disk, children
<1>12. ASSUME NEW l \in Launchers, EndCancelled(l) PROVE CompleteIsTrue'
  BY <1>12 DEF EndCancelled, AllDirsReleased, WriterReleased, CompleteIsTrue, IsComplete,
     IsValid, Typed, leases, disk, children
<1>13. ASSUME NEW l \in Launchers, NEW d \in Dirs, Begin(l, d) PROVE CompleteIsTrue'
  <2>1. PICK at \in {"described", "ok"} :
            /\ task' = [task EXCEPT ![l][d] = at]
            /\ at = "ok" => meta' = meta
            /\ \A q \in Dirs \ {d} : meta'[q] = meta[q]
    BY <1>13 DEF Begin, Typed
  <2>2. UNCHANGED << out, marker >> /\ task[l][d] = "none"
    BY <1>13 DEF Begin
  <2>. QED  BY <2>1, <2>2 DEF CompleteIsTrue, IsComplete, IsValid, Typed
<1>14. ASSUME NEW l \in Launchers, NEW d \in Dirs, Unlink(l, d) PROVE CompleteIsTrue'
  BY <1>14 DEF Unlink, Unmarked, CompleteIsTrue, IsComplete, IsValid, Typed, leases, disk,
     children
<1>15. ASSUME NEW l \in Launchers, NEW d \in Dirs, TakeSlot(l, d) PROVE CompleteIsTrue'
  BY <1>15 DEF TakeSlot, CompleteIsTrue, IsComplete, IsValid, Typed, leases, disk, children
<1>16. ASSUME NEW l \in Launchers, NEW d \in Dirs, Spawn(l, d) PROVE CompleteIsTrue'
  BY <1>16 DEF Spawn, CompleteIsTrue, IsComplete, IsValid, Typed, leases, disk, children
<1>17. ASSUME NEW l \in Launchers, NEW d \in Dirs, Reap(l, d) PROVE CompleteIsTrue'
  <2>1. PICK at \in {"analyzed", "failed"} : task' = [task EXCEPT ![l][d] = at]
    BY <1>17 DEF Reap
  <2>2. UNCHANGED << meta, out, marker >> /\ task[l][d] = "up"
    BY <1>17 DEF Reap, disk
  <2>. QED  BY <2>1, <2>2 DEF CompleteIsTrue, IsComplete, IsValid, Typed
<1>18. ASSUME NEW l \in Launchers, NEW d \in Dirs, Finalize(l, d) PROVE CompleteIsTrue'
  <2>1. task' = [task EXCEPT ![l][d] = "ok"] /\ marker' = [marker EXCEPT ![d] = TRUE]
    BY <1>18 DEF Finalize
  <2>2. UNCHANGED << meta, out >> /\ Live(l) /\ task[l][d] = "analyzed"
    BY <1>18 DEF Finalize, Live
  <2>3. NoneLeft(d) => out[d] = [cfg |-> meta[d], whole |-> TRUE, clean |-> TRUE]
    BY <2>2 DEF OutputAgrees, RecordAgrees, HasDir
  <2>. QED  BY <2>1, <2>2, <2>3 DEF CompleteIsTrue, IsComplete, IsValid, NoneLeft, Typed
<1>19. ASSUME NEW l \in Launchers, NEW d \in Dirs, TaskStopped(l, d) PROVE CompleteIsTrue'
  BY <1>19 DEF TaskStopped, DirReleased, CompleteIsTrue, IsComplete, IsValid, Typed, leases,
     disk, children
<1>20. ASSUME NEW l \in Launchers, BuilderEnds(l) PROVE CompleteIsTrue'
  BY <1>20 DEF BuilderEnds, Alive, CompleteIsTrue, IsComplete, IsValid, Typed, leases, disk,
     children
<1>21. ASSUME NEW l \in Launchers, NEW d \in Dirs, SimOpens(l, d) PROVE CompleteIsTrue'
  <2>1. Alive(sim[l][d]) /\ \A q \in Dirs \ {d} : out'[q] = out[q]
    BY <1>21 DEF SimOpens, Alive, Typed
  <2>2. UNCHANGED << task, meta, marker >>
    BY <1>21 DEF SimOpens
  <2>3. ~LeftBehind(l, d) => ~marker[d]
    BY <2>1, OneWriter
  <2>. QED  BY <2>1, <2>2, <2>3 DEF CompleteIsTrue, IsComplete, IsValid
<1>22. ASSUME NEW l \in Launchers, NEW d \in Dirs, SimEnds(l, d) PROVE CompleteIsTrue'
  <2>1. Alive(sim[l][d]) /\ \A q \in Dirs \ {d} : out'[q] = out[q]
    BY <1>22 DEF SimEnds, Alive, Typed
  <2>2. UNCHANGED << task, meta, marker >>
    BY <1>22 DEF SimEnds
  <2>3. ~LeftBehind(l, d) => ~marker[d]
    BY <2>1, OneWriter
  <2>. QED  BY <2>1, <2>2, <2>3 DEF CompleteIsTrue, IsComplete, IsValid
<1>23. ASSUME NEW l \in Launchers, Interrupt(l), InterruptPrebuild(l) PROVE CompleteIsTrue'
  BY <1>23 DEF Interrupt, InterruptPrebuild, WriterReleased, ReadBy, Alive, CompleteIsTrue,
     IsComplete, IsValid, Typed, leases, disk, children
<1>24. ASSUME NEW l \in Launchers, Interrupt(l), InterruptTasks(l) PROVE CompleteIsTrue'
  <2>1. pc[l] = "running" /\ Cancel(l) /\ \A q \in Dirs : task[l][q] # "described"
    BY <1>24 DEF InterruptTasks, AtAwait
  <2>2. UNCHANGED << meta, out, marker >>
    BY <1>24 DEF Interrupt, InterruptTasks, disk
  <2>3. \A m \in Launchers \ {l} : task'[m] = task[m]
    BY <2>1, CancelledTasks
  <2>. QED  BY <2>1, <2>2, <2>3 DEF CompleteIsTrue, IsComplete, IsValid
<1>25. ASSUME NEW l \in Launchers, Kill(l) PROVE CompleteIsTrue'
  BY <1>25 DEF Kill, AllDirsReleased, ReadBy, WriterReleased, CompleteIsTrue, IsComplete,
     IsValid, Typed, leases, disk, children
<1>26. ASSUME NEW l \in Launchers, NEW d \in Dirs, SpawnRaises(l, d) PROVE CompleteIsTrue'
  <2>1. pc[l] = "running" /\ Cancel(l) /\ \A q \in Dirs : task[l][q] # "described"
    BY <1>26 DEF SpawnRaises, AtAwait
  <2>2. UNCHANGED << meta, out, marker >>
    BY <1>26 DEF SpawnRaises, disk
  <2>3. \A m \in Launchers \ {l} : task'[m] = task[m]
    BY <2>1, CancelledTasks
  <2>. QED  BY <2>1, <2>2, <2>3 DEF CompleteIsTrue, IsComplete, IsValid
<1>27. CASE UNCHANGED vars
  BY <1>27 DEF vars, leases, disk, children, CompleteIsTrue, IsComplete, IsValid
<1>. QED
  BY <1>1, <1>2, <1>3, <1>4, <1>5, <1>6, <1>6a, <1>7, <1>8, <1>9, <1>10, <1>11, <1>12, <1>13, <1>14,
     <1>15, <1>16, <1>17, <1>18, <1>19, <1>20, <1>21, <1>22, <1>23, <1>24, <1>25, <1>26, <1>27
     DEF Next, Proceed, Child, TaskStep, Interrupt


\* What a probe found missing stays so until the builder is started.
LEMMA ProbeStep ==
    ASSUME Typed, PhaseAgrees, DbLeases, ProbeAgrees, [Next]_vars PROVE ProbeAgrees'
<1>1. ASSUME NEW l \in Launchers, Open(l) PROVE ProbeAgrees'
  BY <1>1 DEF Open, ProbeAgrees, Orphaned, Typed, leases, disk, children
<1>2. ASSUME NEW l \in Launchers, StartProbe(l) PROVE ProbeAgrees'
  BY <1>2 DEF StartProbe, Probe, ProbeAgrees, Orphaned, Typed, leases, disk, children
<1>3. ASSUME NEW l \in Launchers, EndProbe(l) PROVE ProbeAgrees'
  <2>1. PICK at \in {"running", "queued", "closing"} : pc' = [pc EXCEPT ![l] = at]
    BY <1>3 DEF EndProbe
  <2>2. pc[l] = "probing" /\ UNCHANGED << builder, rows >>
    BY <1>3 DEF EndProbe
  <2>3. \A m \in Launchers \ {l} : toBuild'[m] = toBuild[m]
    BY <1>3 DEF EndProbe, Typed
  <2>. QED  BY <2>1, <2>2, <2>3 DEF ProbeAgrees, Orphaned, Typed
<1>4. ASSUME NEW l \in Launchers, StartBuilding(l) PROVE ProbeAgrees'
  BY <1>4 DEF StartBuilding, ProbeAgrees, Orphaned, Typed, leases, disk, children
<1>5. ASSUME NEW l \in Launchers, NEW k \in Keys, SkipBuilt(l, k) PROVE ProbeAgrees'
  BY <1>5 DEF SkipBuilt, ProbeAgrees, Orphaned, Typed, leases, disk, children
<1>6. ASSUME NEW l \in Launchers, NEW k \in Keys, FindMissing(l, k) PROVE ProbeAgrees'
  <2>1. /\ builder' = [builder EXCEPT ![l] = [key |-> k, at |-> "probed"]]
        /\ pc[l] = "building" /\ k \in toBuild[l] /\ k \notin rows
        /\ UNCHANGED << pc, toBuild, rows >>
    BY <1>6 DEF FindMissing, IsMissing
  <2>. QED  BY <2>1 DEF ProbeAgrees, Orphaned, Typed
<1>6a. ASSUME NEW l \in Launchers, SpawnBuilder(l) PROVE ProbeAgrees'
  <2>1. /\ builder' = [builder EXCEPT ![l].at = "up"]
        /\ UNCHANGED << pc, toBuild, rows >>
    BY <1>6a DEF SpawnBuilder
  <2>. QED  BY <2>1 DEF ProbeAgrees, Orphaned, Typed
<1>7. ASSUME NEW l \in Launchers, Verified(l) PROVE ProbeAgrees'
  BY <1>7 DEF Verified, ProbeAgrees, Orphaned, Typed, leases, disk, children
<1>8. ASSUME NEW l \in Launchers, FailBuilding(l) PROVE ProbeAgrees'
  BY <1>8 DEF FailBuilding, AfterBuilding, WriterReleased, ProbeAgrees, Orphaned, Typed, leases, disk,
     children
<1>9. ASSUME NEW l \in Launchers, EndBuilding(l) PROVE ProbeAgrees'
  BY <1>9 DEF EndBuilding, AfterBuilding, WriterReleased, ProbeAgrees, Orphaned, Typed, leases, disk, children
<1>10. ASSUME NEW l \in Launchers, Close(l) PROVE ProbeAgrees'
  BY <1>10 DEF Close, AllDirsReleased, ProbeAgrees, Orphaned, Typed, leases, disk, children
<1>11. ASSUME NEW l \in Launchers, CancelAgain(l) PROVE ProbeAgrees'
  BY <1>11 DEF CancelAgain, AllDirsReleased, ReadBy, ProbeAgrees, Orphaned, Typed, leases, disk, children
<1>12. ASSUME NEW l \in Launchers, EndCancelled(l) PROVE ProbeAgrees'
  BY <1>12 DEF EndCancelled, AllDirsReleased, WriterReleased, ProbeAgrees, Orphaned, Typed, leases, disk,
     children
<1>13. ASSUME NEW l \in Launchers, NEW d \in Dirs, Begin(l, d) PROVE ProbeAgrees'
  BY <1>13 DEF Begin, ProbeAgrees, Orphaned, Typed, leases, disk, children
<1>14. ASSUME NEW l \in Launchers, NEW d \in Dirs, Unlink(l, d) PROVE ProbeAgrees'
  BY <1>14 DEF Unlink, Unmarked, ProbeAgrees, Orphaned, Typed, leases, disk, children
<1>15. ASSUME NEW l \in Launchers, NEW d \in Dirs, TakeSlot(l, d) PROVE ProbeAgrees'
  BY <1>15 DEF TakeSlot, ProbeAgrees, Orphaned, Typed, leases, disk, children
<1>16. ASSUME NEW l \in Launchers, NEW d \in Dirs, Spawn(l, d) PROVE ProbeAgrees'
  BY <1>16 DEF Spawn, ProbeAgrees, Orphaned, Typed, leases, disk, children
<1>17. ASSUME NEW l \in Launchers, NEW d \in Dirs, Reap(l, d) PROVE ProbeAgrees'
  BY <1>17 DEF Reap, DirReleased, ProbeAgrees, Orphaned, Typed, leases, disk, children
<1>18. ASSUME NEW l \in Launchers, NEW d \in Dirs, Finalize(l, d) PROVE ProbeAgrees'
  BY <1>18 DEF Finalize, DirReleased, ProbeAgrees, Orphaned, Typed, leases, disk, children
<1>19. ASSUME NEW l \in Launchers, NEW d \in Dirs, TaskStopped(l, d) PROVE ProbeAgrees'
  BY <1>19 DEF TaskStopped, DirReleased, ProbeAgrees, Orphaned, Typed, leases, disk, children
<1>20. ASSUME NEW l \in Launchers, BuilderEnds(l) PROVE ProbeAgrees'
  <2>1. PICK at \in {"ok", "failed"} : builder' = [builder EXCEPT ![l].at = at]
    BY <1>20 DEF BuilderEnds
  <2>2. /\ Alive(builder[l]) /\ UNCHANGED << pc, toBuild >>
        /\ rows' \subseteq rows \cup {builder[l].key}
    BY <1>20 DEF BuilderEnds
  <2>3. \A m \in Launchers \ {l} :
            pc[m] = "building" /\ builder[m].key = builder[l].key => Orphaned(builder[m].key)
    <3>. SUFFICES ASSUME NEW m \in Launchers \ {l}, pc[m] = "building",
                         builder[m].key = builder[l].key
                  PROVE  pc[l] = "killed"
      BY DEF Orphaned
    <3>. QED  BY <2>2 DEF DbLeases
  <2>4. \A k : Orphaned(k) => Orphaned(k)'
    BY <2>1, <2>2 DEF Orphaned, Typed
  <2>5. \A m \in Launchers : builder'[m].at = "probed" => m # l /\ builder'[m] = builder[m]
    BY <2>1 DEF Typed
  <2>. QED  BY <2>2, <2>3, <2>4, <2>5 DEF ProbeAgrees, Typed
<1>21. ASSUME NEW l \in Launchers, NEW d \in Dirs, SimOpens(l, d) PROVE ProbeAgrees'
  BY <1>21 DEF SimOpens, NoOutput, ProbeAgrees, Orphaned, Typed, leases, disk, children
<1>22. ASSUME NEW l \in Launchers, NEW d \in Dirs, SimEnds(l, d) PROVE ProbeAgrees'
  BY <1>22 DEF SimEnds, ProbeAgrees, Orphaned, Typed, leases, disk, children
<1>23. ASSUME NEW l \in Launchers, Interrupt(l), InterruptPrebuild(l) PROVE ProbeAgrees'
  <2>1. builder' = builder \/ builder' = [builder EXCEPT ![l].at = "dying"]
    BY <1>23 DEF InterruptPrebuild
  <2>2. pc' = [pc EXCEPT ![l] = "cancelling"] /\ pc[l] # "killed" /\ UNCHANGED << toBuild, rows >>
    BY <1>23 DEF Interrupt, InterruptPrebuild, disk
  <2>a. \A m \in Launchers : builder[m] \in [key : Keys \cup {NoKey}, at : ChildStates]
    BY DEF Typed
  <2>b. \A m \in Launchers : \/ builder'[m] = builder[m]
                            \/ builder'[m] = [builder[m] EXCEPT !.at = "dying"]
    BY <2>1 DEF Typed
  <2>3. \A m \in Launchers : builder'[m].key = builder[m].key
    BY <2>a, <2>b
  <2>4. \A m \in Launchers : builder'[m].at = "probed" => builder[m].at = "probed"
    BY <2>a, <2>b
  <2>5. \A k : Orphaned(k) => Orphaned(k)'
    BY <2>2, <2>3 DEF Orphaned, Typed
  <2>6. \A m \in Launchers : /\ pc'[m] = "building" => pc[m] = "building"
                             /\ pc'[m] \in {"start", "opened", "probing", "queued"} => pc'[m] = pc[m]
    BY <2>2 DEF Typed
  <2>. QED  BY <2>2, <2>3, <2>4, <2>5, <2>6 DEF ProbeAgrees
<1>24. ASSUME NEW l \in Launchers, Interrupt(l), InterruptTasks(l) PROVE ProbeAgrees'
  BY <1>24 DEF Interrupt, InterruptTasks, DirReleased, Cancel, ProbeAgrees, Orphaned, Typed, leases, disk,
     children
<1>25. ASSUME NEW l \in Launchers, Kill(l) PROVE ProbeAgrees'
  BY <1>25 DEF Kill, AllDirsReleased, ReadBy, WriterReleased, ProbeAgrees, Orphaned, Typed, leases, disk,
     children
<1>26. ASSUME NEW l \in Launchers, NEW d \in Dirs, SpawnRaises(l, d) PROVE ProbeAgrees'
  BY <1>26 DEF SpawnRaises, DirReleased, Cancel, ProbeAgrees, Orphaned, Typed, leases, disk, children
<1>27. CASE UNCHANGED vars
  BY <1>27 DEF vars, leases, disk, children, ProbeAgrees, Orphaned
<1>. QED
  BY <1>1, <1>2, <1>3, <1>4, <1>5, <1>6, <1>6a, <1>7, <1>8, <1>9, <1>10, <1>11, <1>12, <1>13, <1>14,
     <1>15, <1>16, <1>17, <1>18, <1>19, <1>20, <1>21, <1>22, <1>23, <1>24, <1>25, <1>26, <1>27
     DEF Next, Proceed, Child, TaskStep, Interrupt


-----------------------------------------------------------------------------


\* What a step may not do to a run that is complete, and a builder may not be started for.
Undone(d) ==
    /\ IsComplete(d) /\ ~IsComplete(d)'
    /\ ~ \E l \in Launchers : \/ l \in Refresh /\ task[l][d] = "described"
                              \/ LeftBehind(l, d)
Rebuilt(l) ==
    /\ builder[l].at # "up" /\ builder'[l].at = "up"
    /\ builder'[l].key \in rows /\ ~Orphaned(builder'[l].key)

\* A complete run is undone on request, or by a simulator that was left behind.
LEMMA NothingUndone ==
    ASSUME Typed, PhaseAgrees, DirLeases, RecordAgrees, SimsAgree, NeedAgrees, [Next]_vars
    PROVE  \A q \in Dirs : ~Undone(q)
<1>1. ASSUME NEW l \in Launchers, Open(l) PROVE \A q \in Dirs : ~Undone(q)
  BY <1>1 DEF Open, Undone, IsComplete, IsValid, leases, disk, children
<1>2. ASSUME NEW l \in Launchers, StartProbe(l) PROVE \A q \in Dirs : ~Undone(q)
  BY <1>2 DEF StartProbe, Probe, Undone, IsComplete, IsValid, leases, disk, children
<1>3. ASSUME NEW l \in Launchers, EndProbe(l) PROVE \A q \in Dirs : ~Undone(q)
  BY <1>3 DEF EndProbe, Probe, Undone, IsComplete, IsValid, leases, disk, children
<1>4. ASSUME NEW l \in Launchers, StartBuilding(l) PROVE \A q \in Dirs : ~Undone(q)
  BY <1>4 DEF StartBuilding, Undone, IsComplete, IsValid, leases, disk, children
<1>5. ASSUME NEW l \in Launchers, NEW k \in Keys, SkipBuilt(l, k)
      PROVE  \A q \in Dirs : ~Undone(q)
  BY <1>5 DEF SkipBuilt, Undone, IsComplete, IsValid, leases, disk, children
<1>6. ASSUME NEW l \in Launchers, NEW k \in Keys, FindMissing(l, k)
      PROVE  \A q \in Dirs : ~Undone(q)
  BY <1>6 DEF FindMissing, Undone, IsComplete, IsValid, leases, disk, children
<1>6a. ASSUME NEW l \in Launchers, SpawnBuilder(l)
      PROVE  \A q \in Dirs : ~Undone(q)
  BY <1>6a DEF SpawnBuilder, Undone, IsComplete, IsValid, leases, disk, children
<1>7. ASSUME NEW l \in Launchers, Verified(l) PROVE \A q \in Dirs : ~Undone(q)
  BY <1>7 DEF Verified, Undone, IsComplete, IsValid, leases, disk, children
<1>8. ASSUME NEW l \in Launchers, FailBuilding(l) PROVE \A q \in Dirs : ~Undone(q)
  BY <1>8 DEF FailBuilding, AfterBuilding, WriterReleased, Undone, IsComplete, IsValid,
     leases, disk, children
<1>9. ASSUME NEW l \in Launchers, EndBuilding(l) PROVE \A q \in Dirs : ~Undone(q)
  BY <1>9 DEF EndBuilding, AfterBuilding, WriterReleased, Undone, IsComplete, IsValid, leases,
     disk, children
<1>10. ASSUME NEW l \in Launchers, Close(l) PROVE \A q \in Dirs : ~Undone(q)
  BY <1>10 DEF Close, AllDirsReleased, Undone, IsComplete, IsValid, leases, disk, children
<1>11. ASSUME NEW l \in Launchers, CancelAgain(l) PROVE \A q \in Dirs : ~Undone(q)
  BY <1>11 DEF CancelAgain, AllDirsReleased, ReadBy, Undone, IsComplete, IsValid, leases,
     disk, children
<1>12. ASSUME NEW l \in Launchers, EndCancelled(l) PROVE \A q \in Dirs : ~Undone(q)
  BY <1>12 DEF EndCancelled, AllDirsReleased, WriterReleased, Undone, IsComplete, IsValid,
     leases, disk, children
<1>13. ASSUME NEW l \in Launchers, NEW d \in Dirs, Begin(l, d) PROVE \A q \in Dirs : ~Undone(q)
  BY <1>13 DEF Begin, Undone, IsComplete, IsValid, leases, disk, children
<1>14. ASSUME NEW l \in Launchers, NEW d \in Dirs, Unlink(l, d) PROVE \A q \in Dirs : ~Undone(q)
  <2>1. Live(l) /\ task[l][d] = "described" /\ marker' = [marker EXCEPT ![d] = FALSE] /\ out' = out
    BY <1>14 DEF Unlink, Unmarked, Live
  <2>2. \A q \in Dirs \ {d} : IsComplete(q)' = IsComplete(q)
    BY <2>1 DEF IsComplete, IsValid, Typed
  <2>3. IsComplete(d) /\ NoneLeft(d) => l \in Refresh
    BY <2>1 DEF NeedAgrees
  <2>. QED  BY <2>1, <2>2, <2>3 DEF Undone, NoneLeft
<1>15. ASSUME NEW l \in Launchers, NEW d \in Dirs, TakeSlot(l, d)
       PROVE  \A q \in Dirs : ~Undone(q)
  BY <1>15 DEF TakeSlot, Undone, IsComplete, IsValid, leases, disk, children
<1>16. ASSUME NEW l \in Launchers, NEW d \in Dirs, Spawn(l, d) PROVE \A q \in Dirs : ~Undone(q)
  BY <1>16 DEF Spawn, Undone, IsComplete, IsValid, leases, disk, children
<1>17. ASSUME NEW l \in Launchers, NEW d \in Dirs, Reap(l, d) PROVE \A q \in Dirs : ~Undone(q)
  BY <1>17 DEF Reap, DirReleased, Undone, IsComplete, IsValid, leases, disk, children
<1>18. ASSUME NEW l \in Launchers, NEW d \in Dirs, Finalize(l, d)
       PROVE  \A q \in Dirs : ~Undone(q)
  <2>1. marker' = [marker EXCEPT ![d] = TRUE] /\ out' = out
    BY <1>18 DEF Finalize
  <2>. QED  BY <2>1 DEF Undone, IsComplete, IsValid, Typed
<1>19. ASSUME NEW l \in Launchers, NEW d \in Dirs, TaskStopped(l, d)
       PROVE  \A q \in Dirs : ~Undone(q)
  BY <1>19 DEF TaskStopped, DirReleased, Undone, IsComplete, IsValid, leases, disk, children
<1>20. ASSUME NEW l \in Launchers, BuilderEnds(l) PROVE \A q \in Dirs : ~Undone(q)
  BY <1>20 DEF BuilderEnds, Alive, Undone, IsComplete, IsValid, leases, disk, children
<1>21. ASSUME NEW l \in Launchers, NEW d \in Dirs, SimOpens(l, d)
       PROVE  \A q \in Dirs : ~Undone(q)
  <2>1. Alive(sim[l][d]) /\ \A q \in Dirs \ {d} : out'[q] = out[q]
    BY <1>21 DEF SimOpens, Alive, Typed
  <2>2. marker' = marker
    BY <1>21 DEF SimOpens
  <2>3. ~LeftBehind(l, d) => ~marker[d]
    BY <2>1, OneWriter
  <2>. QED  BY <2>1, <2>2, <2>3 DEF Undone, IsComplete, IsValid
<1>22. ASSUME NEW l \in Launchers, NEW d \in Dirs, SimEnds(l, d)
       PROVE  \A q \in Dirs : ~Undone(q)
  <2>1. Alive(sim[l][d]) /\ \A q \in Dirs \ {d} : out'[q] = out[q]
    BY <1>22 DEF SimEnds, Alive, Typed
  <2>2. marker' = marker
    BY <1>22 DEF SimEnds
  <2>3. ~LeftBehind(l, d) => ~marker[d]
    BY <2>1, OneWriter
  <2>. QED  BY <2>1, <2>2, <2>3 DEF Undone, IsComplete, IsValid
<1>23. ASSUME NEW l \in Launchers, Interrupt(l), InterruptPrebuild(l)
       PROVE  \A q \in Dirs : ~Undone(q)
  BY <1>23 DEF Interrupt, InterruptPrebuild, WriterReleased, ReadBy, Alive, Undone,
     IsComplete, IsValid, leases, disk, children
<1>24. ASSUME NEW l \in Launchers, Interrupt(l), InterruptTasks(l)
       PROVE  \A q \in Dirs : ~Undone(q)
  BY <1>24 DEF Interrupt, InterruptTasks, DirReleased, Cancel, Undone, IsComplete, IsValid,
     leases, disk, children
<1>25. ASSUME NEW l \in Launchers, Kill(l) PROVE \A q \in Dirs : ~Undone(q)
  BY <1>25 DEF Kill, AllDirsReleased, ReadBy, WriterReleased, Undone, IsComplete, IsValid,
     leases, disk, children
<1>26. ASSUME NEW l \in Launchers, NEW d \in Dirs, SpawnRaises(l, d)
       PROVE  \A q \in Dirs : ~Undone(q)
  BY <1>26 DEF SpawnRaises, DirReleased, Cancel, Undone, IsComplete, IsValid, leases, disk,
     children
<1>27. CASE UNCHANGED vars
  BY <1>27 DEF vars, leases, disk, children, Undone, IsComplete, IsValid
<1>. QED
  BY <1>1, <1>2, <1>3, <1>4, <1>5, <1>6, <1>6a, <1>7, <1>8, <1>9, <1>10, <1>11, <1>12, <1>13, <1>14,
     <1>15, <1>16, <1>17, <1>18, <1>19, <1>20, <1>21, <1>22, <1>23, <1>24, <1>25, <1>26, <1>27
     DEF Next, Proceed, Child, TaskStep, Interrupt

\* No builder is started for rows that are there.
LEMMA NothingRebuilt ==
    ASSUME Typed, ProbeAgrees, [Next]_vars
    PROVE  \A m \in Launchers : ~Rebuilt(m)
<1>1. ASSUME NEW l \in Launchers, Open(l) PROVE \A m \in Launchers : ~Rebuilt(m)
  BY <1>1 DEF Open, Rebuilt, Typed, leases, disk, children
<1>2. ASSUME NEW l \in Launchers, StartProbe(l) PROVE \A m \in Launchers : ~Rebuilt(m)
  BY <1>2 DEF StartProbe, Probe, Rebuilt, Typed, leases, disk, children
<1>3. ASSUME NEW l \in Launchers, EndProbe(l) PROVE \A m \in Launchers : ~Rebuilt(m)
  BY <1>3 DEF EndProbe, Probe, Rebuilt, Typed, leases, disk, children
<1>4. ASSUME NEW l \in Launchers, StartBuilding(l) PROVE \A m \in Launchers : ~Rebuilt(m)
  BY <1>4 DEF StartBuilding, Rebuilt, Typed, leases, disk, children
<1>5. ASSUME NEW l \in Launchers, NEW k \in Keys, SkipBuilt(l, k)
      PROVE  \A m \in Launchers : ~Rebuilt(m)
  BY <1>5 DEF SkipBuilt, Rebuilt, Typed, leases, disk, children
<1>6. ASSUME NEW l \in Launchers, NEW k \in Keys, FindMissing(l, k)
      PROVE  \A m \in Launchers : ~Rebuilt(m)
  <2>1. builder' = [builder EXCEPT ![l] = [key |-> k, at |-> "probed"]]
    BY <1>6 DEF FindMissing
  <2>. QED  BY <2>1 DEF Rebuilt, Typed
<1>6a. ASSUME NEW l \in Launchers, SpawnBuilder(l)
      PROVE  \A m \in Launchers : ~Rebuilt(m)
  <2>1. builder' = [builder EXCEPT ![l].at = "up"]
    BY <1>6a DEF SpawnBuilder
  <2>2. builder[l].key \notin rows \/ Orphaned(builder[l].key)
    BY <1>6a DEF SpawnBuilder, ProbeAgrees
  <2>. QED  BY <2>1, <2>2 DEF Rebuilt, Typed
<1>7. ASSUME NEW l \in Launchers, Verified(l) PROVE \A m \in Launchers : ~Rebuilt(m)
  BY <1>7 DEF Verified, Rebuilt, Typed, leases, disk, children
<1>8. ASSUME NEW l \in Launchers, FailBuilding(l) PROVE \A m \in Launchers : ~Rebuilt(m)
  BY <1>8 DEF FailBuilding, AfterBuilding, WriterReleased, Rebuilt, Typed, leases, disk,
     children
<1>9. ASSUME NEW l \in Launchers, EndBuilding(l) PROVE \A m \in Launchers : ~Rebuilt(m)
  BY <1>9 DEF EndBuilding, AfterBuilding, WriterReleased, Rebuilt, Typed, leases, disk, children
<1>10. ASSUME NEW l \in Launchers, Close(l) PROVE \A m \in Launchers : ~Rebuilt(m)
  BY <1>10 DEF Close, AllDirsReleased, Rebuilt, Typed, leases, disk, children
<1>11. ASSUME NEW l \in Launchers, CancelAgain(l) PROVE \A m \in Launchers : ~Rebuilt(m)
  BY <1>11 DEF CancelAgain, AllDirsReleased, ReadBy, Rebuilt, Typed, leases, disk, children
<1>12. ASSUME NEW l \in Launchers, EndCancelled(l) PROVE \A m \in Launchers : ~Rebuilt(m)
  BY <1>12 DEF EndCancelled, AllDirsReleased, WriterReleased, Rebuilt, Typed, leases, disk,
     children
<1>13. ASSUME NEW l \in Launchers, NEW d \in Dirs, Begin(l, d)
       PROVE  \A m \in Launchers : ~Rebuilt(m)
  BY <1>13 DEF Begin, Rebuilt, Typed, leases, disk, children
<1>14. ASSUME NEW l \in Launchers, NEW d \in Dirs, Unlink(l, d)
       PROVE  \A m \in Launchers : ~Rebuilt(m)
  BY <1>14 DEF Unlink, Unmarked, Rebuilt, Typed, leases, disk, children
<1>15. ASSUME NEW l \in Launchers, NEW d \in Dirs, TakeSlot(l, d)
       PROVE  \A m \in Launchers : ~Rebuilt(m)
  BY <1>15 DEF TakeSlot, Rebuilt, Typed, leases, disk, children
<1>16. ASSUME NEW l \in Launchers, NEW d \in Dirs, Spawn(l, d)
       PROVE  \A m \in Launchers : ~Rebuilt(m)
  BY <1>16 DEF Spawn, Rebuilt, Typed, leases, disk, children
<1>17. ASSUME NEW l \in Launchers, NEW d \in Dirs, Reap(l, d)
       PROVE  \A m \in Launchers : ~Rebuilt(m)
  BY <1>17 DEF Reap, DirReleased, Rebuilt, Typed, leases, disk, children
<1>18. ASSUME NEW l \in Launchers, NEW d \in Dirs, Finalize(l, d)
       PROVE  \A m \in Launchers : ~Rebuilt(m)
  BY <1>18 DEF Finalize, DirReleased, Rebuilt, Typed, leases, disk, children
<1>19. ASSUME NEW l \in Launchers, NEW d \in Dirs, TaskStopped(l, d)
       PROVE  \A m \in Launchers : ~Rebuilt(m)
  BY <1>19 DEF TaskStopped, DirReleased, Rebuilt, Typed, leases, disk, children
<1>20. ASSUME NEW l \in Launchers, BuilderEnds(l) PROVE \A m \in Launchers : ~Rebuilt(m)
  <2>1. PICK at \in {"ok", "failed"} : builder' = [builder EXCEPT ![l].at = at]
    BY <1>20 DEF BuilderEnds
  <2>. QED  BY <2>1 DEF Rebuilt, Typed
<1>21. ASSUME NEW l \in Launchers, NEW d \in Dirs, SimOpens(l, d)
       PROVE  \A m \in Launchers : ~Rebuilt(m)
  BY <1>21 DEF SimOpens, NoOutput, Rebuilt, Typed, leases, disk, children
<1>22. ASSUME NEW l \in Launchers, NEW d \in Dirs, SimEnds(l, d)
       PROVE  \A m \in Launchers : ~Rebuilt(m)
  BY <1>22 DEF SimEnds, Rebuilt, Typed, leases, disk, children
<1>23. ASSUME NEW l \in Launchers, Interrupt(l), InterruptPrebuild(l)
       PROVE  \A m \in Launchers : ~Rebuilt(m)
  <2>1. builder' = builder \/ builder' = [builder EXCEPT ![l].at = "dying"]
    BY <1>23 DEF InterruptPrebuild
  <2>. QED  BY <2>1 DEF Rebuilt, Typed
<1>24. ASSUME NEW l \in Launchers, Interrupt(l), InterruptTasks(l)
       PROVE  \A m \in Launchers : ~Rebuilt(m)
  BY <1>24 DEF Interrupt, InterruptTasks, DirReleased, Cancel, Rebuilt, Typed, leases, disk,
     children
<1>25. ASSUME NEW l \in Launchers, Kill(l) PROVE \A m \in Launchers : ~Rebuilt(m)
  BY <1>25 DEF Kill, AllDirsReleased, ReadBy, WriterReleased, Rebuilt, Typed, leases, disk,
     children
<1>26. ASSUME NEW l \in Launchers, NEW d \in Dirs, SpawnRaises(l, d)
       PROVE  \A m \in Launchers : ~Rebuilt(m)
  BY <1>26 DEF SpawnRaises, DirReleased, Cancel, Rebuilt, Typed, leases, disk, children
<1>27. CASE UNCHANGED vars
  BY <1>27 DEF vars, leases, disk, children, Rebuilt
<1>. QED
  BY <1>1, <1>2, <1>3, <1>4, <1>5, <1>6, <1>6a, <1>7, <1>8, <1>9, <1>10, <1>11, <1>12, <1>13, <1>14,
     <1>15, <1>16, <1>17, <1>18, <1>19, <1>20, <1>21, <1>22, <1>23, <1>24, <1>25, <1>26, <1>27
     DEF Next, Proceed, Child, TaskStep, Interrupt


-----------------------------------------------------------------------------


\* In the first state nothing runs and nothing is held.
LEMMA Initially ==
    ASSUME Init
    PROVE  IInv
<1>1. Typed
  BY Constants DEF Init, NoOutput, Typed, InvocationStates, TaskStates, ChildStates
<1>2. SlotBound
  <2>. SUFFICES ASSUME NEW l \in Launchers PROVE Cardinality(InSlot(l)) <= Slots[l]
    BY DEF SlotBound
  <2>1. InSlot(l) = {}
    BY DEF Init, InSlot
  <2>. QED  BY <2>1, FS_EmptySet, LauncherAssumption
<1>3. PhaseAgrees /\ DirLeases /\ DbLeases /\ RowsAgree /\ ProbeAgrees /\ RecordAgrees
  BY DEF Init, PhaseAgrees, DirLeases, DbLeases, RowsAgree, ProbeAgrees, RecordAgrees, Live, HasDir, Alive
<1>4. SimsAgree /\ NeedAgrees /\ OutputAgrees /\ CompleteIsTrue
  BY DEF Init, SimsAgree, NeedAgrees, OutputAgrees, CompleteIsTrue, IsComplete, Live, Alive
<1>. QED  BY <1>1, <1>2, <1>3, <1>4 DEF IInv

\* Every step keeps what it relies on.
LEMMA Inductive ==
    ASSUME IInv, [Next]_vars
    PROVE  IInv'
<1>. USE DEF IInv
<1>1. Typed' /\ SlotBound'
  BY TypeStep, SlotStep
<1>2. PhaseAgrees'
  BY PhaseStep
<1>3. DirLeases' /\ DbLeases'
  BY DirStep, DbStep
<1>4. RowsAgree' /\ ProbeAgrees' /\ RecordAgrees'
  BY RowsStep, ProbeStep, RecordStep
<1>5. SimsAgree' /\ NeedAgrees'
  BY SimsStep, NeedStep
<1>6. OutputAgrees' /\ CompleteIsTrue'
  BY OutputStep, CompleteStep
<1>. QED  BY <1>1, <1>2, <1>3, <1>4, <1>5, <1>6

\* The leases that are held leave no room for two.
LEMMA Exclusive ==
    ASSUME IInv
    PROVE  NoContention
<1>1. ASSUME NEW l \in Launchers, NEW d \in Dirs, Awaited(l, d)
      PROVE  /\ holder[d] = l /\ << l, d >> \in readers
             /\ Live(l) /\ task[l][d] \in HasDir /\ task[l][d] # "described"
  <2>1. Live(l) /\ task[l][d] \in HasDir /\ task[l][d] # "described"
    BY <1>1 DEF IInv, PhaseAgrees, Awaited, Live, HasDir
  <2>. QED  BY <1>1, <2>1 DEF IInv, DirLeases, DbLeases, Awaited
<1>2. ASSUME NEW m \in Launchers, BuildAwaited(m)
      PROVE  writer = m /\ readers = {}
  BY <1>2, Constants DEF IInv, DbLeases, BuildAwaited
<1>3. ASSUME NEW l \in Launchers, NEW d \in Dirs, Awaited(l, d)
      PROVE  /\ \A m \in Launchers \ {l} : ~Awaited(m, d)
             /\ \A m \in Launchers : ~BuildAwaited(m)
             /\ Key(l, d) \in rows
             /\ meta[d] = Asked[l]
             /\ ~marker[d]
  <2>1. \A m \in Launchers \ {l} : ~Awaited(m, d)
    BY <1>1, <1>3
  <2>2. \A m \in Launchers : ~BuildAwaited(m)
    BY <1>1, <1>2, <1>3
  <2>3. Key(l, d) \in rows
    BY <1>3 DEF IInv, RowsAgree, Awaited
  <2>4. meta[d] = Asked[l] /\ ~marker[d]
    BY <1>1, <1>3 DEF IInv, RecordAgrees
  <2>. QED  BY <2>1, <2>2, <2>3, <2>4
<1>4. ASSUME NEW l \in Launchers, BuildAwaited(l), NEW m \in Launchers \ {l}
      PROVE  ~BuildAwaited(m)
  BY <1>2, <1>4
<1>. QED  BY <1>3, <1>4 DEF NoContention

\* The inductive invariant holds in every reachable state.
LEMMA Invariance == Spec => []IInv
<1>. QED  BY Initially, Inductive, PTL DEF Spec

\* Every variable keeps its type, no launcher runs more simulations than it has slots
\* (ResourceScheduler), and the exclusive lease of profile.db excludes the shared ones.
THEOREM TypeCorrect == Spec => []TypeOK
<1>1. IInv => TypeOK
  BY DEF IInv, TypeOK, DbLeases, LeasesExclude
<1>. QED  BY <1>1, Invariance, PTL

\* However many launchers there are and however often they are killed or interrupted:
\* while one waits for its simulator, none that waits too runs one in the same log_dir
\* or builds rows, the rows are there, the metadata is its own and unmarked.
THEOREM NoContentionHolds == Spec => []NoContention
<1>. QED  BY Exclusive, Invariance, PTL

\* The marker vouches for a run: what passes for complete was left by a run that ended
\* well, of the config that run_config.yaml and raw/params.json name, unless a launcher
\* was lost at the wrong time.
THEOREM CompleteIsTrueHolds == Spec => []CompleteIsTrue
<1>1. IInv => CompleteIsTrue
  BY DEF IInv
<1>. QED  BY <1>1, Invariance, PTL

\* Only a --refresh or a simulator that was left behind undoes a complete run; and a
\* builder is started for rows that are there only if the builder of a killed launcher
\* was after them too: between the probe and the start nobody else commits rows.
THEOREM NothingTwiceHolds == Spec => NothingTwice
<1>1. ASSUME IInv, [Next]_vars
      PROVE  /\ \A d \in Dirs : ~Undone(d)
             /\ \A l \in Launchers : ~Rebuilt(l)
  BY <1>1, NothingUndone, NothingRebuilt DEF IInv
<1>2. IInv /\ [Next]_vars =>
        [ /\ \A d \in Dirs : IsComplete(d) /\ ~IsComplete(d)' =>
                \E l \in Launchers : \/ l \in Refresh /\ task[l][d] = "described"
                                     \/ LeftBehind(l, d)
          /\ \A l \in Launchers : builder[l].at # "up" /\ builder'[l].at = "up" =>
                \/ builder'[l].key \notin rows
                \/ Orphaned(builder'[l].key)
        ]_vars
  BY <1>1 DEF Undone, Rebuilt
<1>. QED  BY <1>2, Invariance, PTL DEF Spec, NothingTwice

=============================================================================
