------------------------------- MODULE Launcher -------------------------------
(***************************************************************************)
(* Several invocations of the launcher beside each other: single runs and  *)
(* sweeps, each with its tasks in one event loop, and the child processes  *)
(* they start.  They share the run directories and profile.db, which they  *)
(* guard by flock leases, and what an earlier one left on disk.  A         *)
(* launcher may be interrupted (Ctrl-C: cancelled) or killed: its leases   *)
(* are then free at once, while its children, in sessions of their own,    *)
(* run on.                                                                 *)
(***************************************************************************)
EXTENDS Integers, FiniteSets

CONSTANTS
    Launchers,  \* invocations of the launcher, each of run_single or run_sweep
    Dirs,       \* concrete log_dirs
    Places,     \* what a run_directory lease is for: log_dirs, experiment roots
    Keys,       \* cache keys of profile.db
    Configs,    \* simulation configs
    Runs,       \* the log_dirs of an invocation
    Root,       \* its log_dir, or the experiment root of a sweep
    Asked,      \* the config it runs in them
    KeyOf,      \* the cache key of a config in a log_dir
    Refresh,    \* the invocations with --refresh
    Slots,      \* simulation_parallelism of an invocation
    MaxLosses,  \* bound on the launchers that are killed or interrupted
    Nobody, NoConfig, NoKey

Single(l) == Runs[l] = {Root[l]}

ASSUME LauncherAssumption ==
    /\ IsFiniteSet(Launchers) /\ IsFiniteSet(Dirs)
    /\ Dirs \subseteq Places
    /\ Nobody \notin Launchers /\ NoConfig \notin Configs /\ NoKey \notin Keys
    /\ Runs \in [Launchers -> (SUBSET Dirs) \ {{}}]
    /\ Root \in [Launchers -> Places]
    /\ \A l \in Launchers : Single(l) \/ Root[l] \notin Dirs
    /\ Asked \in [Launchers -> Configs]
    /\ KeyOf \in [Configs -> [Dirs -> Keys]]
    /\ Refresh \subseteq Launchers
    /\ Slots \in [Launchers -> Nat \ {0}]
    /\ MaxLosses \in Nat

VARIABLES
    pc,       \* where an invocation stands
    pending,  \* the log_dirs it found to do
    toBuild,  \* cache keys its prebuild has still to go through
    builder,  \* its cache builder: [key, at]
    task,     \* _launch_one of each of its log_dirs
    sim,      \* the simulator it started there: [at, cfg]
    holder,   \* who holds the lease of a run directory
    readers, writer,  \* who holds shared and exclusive leases of profile.db
    rows,     \* the cache keys whose rows are in profile.db
    preset,   \* on disk, the config of preset.json in a log_dir or experiment root;
    meta,     \*   for each log_dir the config of run_config.yaml and raw/params.json,
    out,      \*   what simulators wrote: [cfg, whole, clean],
    marker,   \*   and whether there is a .complete marker
    losses

leases   == << holder, readers, writer >>
disk     == << preset, meta, out, marker >>
children == << builder, sim >>
vars     == << pc, pending, toBuild, task, children, leases, rows, disk, losses >>

NoOutput == [cfg |-> NoConfig, whole |-> FALSE, clean |-> FALSE]

Init ==
    /\ pc = [l \in Launchers |-> "start"]
    /\ pending = [l \in Launchers |-> {}]
    /\ toBuild = [l \in Launchers |-> {}]
    /\ builder = [l \in Launchers |-> [key |-> NoKey, at |-> "none"]]
    /\ task = [l \in Launchers |-> [d \in Dirs |-> "none"]]
    /\ sim = [l \in Launchers |-> [d \in Dirs |-> [at |-> "none", cfg |-> NoConfig]]]
    /\ holder = [p \in Places |-> Nobody]
    /\ readers = {} /\ writer = Nobody
    /\ rows = {}
    /\ preset = [p \in Places |-> NoConfig]
    /\ meta = [d \in Dirs |-> NoConfig]
    /\ out = [d \in Dirs |-> NoOutput]
    /\ marker = [d \in Dirs |-> FALSE]
    /\ losses = 0

Alive(child) == child.at \in {"up", "writing", "dying"}
Ended(child) == child.at \in {"ok", "failed"}

\* The key of what l runs in d.
Key(l, d) == KeyOf[Asked[l]][d]

\* validate_simulation_artifacts, and _is_complete: the marker and the artifacts.
IsValid(d)    == out[d].whole
IsComplete(d) == marker[d] /\ IsValid(d)

NeedsRun(l, d) == l \in Refresh \/ ~IsComplete(d)

-----------------------------------------------------------------------------
(* Leases.  A launcher that ends or is killed holds none. *)

\* The lease of a task ends with it; that of a single run belongs to the run.
DirReleased(l, ds) ==
    [p \in Places |-> IF p \in ds /\ ~Single(l) /\ holder[p] = l THEN Nobody ELSE holder[p]]

AllDirsReleased(l) == [p \in Places |-> IF holder[p] = l THEN Nobody ELSE holder[p]]

\* Shared leases: of the probe of a prebuild, and of each simulator.
Probe(l)        == << l, "probe" >>
ReadBy(l)       == { x \in readers : x[1] = l }
WriterReleased(l) == IF writer = l THEN Nobody ELSE writer

\* As MayRead, were a shared lease given beside the exclusive one.
MayReadBesideWriter == TRUE
MayRead  == writer = Nobody
\* As MayWrite, were running simulators not waited for.
MayWriteBesideReaders == writer = Nobody
MayWrite == writer = Nobody /\ readers = {}

-----------------------------------------------------------------------------
(* The invocation: run_single and run_sweep. *)

\* The lease of the root, then what has to be run, and preset.json in the root
\* (write_shared_metadata, which a complete single run does not reach); there is
\* no await between.
Open(l) ==
    /\ pc[l] = "start"
    /\ holder[Root[l]] = Nobody
    /\ holder' = [holder EXCEPT ![Root[l]] = l]
    /\ pending' = [pending EXCEPT ![l] = { d \in Runs[l] : NeedsRun(l, d) }]
    /\ preset' = IF Single(l) /\ pending'[l] = {} THEN preset
                 ELSE [preset EXCEPT ![Root[l]] = Asked[l]]
    /\ pc' = [pc EXCEPT ![l] = IF pending'[l] = {} THEN "closing" ELSE "opened"]
    /\ UNCHANGED << toBuild, builder, task, sim, readers, writer, rows, meta, out, marker,
                    losses >>

\* prebuild_caches: the probe under a shared lease.
StartProbe(l) ==
    /\ pc[l] = "opened"
    /\ MayRead
    /\ readers' = readers \cup {Probe(l)}
    /\ pc' = [pc EXCEPT ![l] = "probing"]
    /\ UNCHANGED << pending, toBuild, builder, task, sim, holder, writer, rows, disk, losses >>

\* dry-run reports what is missing, or fails.
EndProbe(l) ==
    /\ pc[l] = "probing"
    /\ readers' = readers \ {Probe(l)}
    /\ toBuild' = [toBuild EXCEPT ![l] = { Key(l, d) : d \in pending[l] } \ rows]
    /\ \/ pc' = [pc EXCEPT ![l] = IF toBuild'[l] = {} THEN "running" ELSE "queued"]
       \/ pc' = [pc EXCEPT ![l] = "closing"]
    /\ UNCHANGED << pending, builder, task, sim, holder, writer, rows, disk, losses >>

StartBuilding(l) ==
    /\ pc[l] = "queued"
    /\ MayWrite
    /\ writer' = l
    /\ pc' = [pc EXCEPT ![l] = "building"]
    /\ UNCHANGED << pending, toBuild, builder, task, sim, holder, readers, rows, disk, losses >>

IsMissing(k) == k \notin rows

\* "a waiting launcher skips build-cache-only if the first launcher has already
\* filled the rows" (launcher/README.md).
SkipBuilt(l, k) ==
    /\ pc[l] = "building" /\ builder[l].at = "none"
    /\ k \in toBuild[l] /\ ~IsMissing(k)
    /\ toBuild' = [toBuild EXCEPT ![l] = @ \ {k}]
    /\ UNCHANGED << pc, pending, builder, task, sim, leases, rows, disk, losses >>

\* The probe before a build has found rows missing; it is a child of its own, and
\* the launcher awaits its end.
FindMissing(l, k) ==
    /\ pc[l] = "building" /\ builder[l].at = "none"
    /\ k \in toBuild[l] /\ IsMissing(k)
    /\ builder' = [builder EXCEPT ![l] = [key |-> k, at |-> "probed"]]
    /\ UNCHANGED << pc, pending, toBuild, task, sim, leases, rows, disk, losses >>

SpawnBuilder(l) ==
    /\ pc[l] = "building" /\ builder[l].at = "probed"
    /\ builder' = [builder EXCEPT ![l].at = "up"]
    /\ UNCHANGED << pc, pending, toBuild, task, sim, leases, rows, disk, losses >>

\* The builder has been reaped, and the rows are probed a third time.
Verified(l) ==
    /\ pc[l] = "building"
    /\ builder[l].at = "ok" /\ ~IsMissing(builder[l].key)
    /\ toBuild' = [toBuild EXCEPT ![l] = @ \ {builder[l].key}]
    /\ builder' = [builder EXCEPT ![l] = [key |-> NoKey, at |-> "none"]]
    /\ UNCHANGED << pc, pending, task, sim, leases, rows, disk, losses >>

\* As AfterBuilding, were the lease kept when the prebuild fails.
KeptOnFailure(l, ok) == IF ok THEN WriterReleased(l) ELSE writer
AfterBuilding(l, ok) == WriterReleased(l)

\* The builder failed or left rows missing, a probe failed, the third one too, or
\* there is no GPU.
FailBuilding(l) ==
    /\ pc[l] = "building"
    /\ toBuild[l] # {}
    /\ ~Alive(builder[l])
    /\ writer' = AfterBuilding(l, FALSE)
    /\ pc' = [pc EXCEPT ![l] = "closing"]
    /\ UNCHANGED << pending, toBuild, builder, task, sim, holder, readers, rows, disk, losses >>

EndBuilding(l) ==
    /\ pc[l] = "building" /\ toBuild[l] = {}
    /\ writer' = AfterBuilding(l, TRUE)
    /\ pc' = [pc EXCEPT ![l] = "running"]
    /\ UNCHANGED << pending, toBuild, builder, task, sim, holder, readers, rows, disk, losses >>

Finished(l) == \A d \in pending[l] : task[l][d] \in {"ok", "failed"}

\* The invocation returns and gives its root back.
Close(l) ==
    /\ pc[l] = "closing" \/ (pc[l] = "running" /\ Finished(l))
    /\ holder' = AllDirsReleased(l)
    /\ pc' = [pc EXCEPT ![l] = "done"]
    /\ UNCHANGED << pending, toBuild, builder, task, sim, readers, writer, rows, disk, losses >>

-----------------------------------------------------------------------------
(* One task, _launch_one. *)

\* As StillNeeded, were what the sweep found at its start not looked at again.
NeededAtFirst(l, d) == TRUE
StillNeeded(l, d) == NeedsRun(l, d)

\* Under the lease of the log_dir: skip it if it is complete by now, else write
\* the config and the metadata.
Begin(l, d) ==
    /\ pc[l] = "running" /\ d \in pending[l]
    /\ task[l][d] = "none"
    /\ holder[d] \in (IF Single(l) THEN {l} ELSE {Nobody})
    /\ IF StillNeeded(l, d)
       THEN /\ task' = [task EXCEPT ![l][d] = "described"]
            /\ holder' = [holder EXCEPT ![d] = l]
            /\ meta' = [meta EXCEPT ![d] = Asked[l]]
       ELSE /\ task' = [task EXCEPT ![l][d] = "ok"]
            /\ UNCHANGED << holder, meta >>
    /\ UNCHANGED << pc, pending, toBuild, children, readers, writer, rows, preset, out, marker,
                    losses >>

\* As Unmarked, were the marker of the run before left in place.
StillMarked(d) == marker
Unmarked(d) == [marker EXCEPT ![d] = FALSE]

Unlink(l, d) ==
    /\ pc[l] = "running"
    /\ task[l][d] = "described"
    /\ marker' = Unmarked(d)
    /\ task' = [task EXCEPT ![l][d] = "ready"]
    /\ UNCHANGED << pc, pending, toBuild, children, leases, rows, preset, meta, out, losses >>

InSlot(l) == { d \in Dirs : task[l][d] \in {"slotted", "up", "stopping"} }

SlotFree(l) == Cardinality(InSlot(l)) < Slots[l]

TakeSlot(l, d) ==
    /\ pc[l] = "running"
    /\ task[l][d] = "ready" /\ SlotFree(l)
    /\ task' = [task EXCEPT ![l][d] = "slotted"]
    /\ UNCHANGED << pc, pending, toBuild, children, leases, rows, disk, losses >>

\* The simulator is started under a shared lease of profile.db.
Spawn(l, d) ==
    /\ pc[l] = "running"
    /\ task[l][d] = "slotted" /\ MayRead
    /\ readers' = readers \cup {<< l, d >>}
    /\ task' = [task EXCEPT ![l][d] = "up"]
    /\ sim' = [sim EXCEPT ![l][d] = [at |-> "up", cfg |-> NoConfig]]
    /\ UNCHANGED << pc, pending, toBuild, builder, holder, writer, rows, disk, losses >>

\* The simulator has been reaped: slot and shared lease are given back, and the
\* artifacts validated, in one step of the event loop.
Reap(l, d) ==
    /\ pc[l] = "running"
    /\ task[l][d] = "up" /\ Ended(sim[l][d])
    /\ readers' = readers \ {<< l, d >>}
    /\ IF sim[l][d].at = "ok" /\ IsValid(d)
       THEN task' = [task EXCEPT ![l][d] = "analyzed"] /\ UNCHANGED holder
       ELSE /\ task' = [task EXCEPT ![l][d] = "failed"]
            /\ holder' = DirReleased(l, {d})
    /\ UNCHANGED << pc, pending, toBuild, children, writer, rows, disk, losses >>

\* The analysis is over, whatever came of it: mark_complete.
Finalize(l, d) ==
    /\ pc[l] = "running"
    /\ task[l][d] = "analyzed"
    /\ marker' = [marker EXCEPT ![d] = TRUE]
    /\ task' = [task EXCEPT ![l][d] = "ok"]
    /\ holder' = DirReleased(l, {d})
    /\ UNCHANGED << pc, pending, toBuild, children, readers, writer, rows, preset, meta, out,
                    losses >>

-----------------------------------------------------------------------------
(* Cancellation. *)

Unfinished(l) == { d \in pending[l] : task[l][d] \notin {"ok", "failed"} }
Running(l)    == { d \in Dirs : task[l][d] = "up" /\ Alive(sim[l][d]) }

\* No step of the event loop ends between the metadata and the unlink.
AtAwait(l) == \A d \in Dirs : task[l][d] # "described"

\* Every unfinished task is cancelled: one whose simulator runs sends it a SIGTERM
\* and waits for its end, the others end and give their leases back.
Cancel(l) ==
    /\ task' = [task EXCEPT ![l] = [d \in Dirs |->
          IF d \in Running(l) THEN "stopping"
          ELSE IF d \in Unfinished(l) THEN "cancelled" ELSE task[l][d]]]
    /\ sim' = [sim EXCEPT ![l] = [d \in Dirs |->
          IF d \in Running(l) THEN [sim[l][d] EXCEPT !.at = "dying"] ELSE sim[l][d]]]
    /\ readers' = { x \in readers : x[1] = l => x[2] \in Running(l) }

\* Ctrl-C while the cache is seen to: a builder is stopped and waited for.
InterruptPrebuild(l) ==
    /\ pc[l] \in {"opened", "probing", "queued", "building"}
    /\ IF Alive(builder[l])
       THEN builder' = [builder EXCEPT ![l].at = "dying"] /\ UNCHANGED writer
       ELSE writer' = WriterReleased(l) /\ UNCHANGED builder
    /\ readers' = readers \ ReadBy(l)
    /\ UNCHANGED << task, sim, holder >>

\* Ctrl-C while the tasks run: the main task is cancelled, and gather with it.
InterruptTasks(l) ==
    /\ pc[l] = "running" /\ ~Finished(l) /\ AtAwait(l)
    /\ Cancel(l)
    /\ holder' = DirReleased(l, Unfinished(l) \ Running(l))
    /\ UNCHANGED << builder, writer >>

Interrupt(l) ==
    /\ losses < MaxLosses /\ losses' = losses + 1
    /\ InterruptPrebuild(l) \/ InterruptTasks(l)
    /\ pc' = [pc EXCEPT ![l] = "cancelling"]
    /\ UNCHANGED << pending, toBuild, rows, disk >>

\* A task raises, as when its simulator cannot be started: gather passes the
\* exception on at once, the sweep gives its root back and asyncio.run cancels
\* the other tasks.
SpawnRaises(l, d) ==
    /\ pc[l] = "running" /\ AtAwait(l)
    /\ task[l][d] = "slotted" /\ MayRead
    /\ Cancel(l)
    /\ holder' = [p \in Places |->
          IF p = Root[l] /\ holder[p] = l THEN Nobody
          ELSE DirReleased(l, Unfinished(l) \ Running(l))[p]]
    /\ pc' = [pc EXCEPT ![l] = "raising"]
    /\ UNCHANGED << pending, toBuild, builder, writer, rows, disk, losses >>

\* A cancelled child is waited for, and only then are its leases given back.
TaskStopped(l, d) ==
    /\ pc[l] \in {"cancelling", "raising"}
    /\ task[l][d] = "stopping" /\ Ended(sim[l][d])
    /\ task' = [task EXCEPT ![l][d] = "cancelled"]
    /\ readers' = readers \ {<< l, d >>}
    /\ holder' = DirReleased(l, {d})
    /\ UNCHANGED << pc, pending, toBuild, children, writer, rows, disk, losses >>

Stopping(l) == { d \in Dirs : task[l][d] = "stopping" }

\* Once one task of an interrupted sweep has ended as cancelled, gather is done:
\* the sweep gives its root back, and asyncio.run cancels the rest a second time.
\* A task that waits for its simulator to die stops waiting.
CancelAgain(l) ==
    /\ pc[l] = "cancelling" /\ ~Single(l)
    /\ Stopping(l) # {}
    /\ \E d \in Dirs : task[l][d] = "cancelled"
    /\ task' = [task EXCEPT ![l] = [d \in Dirs |->
          IF task[l][d] = "stopping" THEN "left" ELSE task[l][d]]]
    /\ readers' = readers \ ReadBy(l)
    /\ holder' = AllDirsReleased(l)
    /\ pc' = [pc EXCEPT ![l] = "done"]
    /\ UNCHANGED << pending, toBuild, children, writer, rows, disk, losses >>

EndCancelled(l) ==
    /\ pc[l] \in {"cancelling", "raising"}
    /\ Stopping(l) = {} /\ ~Alive(builder[l])
    /\ writer' = WriterReleased(l)
    /\ holder' = AllDirsReleased(l)
    /\ pc' = [pc EXCEPT ![l] = "done"]
    /\ UNCHANGED << pending, toBuild, task, children, readers, rows, disk, losses >>

\* SIGKILL, SIGTERM or the end of the session: the kernel frees the leases.
Kill(l) ==
    /\ pc[l] \notin {"start", "done", "killed"}
    /\ losses < MaxLosses /\ losses' = losses + 1
    /\ pc' = [pc EXCEPT ![l] = "killed"]
    /\ holder' = AllDirsReleased(l)
    /\ readers' = readers \ ReadBy(l)
    /\ writer' = WriterReleased(l)
    /\ UNCHANGED << pending, toBuild, builder, task, sim, rows, disk >>

-----------------------------------------------------------------------------
(* The children. *)

\* build-cache-only commits the rows of its key, or fails before or after that.
BuilderEnds(l) ==
    /\ Alive(builder[l])
    /\ \/ /\ builder[l].at = "up"
          /\ rows' = rows \cup {builder[l].key}
          /\ \E at \in {"ok", "failed"} : builder' = [builder EXCEPT ![l].at = at]
       \/ /\ \E at \in {"ok", "failed"} :
                /\ builder[l].at = "dying" => at = "failed"
                /\ builder' = [builder EXCEPT ![l].at = at]
          /\ UNCHANGED rows
    /\ UNCHANGED << pc, pending, toBuild, task, sim, leases, disk, losses >>

\* The simulator reads its config and writes over the files of the run before, each
\* at its first row: what is there may go on passing for a whole run.
SimOpens(l, d) ==
    /\ sim[l][d].at = "up"
    /\ sim' = [sim EXCEPT ![l][d] = [at |-> "writing", cfg |-> meta[d]]]
    /\ \E whole \in {FALSE, IsValid(d)} :
          out' = [out EXCEPT ![d] = [cfg |-> meta[d], whole |-> whole, clean |-> FALSE]]
    /\ UNCHANGED << pc, pending, toBuild, builder, task, leases, rows, preset, meta, marker,
                    losses >>

\* It ends well; or badly, also after it has written its summary (a cost log that
\* failed); or it dies, and may leave a file half written.
SimEnds(l, d) ==
    /\ Alive(sim[l][d])
    /\ \/ /\ sim[l][d].at = "writing"
          /\ \E clean \in BOOLEAN :
                /\ out' = [out EXCEPT ![d] =
                      [cfg |-> sim[l][d].cfg, whole |-> TRUE, clean |-> clean]]
                /\ sim' = [sim EXCEPT ![l][d].at = IF clean THEN "ok" ELSE "failed"]
       \/ /\ sim' = [sim EXCEPT ![l][d].at = "failed"]
          /\ \/ UNCHANGED out
             \/ sim[l][d].at # "up" /\ out' = [out EXCEPT ![d].whole = FALSE]
    /\ UNCHANGED << pc, pending, toBuild, builder, task, leases, rows, preset, meta, marker,
                    losses >>

-----------------------------------------------------------------------------

TaskStep(l, d) ==
    \/ Begin(l, d) \/ Unlink(l, d) \/ TakeSlot(l, d) \/ Spawn(l, d)
    \/ Reap(l, d) \/ Finalize(l, d) \/ TaskStopped(l, d)

Proceed(l) ==
    \/ Open(l) \/ StartProbe(l) \/ EndProbe(l) \/ StartBuilding(l)
    \/ \E k \in Keys : SkipBuilt(l, k) \/ FindMissing(l, k)
    \/ SpawnBuilder(l) \/ Verified(l) \/ FailBuilding(l) \/ EndBuilding(l) \/ Close(l)
    \/ CancelAgain(l) \/ EndCancelled(l)
    \/ \E d \in Dirs : TaskStep(l, d)

Child(l) ==
    \/ BuilderEnds(l)
    \/ \E d \in Dirs : SimOpens(l, d) \/ SimEnds(l, d)

Next ==
    \E l \in Launchers :
        \/ Proceed(l) \/ Child(l)
        \/ Interrupt(l) \/ Kill(l)
        \/ \E d \in Dirs : SpawnRaises(l, d)

\* A launcher polls its leases and its children, and every child ends.
Fairness == \A l \in Launchers : WF_vars(Proceed(l)) /\ WF_vars(Child(l))

Spec == Init /\ [][Next]_vars /\ Fairness

-----------------------------------------------------------------------------
(* Properties. *)

\* simulation_parallelism, ResourceScheduler's semaphore.
SlotBound == \A l \in Launchers : Cardinality(InSlot(l)) <= Slots[l]

InvocationStates == {"start", "opened", "probing", "queued", "building", "running", "closing",
                     "cancelling", "raising", "done", "killed"}
TaskStates       == {"none", "described", "ready", "slotted", "up", "analyzed", "ok",
                     "failed", "stopping", "cancelled", "left"}
ChildStates      == {"none", "probed", "up", "writing", "dying", "ok", "failed"}

Typed ==
    /\ pc \in [Launchers -> InvocationStates]
    /\ pending \in [Launchers -> SUBSET Dirs]
    /\ toBuild \in [Launchers -> SUBSET Keys]
    /\ builder \in [Launchers -> [key : Keys \cup {NoKey}, at : ChildStates]]
    /\ task \in [Launchers -> [Dirs -> TaskStates]]
    /\ sim \in [Launchers -> [Dirs -> [at : ChildStates, cfg : Configs \cup {NoConfig}]]]
    /\ holder \in [Places -> Launchers \cup {Nobody}]
    /\ readers \subseteq Launchers \X (Dirs \cup {"probe"})
    /\ writer \in Launchers \cup {Nobody}
    /\ rows \subseteq Keys
    /\ preset \in [Places -> Configs \cup {NoConfig}]
    /\ meta \in [Dirs -> Configs \cup {NoConfig}]
    /\ out \in [Dirs -> [cfg : Configs \cup {NoConfig}, whole : BOOLEAN, clean : BOOLEAN]]
    /\ marker \in [Dirs -> BOOLEAN]
    /\ losses \in 0 .. MaxLosses

\* process/leases.py: the exclusive lease of profile.db excludes the shared ones.
LeasesExclude == writer # Nobody => readers = {}

TypeOK == Typed /\ SlotBound /\ LeasesExclude

\* A child somebody still waits for.
Awaited(l, d)      == pc[l] # "killed" /\ task[l][d] \in {"up", "stopping"} /\ Alive(sim[l][d])
BuildAwaited(l)    == pc[l] # "killed" /\ Alive(builder[l])
\* A child nobody waits for any more, or that ended so.
LeftBehind(l, d)   == task[l][d] = "left" \/ (pc[l] = "killed" /\ task[l][d] \in {"up", "stopping"})

\* launcher/README.md: "two launcher instances never write one run concurrently",
\* "no JIT/SQLite writer races", and metadata before spawn.  While a launcher waits
\* for its simulator, nobody who waits too runs one in the same log_dir or builds
\* rows; its rows are there (INV-3), the metadata is its own and there is no marker.
NoContention ==
    \A l \in Launchers :
        /\ \A d \in Dirs : Awaited(l, d) =>
              /\ \A m \in Launchers \ {l} : ~Awaited(m, d)
              /\ \A m \in Launchers : ~BuildAwaited(m)
              /\ Key(l, d) \in rows
              /\ meta[d] = Asked[l]
              /\ ~marker[d]
        /\ BuildAwaited(l) => \A m \in Launchers \ {l} : ~BuildAwaited(m)

\* markers.py: "written only after a zero-exit run", and the part of INV-2 that is
\* written at the spawn: what passes for complete is what a run left that ended
\* well, of the config that run_config.yaml and raw/params.json name, unless a
\* launcher was lost while its simulator ran, or is (or was killed) between the
\* metadata and the unlink.  Of preset.json it is not claimed: a single run writes
\* it before its prebuild, which may fail (sweep.py:336).
CompleteIsTrue ==
    \A d \in Dirs :
        (/\ IsComplete(d)
         /\ \A l \in Launchers : ~LeftBehind(l, d) /\ task[l][d] # "described")
            => out[d] = [cfg |-> meta[d], whole |-> TRUE, clean |-> TRUE]

\* The builder of a killed launcher may commit these rows after all.
Orphaned(k) == \E m \in Launchers : pc[m] = "killed" /\ builder[m].key = k

\* "On the default resume path a directory carrying it is skipped" (markers.py): a
\* complete run is undone by a --refresh or by a simulator that was left behind
\* only.  And between the probe that finds rows missing and the start of their
\* builder nobody else commits them, but for the builder of a killed launcher.
NothingTwice ==
    [][ /\ \A d \in Dirs : IsComplete(d) /\ ~IsComplete(d)' =>
              \E l \in Launchers : \/ l \in Refresh /\ task[l][d] = "described"
                                   \/ LeftBehind(l, d)
        /\ \A l \in Launchers : builder[l].at # "up" /\ builder'[l].at = "up" =>
              \/ builder'[l].key \notin rows
              \/ Orphaned(builder'[l].key)
      ]_vars

\* Whoever fails, is killed or is interrupted, every other invocation gets its
\* leases and ends.
Settles == <>(\A l \in Launchers : pc[l] \in {"done", "killed"})

=============================================================================
