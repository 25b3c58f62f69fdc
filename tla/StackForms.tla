------------------------------ MODULE StackForms ------------------------------
(***************************************************************************)
(* One Stack name on a Container-Host and the three runtime forms that can *)
(* run under it: a supervised process child with its Runs, a single-image  *)
(* container, and a compose project.  Desired state may change the form,   *)
(* the effective spec or the name's presence; the reconcile pass retires   *)
(* the old form and starts the new one while docker calls fail, children   *)
(* and containers die, Runs start and end, and the daemon is killed        *)
(* between any two steps.  What Docker holds outlives the daemon; of the   *)
(* daemon's knowledge only the compose record does, and it is written      *)
(* ahead of what it describes.                                             *)
(*                                                                         *)
(* A spec is one effective specification of the Stack; the files a compose *)
(* spec materializes to are its generation.  Images to build and secrets   *)
(* to pull are the prerequisites that may miss.                            *)
(***************************************************************************)
EXTENDS Integers, FiniteSets, Sequences

CONSTANTS
    Fingerprint,    \* effective specifications
    Incomplete,     \* of which a driver Stack's lack a run image
    Absent,         \* desired state does not name the Stack
    None,
    Desires,        \* what desired state may say of the Stack
    MaxChanges,     \* bound: changes of desired state
    MaxFailures,    \* bound: docker calls that fail, prerequisites that miss
    MaxUnsaved,     \* bound: failed writes of the compose records
    MaxDeaths,      \* bound: children and containers that die by themselves
    MaxCrashes,     \* bound: deaths of the daemon
    MaxLosses,      \* bound: of which some find the records' file unreadable
    MaxRuns         \* bound: Runs started

Desire == [form : {"process", "image", "compose"},
           spec : Fingerprint, up : BOOLEAN]
Child == [spec : Fingerprint, alive : BOOLEAN]
Container == [spec : Fingerprint, running : BOOLEAN]
Record == [spec : Fingerprint, state : {"pending", "applied"}]

ASSUME StackAssumption ==
    /\ Incomplete \subseteq Fingerprint
    /\ Desires \subseteq Desire \cup {Absent} /\ Desires # {}
    /\ Absent \notin Desire
    /\ None \notin Child \cup Container \cup Record
    /\ {MaxChanges, MaxFailures, MaxUnsaved, MaxDeaths, MaxCrashes,
        MaxLosses, MaxRuns} \subseteq Nat

VARIABLES
    desired,        \* the cached desired state, as the pass reads it
    \* The supervisor's child, its Run in flight, and a run container whose
    \* driver process is gone.
    child, busy, corpse,
    \* Docker: the single-image container and the compose project.
    image, project,
    \* The compose record in memory and on disk; the generations on disk.
    record, recordDisk, generations,
    todo,           \* the steps the pass still has to take, << >> between passes
    late,           \* history: the Run in flight began after the pass looked
    left            \* what is left of each bound

driver == <<child, busy, corpse>>
docker == <<image, project>>
records == <<record, recordDisk, generations>>
vars == <<desired, driver, docker, records, todo, late, left>>

Budget == {"change", "failure", "unsaved", "death", "crash", "loss", "run"}
Spend(b) == left[b] > 0 /\ left' = [left EXCEPT ![b] = @ - 1]

Alive == child # None /\ child.alive
Up == desired # Absent /\ desired.up
Wants(form) == Up /\ desired.form = form
Refused == Wants("process") /\ desired.spec \in Incomplete
\* Mutant: the confirmation records Docker's state.
AppliedAsRunning == [spec |-> desired.spec, state |-> "running"]

Applied == [spec |-> desired.spec, state |-> "applied"]

Init ==
    /\ desired \in Desires
    /\ child = None /\ busy = FALSE /\ corpse = FALSE
    /\ image = None /\ project = None
    /\ record = None /\ recordDisk = None /\ generations = {}
    /\ todo = << >> /\ late = FALSE
    /\ left = [b \in Budget |->
                 CASE b = "change" -> MaxChanges
                   [] b = "failure" -> MaxFailures
                   [] b = "unsaved" -> MaxUnsaved
                   [] b = "death" -> MaxDeaths
                   [] b = "crash" -> MaxCrashes
                   [] b = "loss" -> MaxLosses
                   [] b = "run" -> MaxRuns]

-----------------------------------------------------------------------------
\* The world around the daemon.

\* A heartbeat brings another desired state.
Change(d) ==
    /\ todo = << >> /\ d # desired
    /\ Spend("change")
    /\ desired' = d
    /\ UNCHANGED <<driver, docker, records, todo, late>>

RunStarts ==
    /\ Alive /\ ~busy
    /\ Spend("run")
    /\ busy' = TRUE
    /\ late' = (todo # << >>)
    /\ UNCHANGED <<desired, child, corpse, docker, records, todo>>

RunEnds ==
    /\ busy
    /\ busy' = FALSE
    /\ UNCHANGED <<desired, child, corpse, docker, records, todo, late, left>>

\* The driver exits; its Run's container goes on without it.
ChildDies ==
    /\ Alive
    /\ Spend("death")
    /\ child' = [child EXCEPT !.alive = FALSE]
    /\ corpse' = (corpse \/ busy) /\ busy' = FALSE
    /\ UNCHANGED <<desired, docker, records, todo, late>>

ContainersStop ==
    /\ Spend("death")
    /\ \/ /\ image # None /\ image.running
          /\ image' = [image EXCEPT !.running = FALSE]
          /\ UNCHANGED project
       \/ /\ project # None /\ project.running
          /\ project' = [project EXCEPT !.running = FALSE]
          /\ UNCHANGED image
    /\ UNCHANGED <<desired, driver, records, todo, late>>

\* No child outlives the daemon; containers and what is on disk do.
Die ==
    /\ child' = None
    /\ corpse' = (corpse \/ busy) /\ busy' = FALSE
    /\ todo' = << >> /\ late' = FALSE
    /\ UNCHANGED <<desired, docker, generations>>

Crash ==
    /\ Spend("crash")
    /\ record' = recordDisk
    /\ UNCHANGED recordDisk
    /\ Die

\* An unreadable file of records degrades to an empty map.
CrashAndLose ==
    /\ recordDisk # None
    /\ Spend("loss")
    /\ record' = None /\ recordDisk' = None
    /\ Die

-----------------------------------------------------------------------------
\* The pass: what the Stack needs.

Closing == <<"reap", "sweep">>
Plan(steps) ==
    /\ todo' = steps \o Closing
    /\ UNCHANGED <<desired, driver, docker, records, left>>

Begin ==
    /\ todo = << >>
    /\ todo' = <<"look">> /\ late' = FALSE
    /\ UNCHANGED <<desired, driver, docker, records, left>>

Looking == todo = <<"look">> /\ UNCHANGED late
If(condition, step) == IF condition THEN <<step>> ELSE << >>

\* Stopped, drained or gone from desired state: every form goes.
TearDown ==
    /\ Looking /\ ~Up
    /\ Plan(If(child # None \/ desired # Absent, "stop")
              \o <<"unimage", "down", "untracked">>)

\* The desired form runs at its spec, and a container form alone.  Of a
\* compose project only a confirmed record says so.
ChildKept == Alive /\ child.spec = desired.spec
ImageKept ==
    /\ child = None /\ record = None
    /\ image = [spec |-> desired.spec, running |-> TRUE]

\* Mutant: a pending record of the desired spec passes for converged.
ProjectAssumed ==
    /\ child = None /\ image = None
    /\ record # None /\ record.spec = desired.spec
    /\ project # None /\ project.running

ProjectKept ==
    /\ child = None /\ image = None
    /\ record = Applied
    /\ project # None /\ project.running

\* A child at its spec is left alone; a stale form beside it is not.
KeepChild ==
    /\ Looking /\ Wants("process") /\ ~Refused /\ ChildKept
    /\ Plan(IF image # None \/ record # None
              THEN <<"unimage", "down">> ELSE << >>)

KeepContainers ==
    /\ Looking
    /\ \/ Wants("image") /\ ImageKept
       \/ Wants("compose") /\ ProjectKept
    /\ Plan(<< >>)

\* A driver without a run image must not run, nor go on running.
Refuse == Looking /\ Refused /\ Plan(If(Alive, "stop"))

\* Mutant: a Run in flight does not hold back a change of form.
DeferredRestart ==
    /\ Up /\ ~Refused /\ Alive /\ busy
    /\ desired.form = "process" /\ child.spec # desired.spec

\* A child in the middle of a Run defers its own replacement, by another
\* spec as by a container form.
Deferred ==
    /\ Up /\ ~Refused /\ Alive /\ busy
    /\ desired.form = "process" => child.spec # desired.spec

Defer == Looking /\ Deferred /\ Plan(<< >>)

Due(form) == Looking /\ Wants(form) /\ ~Refused /\ ~Deferred

\* What the desired form needs first: the old forms gone, in this order.
StartProcess ==
    /\ Due("process") /\ ~ChildKept
    /\ Plan(If(Alive, "stop") \o <<"unimage", "down", "start">>)

StartImage ==
    /\ Due("image") /\ ~ImageKept
    /\ Plan(If(child # None, "stop") \o <<"down", "run">>)

StartProject ==
    /\ Due("compose") /\ ~ProjectKept
    /\ Plan(<<"record">> \o If(child # None, "stop")
              \o If(image # None, "unimage") \o <<"up", "confirm">>)

\* An image is not built or a secret not to be had: nothing is touched.
PrerequisiteMissing ==
    /\ \/ Due("process") /\ ~ChildKept
       \/ Due("image") /\ ~ImageKept
       \/ Due("compose") /\ ~ProjectKept
    /\ Spend("failure")
    /\ todo' = Closing
    /\ UNCHANGED <<desired, driver, docker, records>>

-----------------------------------------------------------------------------
\* The pass: its steps.

At(step) == todo # << >> /\ Head(todo) = step
Done == todo' = SubSeq(todo, 2, Len(todo))

\* Mutant: a failed teardown is logged and the start goes on.
RaiseNothing == Done

\* A step that raises ends the Stack's turn; the teardown of a name desired
\* state lacks isolates each object.
Raise == IF desired = Absent THEN Done ELSE todo' = Closing

\* Kill the child's tree, then remove the run containers it owns.
StopChild ==
    /\ At("stop")
    /\ child' = None /\ busy' = FALSE
    /\ \/ corpse' = FALSE /\ Done /\ UNCHANGED left
       \/ /\ busy \/ corpse
          /\ corpse' = TRUE
          /\ Raise /\ Spend("failure")
    /\ UNCHANGED <<desired, docker, records, late>>

RemoveImage ==
    /\ At("unimage")
    /\ \/ /\ image' = None
          /\ Done /\ UNCHANGED left
       \/ /\ Spend("failure")
          /\ UNCHANGED image
          \* The listing of the containers fails the whole sweep, the removal
          \* of one only itself.
          /\ todo' = Closing \/ (image # None /\ Raise)
    /\ UNCHANGED <<desired, driver, project, records, late>>

\* docker compose down fails without the files the record names; what a
\* failed one leaves may still run.
Halted(c) == project # None /\ c = [project EXCEPT !.running = FALSE]

DownFails ==
    \/ record.spec \notin generations /\ UNCHANGED <<project, left>>
    \/ /\ Spend("failure")
       /\ project' \in {project, None} \cup {c \in Container : Halted(c)}

ComposeDown ==
    /\ At("down")
    /\ \/ /\ record = None
          /\ Done /\ UNCHANGED <<project, record, recordDisk, left>>
       \/ /\ record # None /\ record.spec \in generations
          /\ project' = None
          /\ record' = None
          /\ \/ recordDisk' = None /\ Done /\ UNCHANGED left
             \/ UNCHANGED recordDisk /\ Raise /\ Spend("unsaved")
       \/ /\ record # None
          /\ DownFails
          /\ Raise /\ UNCHANGED <<record, recordDisk>>
    /\ UNCHANGED <<desired, driver, image, generations, late>>

\* A stopped compose Stack whose project no record knows is downed with the
\* desired files.
DownUntracked ==
    /\ At("untracked")
    /\ Done
    /\ IF desired # Absent /\ desired.form = "compose"
          /\ record = None /\ project # None
         THEN /\ generations' = generations \cup {desired.spec}
              /\ \/ project' = None /\ UNCHANGED left
                 \/ Spend("failure") /\ UNCHANGED project
         ELSE UNCHANGED <<project, generations, left>>
    /\ UNCHANGED <<desired, driver, image, record, recordDisk, late>>

StartChild ==
    /\ At("start")
    /\ child' = [spec |-> desired.spec, alive |-> TRUE]
    /\ Done
    /\ UNCHANGED <<desired, busy, corpse, docker, records, late, left>>

\* docker run: the container of that name is removed first.
RunImage ==
    /\ At("run")
    /\ Done
    /\ \/ image' = [spec |-> desired.spec, running |-> TRUE] /\ UNCHANGED left
       \/ /\ Spend("failure")
          /\ image' \in {image, None, [spec |-> desired.spec, running |-> FALSE]}
    /\ UNCHANGED <<desired, driver, project, records, late>>

\* Mutant: one record for both ends of the compose up.
WriteApplied ==
    /\ At("record")
    /\ generations' = generations \cup {desired.spec}
    /\ \/ /\ record' = Applied /\ recordDisk' = record'
          /\ Done /\ UNCHANGED left
       \/ /\ Spend("unsaved")
          /\ Raise /\ UNCHANGED <<record, recordDisk>>
    /\ UNCHANGED <<desired, driver, docker, late>>

\* The files are materialized and the record persisted before any form goes.
WriteAhead ==
    /\ At("record")
    /\ generations' = generations \cup {desired.spec}
    /\ \/ /\ record' = [spec |-> desired.spec, state |-> "pending"]
          /\ recordDisk' = record'
          /\ Done /\ UNCHANGED left
       \/ /\ Spend("unsaved")
          /\ Raise /\ UNCHANGED <<record, recordDisk>>
    /\ UNCHANGED <<desired, driver, docker, late>>

ComposeUp ==
    /\ At("up")
    /\ \/ /\ project' = [spec |-> desired.spec, running |-> TRUE]
          /\ Done /\ UNCHANGED left
       \/ /\ Spend("failure")
          /\ project' \in {project} \cup [spec : {desired.spec}, running : BOOLEAN]
          /\ Raise
    /\ UNCHANGED <<desired, driver, image, records, late>>

Confirm ==
    /\ At("confirm")
    /\ record' = Applied
    /\ \/ recordDisk' = record' /\ UNCHANGED left
       \/ UNCHANGED recordDisk /\ Spend("unsaved")
    /\ Done
    /\ UNCHANGED <<desired, driver, docker, generations, late>>

\* Run containers whose owner has no live driver are removed.
Reap ==
    /\ At("reap")
    /\ \/ corpse' = (corpse /\ Alive) /\ UNCHANGED left
       \/ corpse /\ ~Alive /\ UNCHANGED corpse /\ Spend("failure")
    /\ Done
    /\ UNCHANGED <<desired, child, busy, docker, records, late>>

\* Mutant: only the record's own generation is kept.
KeptOwn == IF record = None THEN {} ELSE {record.spec}

\* The generations a sweep keeps: all under a pending record, whose
\* predecessor may still run unrecorded; else the record's own.
Kept == CASE record = None -> {}
          [] record # None /\ record.state = "pending" -> generations
          [] OTHER -> {record.spec}

Sweep ==
    /\ At("sweep")
    /\ \/ generations' = generations \cap Kept /\ UNCHANGED left
       \/ ~(generations \subseteq Kept) /\ UNCHANGED generations /\ Spend("failure")
    /\ Done
    /\ UNCHANGED <<desired, driver, docker, record, recordDisk, late>>

-----------------------------------------------------------------------------
Look ==
    \/ TearDown \/ KeepChild \/ KeepContainers \/ Refuse \/ Defer
    \/ StartProcess \/ StartImage \/ StartProject \/ PrerequisiteMissing

Steps ==
    \/ StopChild \/ RemoveImage \/ ComposeDown \/ DownUntracked
    \/ StartChild \/ RunImage \/ WriteAhead \/ ComposeUp \/ Confirm
    \/ Reap \/ Sweep

Daemon == Begin \/ Look \/ Steps

Next ==
    \/ Daemon
    \/ \E d \in Desires : Change(d)
    \/ RunStarts \/ RunEnds \/ ChildDies \/ ContainersStop
    \/ Crash \/ CrashAndLose

\* The daemon's loop runs on; a Run ends, by finishing or by its time limit.
Fairness == WF_vars(Daemon) /\ WF_vars(RunEnds)

Spec == Init /\ [][Next]_vars /\ Fairness

-----------------------------------------------------------------------------
\* Properties.

\* Every variable keeps its type.
TypeOK ==
    /\ desired \in Desires
    /\ child \in Child \cup {None} /\ busy \in BOOLEAN /\ corpse \in BOOLEAN
    /\ image \in Container \cup {None} /\ project \in Container \cup {None}
    /\ record \in Record \cup {None} /\ recordDisk \in Record \cup {None}
    /\ generations \subseteq Fingerprint
    /\ todo \in Seq({"look", "stop", "unimage", "down", "untracked", "start",
                     "run", "record", "up", "confirm", "reap", "sweep"})
    /\ late \in BOOLEAN
    /\ left \in [Budget -> Nat]

Undamaged == left["loss"] = MaxLosses
Running(container) == container # None /\ container.running

\* Two forms of one Stack never run at once (_converge_process,
\* _converge_compose, _converge_single_image: the losing form is retired
\* before the new one starts, a failed retirement stops the start), whatever
\* fails and wherever the daemon dies, as long as the records' file is read.
OneForm ==
    Undamaged => /\ Alive => ~Running(image) /\ ~Running(project)
                 /\ Running(image) => ~Running(project)

\* A compose project on the host is in the records on disk, with the record's
\* files and the project's own still there to tear it down with
\* (_write_ahead_compose, _compose_down, _sweep_compose_generations).
ProjectRecorded ==
    Undamaged /\ project # None =>
        /\ recordDisk # None
        /\ {recordDisk.spec, project.spec} \subseteq generations

\* A record says applied only when what the project runs is its spec, in
\* memory as on disk: a pending one never passes for converged
\* (_converge_compose).
AppliedIsTrue ==
    \A r \in {record, recordDisk} \ {None} :
        r.state = "applied" /\ project # None => project.spec = r.spec

\* One form of the Stack is on the host, and it can be taken down again from
\* what is recorded.
HostInvariant == TypeOK /\ OneForm /\ ProjectRecorded /\ AppliedIsTrue

\* A pass of a Stack that may stay up ends no Run that was in flight when it
\* looked: a restart or a change of form waits for it (_inflight_blocker,
\* _child_inflight_blocker).
RunsSpared ==
    [][Up /\ ~Refused /\ busy /\ child' = None /\ todo' # << >> => late]_vars

\* What of the Stack the host should run.  A refused driver leaves container
\* forms as they are; a run container outlives its driver only beside a
\* driver of the same Stack.
AsDesired ==
    IF Refused THEN ~Alive /\ ~corpse
    ELSE /\ child = (IF Wants("process")
                     THEN [spec |-> desired.spec, alive |-> TRUE] ELSE None)
         /\ image = (IF Wants("image")
                     THEN [spec |-> desired.spec, running |-> TRUE] ELSE None)
         /\ IF Wants("compose")
              THEN project = [spec |-> desired.spec, running |-> TRUE]
              ELSE project # None => ~Undamaged
         /\ corpse => Wants("process")

\* A record read back from disk whose project is down and whose generation
\* has been swept: no compose down can succeed for it.
Wedged == record # None /\ record.spec \notin generations

\* Once desired state settles and failures stop, the host comes to run what
\* is desired and stays so (_reconcile, pass after pass).
Converges == <>[](AsDesired \/ Wedged)

\* What the docs say: a run container whose owning driver is gone is a corpse
\* and is removed (_reap_orphans; ADR-0013).
OrphansReaped == corpse ~> ~corpse
=============================================================================
