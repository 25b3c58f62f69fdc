----------------------------- MODULE NodeCommands -----------------------------
(***************************************************************************)
(* One Container-Host and the Control Node that commands it: the queue of  *)
(* node commands (drain, recycle, update, restart), the heartbeat that     *)
(* carries acknowledgements up and commands and desired state down, the    *)
(* Node Daemon's pass over them, and the two convergence ladders that      *)
(* restart and then escalate a node that stays off its product pin or its  *)
(* config distribution.  The daemon can crash between any two steps, a     *)
(* heartbeat or its answer can be lost, and the driver children start and  *)
(* finish Runs while the daemon decides what to stop.                      *)
(*                                                                         *)
(* An aspect is one thing the node converges on: "product" is the pinned   *)
(* product version, "drivers" the config distribution.  A Run is seen by   *)
(* the daemon only through its job directory.                              *)
(***************************************************************************)
EXTENDS Integers, Sequences, FiniteSets

CONSTANTS
    Stack,          \* the process Stacks this node is assigned
    Custom,         \* those whose driver comes from the config distribution
    Version,        \* pins and distribution hashes
    None,           \* no verified distribution applied
    First,          \* what every aspect starts at
    Menu,           \* the commands an operator may queue
    OffpinBeats,    \* control.toml's offpin_beats
    MaxCommands,    \* bound: commands the operator queues
    MaxRepins,      \* bound: changes of the desired version of an aspect
    MaxRuns,        \* bound: requests for work
    MaxFailures,    \* bound: installs and swaps that fail
    MaxFaults       \* bound: other faults, each kind at most once

Aspect == {"product", "drivers"}
Verb == {"drain", "recycle", "update", "restart"}
Command == [verb : Verb, names : SUBSET Stack, force : BOOLEAN]

ASSUME NodeAssumption ==
    /\ Custom \subseteq Stack
    /\ First \in Version /\ None \notin Version
    /\ Menu \subseteq Command
    /\ OffpinBeats \in Nat \ {0}
    /\ {MaxCommands, MaxRepins, MaxRuns, MaxFailures, MaxFaults} \subseteq Nat

VARIABLES
    \* The Control Node's store.
    queue,          \* the commands table: a command's id is its position
    done,           \* ids with completed_at set
    desired,        \* the version each aspect is pinned to
    reported,       \* what the last heartbeat said is applied
    health,         \* version_health and drivers_health
    \* The node's disk.
    acks,           \* pending-acks.json
    cache,          \* desired state as last received
    applied,        \* the installed product, the verified distribution
    drainedDisk,    \* drained.json
    \* The daemon's memory.
    drained, blocker, pc, todo, nudged, attempted,
    \* The driver children and their Runs.
    alive, run,
    \* History: the aspects attempted since they were last deferred or
    \* re-pinned (or the daemon re-executed since); those whose daemon was
    \* replaced since their ladder asked for a restart; whether the pass after
    \* the last beat Control counted left commands unseen; and what the
    \* dispatch pass of a Run read: the pins, the queue, and which report was
    \* out of date.
    tried, renewed, cut, ticket,
    \* What is left of each bound, and the faults so far.
    left, faults

store == <<queue, done, desired, reported, health>>
disk == <<acks, cache, applied, drainedDisk>>
memory == <<drained, blocker, pc, todo, nudged, attempted>>
children == <<alive, run>>
ladder == <<renewed, cut>>
history == <<tried, ladder, ticket>>
vars == <<store, disk, memory, children, history, left, faults>>

Fresh == [beats |-> 0, restarted |-> FALSE, escalated |-> FALSE]
Health == [beats : 0 .. 2 * OffpinBeats, restarted : BOOLEAN,
           escalated : BOOLEAN]
Budget == {"command", "repin", "run", "failure"}
Fault == {"crash", "lost", "teardown"}
Grants == [queued : Nat, pins : [Aspect -> Version],
           stale : [Aspect -> BOOLEAN]]
Blank == [queued |-> 0, pins |-> [a \in Aspect |-> First],
          stale |-> [a \in Aspect |-> FALSE]]
bounds == <<left, faults>>
Spend(b) ==
    /\ left[b] > 0
    /\ left' = [left EXCEPT ![b] = @ - 1]
    /\ UNCHANGED faults
Suffer(f) ==
    /\ f \notin faults /\ Cardinality(faults) < MaxFaults
    /\ faults' = faults \cup {f}
    /\ UNCHANGED left

Init ==
    /\ queue = <<>> /\ done = {} /\ acks = {}
    /\ desired = [a \in Aspect |-> First]
    /\ reported = desired /\ cache = desired /\ applied = desired
    /\ health = [a \in Aspect |-> Fresh]
    /\ drainedDisk = {} /\ drained = {}
    /\ blocker = [a \in Aspect |-> FALSE]
    /\ tried = [a \in Aspect |-> FALSE]
    /\ renewed = [a \in Aspect |-> FALSE] /\ cut = FALSE
    /\ ticket = [s \in Stack |-> Blank]
    /\ pc = "beat" /\ todo = {} /\ nudged = FALSE /\ attempted = FALSE
    /\ alive = [s \in Stack |-> FALSE]
    /\ run = [s \in Stack |-> "none"]
    /\ left = [b \in Budget |->
                 CASE b = "command" -> MaxCommands
                   [] b = "repin" -> MaxRepins
                   [] b = "run" -> MaxRuns
                   [] b = "failure" -> MaxFailures]
    /\ faults = {}

-----------------------------------------------------------------------------
\* The Control Node: the operator's side of the queue, and the dispatch gate.

Pending == (DOMAIN queue) \ done

\* POST /commands.
QueueCommand(c) ==
    /\ Spend("command")
    /\ queue' = Append(queue, c)
    /\ UNCHANGED <<done, desired, reported, health, disk, memory, children,
                   history>>

\* A config commit moves a pin or publishes another distribution.
Repin(a, v) ==
    /\ Spend("repin")
    /\ v # desired[a]
    /\ desired' = [desired EXCEPT ![a] = v]
    /\ UNCHANGED <<queue, done, reported, health, disk, memory, children,
                   history>>

\* The update endpoint writes the pin and queues an update for the node (for
\* the version it is pinned to already, that is an update of the menu).
ProductUpdate(v) ==
    /\ left["repin"] > 0 /\ left["command"] > 0
    /\ left' = [left EXCEPT !["repin"] = @ - 1, !["command"] = @ - 1]
    /\ v # desired["product"]
    /\ desired' = [desired EXCEPT !["product"] = v]
    /\ queue' = Append(queue, [verb |-> "update", names |-> Stack,
                               force |-> FALSE])
    /\ UNCHANGED <<done, reported, health, disk, memory, children, history,
                   faults>>

\* Nothing is left of a request, a grant or a Run.
Clear(s) ==
    /\ run' = [run EXCEPT ![s] = "none"]
    /\ ticket' = [ticket EXCEPT ![s] = Blank]

\* The driver child asks for work.  The handler reads the pins before it has
\* the dispatcher's lock.
AskWork(s) ==
    /\ alive[s] /\ run[s] = "none"
    /\ Spend("run")
    /\ run' = [run EXCEPT ![s] = "asking"]
    /\ ticket' = [ticket EXCEPT ![s].pins = desired]
    /\ UNCHANGED <<store, disk, memory, alive, tried, ladder>>

\* Under the lock the node's last report is compared with these pins; a node
\* that is off one of them gets no work.
CheckVersions(s) ==
    /\ run[s] = "asking"
    /\ \A t \in Stack : run[t] \notin {"matched", "gated"}
    /\ IF reported = ticket[s].pins
       THEN /\ run' = [run EXCEPT ![s] = "matched"]
            /\ ticket' = [ticket EXCEPT
                 ![s].stale = [a \in Aspect |-> reported[a] # applied[a]]]
       ELSE Clear(s)
    /\ UNCHANGED <<store, disk, memory, alive, tried, ladder, bounds>>

\* Mutant: The gate forgets the pending lifecycle commands.
QueueUnread == TRUE

QueueClear == Pending = {}

\* Then the queue is read: a node with a pending command gets no work either.
CheckQueue(s) ==
    /\ run[s] = "matched"
    /\ IF QueueClear
       THEN /\ run' = [run EXCEPT ![s] = "gated"]
            /\ ticket' = [ticket EXCEPT ![s].queued = Len(queue)]
       ELSE Clear(s)
    /\ UNCHANGED <<store, disk, memory, alive, tried, ladder, bounds>>

\* Calls of GitHub later the driver is granted an issue, or told that there is
\* none; nothing keeps commands and re-pins out in between.
Grant(s) ==
    /\ run[s] = "gated"
    /\ \/ run' = [run EXCEPT ![s] = "granted"] /\ UNCHANGED ticket
       \/ Clear(s)
    /\ UNCHANGED <<store, disk, memory, alive, tried, ladder, bounds>>

StartRun(s) ==
    /\ run[s] = "granted"
    /\ run' = [run EXCEPT ![s] = "running"]
    /\ UNCHANGED <<store, disk, memory, alive, history, bounds>>

\* The Run settles and its job directory goes.
EndRun(s) ==
    /\ run[s] = "running"
    /\ Clear(s)
    /\ UNCHANGED <<store, disk, memory, alive, tried, ladder, bounds>>

\* A driver that comes up parks the job directories a killed Run left.
BootSweep(s) ==
    /\ alive[s] /\ run[s] = "orphan"
    /\ Clear(s)
    /\ UNCHANGED <<store, disk, memory, alive, tried, ladder, bounds>>

-----------------------------------------------------------------------------
\* The heartbeat.

\* The in-flight signal: a live child whose jobs directory is not empty.
InFlight(names) == \E s \in names : alive[s] /\ run[s] \in {"running", "orphan"}

\* Mutant: the heartbeat does not carry the deferrals.
DeferredUnreported(a) == FALSE

\* The signal is read as the heartbeat is built; the blocker the last pass
\* kept covers a Run that ended since.
Deferred(a) == InFlight(Stack) \/ blocker[a]

OnTarget(a) == applied[a] = desired[a] \/ Deferred(a)

\* One more beat of the ladder, before either rung is looked at.
Counted(a) ==
    IF OnTarget(a) THEN Fresh
    ELSE [health[a] EXCEPT
            !.beats = IF @ < 2 * OffpinBeats THEN @ + 1 ELSE @]

\* The first rung: one restart.
RestartDue(a) == ~Counted(a).restarted /\ Counted(a).beats >= OffpinBeats

\* Mutant: The second rung does not wait for the first.
EscalatesAtOnce(a) ==
    /\ ~Counted(a).escalated
    /\ Counted(a).beats >= OffpinBeats

\* The second: the error a human has to answer.
EscalationDue(a) ==
    /\ Counted(a).restarted /\ ~Counted(a).escalated
    /\ Counted(a).beats >= 2 * OffpinBeats

Climbed(a) ==
    [Counted(a) EXCEPT !.restarted = @ \/ RestartDue(a),
                       !.escalated = @ \/ EscalationDue(a)]

Restart == [verb |-> "restart", names |-> Stack, force |-> FALSE]

\* The two ladders share one restart: a pending one, theirs or an
\* operator's, serves both.
LadderQueues ==
    /\ \E a \in Aspect : RestartDue(a)
    /\ \A id \in Pending \ acks : queue[id].verb # "restart"

\* The heartbeat handler runs to its end without yielding.
Handle ==
    /\ reported' = applied
    /\ done' = done \cup acks
    /\ health' = [a \in Aspect |-> Climbed(a)]
    /\ queue' = IF LadderQueues THEN Append(queue, Restart) ELSE queue
    /\ renewed' = [a \in Aspect |-> renewed[a] /\ ~RestartDue(a)]
    /\ UNCHANGED desired

NewPass == attempted' = FALSE /\ nudged' = FALSE /\ pc' = "commands"

\* Answered: the daemon drops its acks, caches the desired state and walks
\* the pending commands in id order.
BeatAnswered ==
    /\ pc = "beat"
    /\ Handle
    /\ NewPass
    /\ acks' = {}
    /\ cache' = desired
    /\ tried' = [a \in Aspect |-> tried[a] /\ cache[a] = desired[a]]
    /\ cut' = FALSE
    /\ todo' = (DOMAIN queue') \ done'
    /\ UNCHANGED <<applied, drainedDisk, drained, blocker, children, ticket,
                   bounds>>

\* The handler ran and the answer never arrived: nothing is dropped, nothing
\* is delivered, and the pass goes on from the cached state.
AnswerLost ==
    /\ pc = "beat"
    /\ Suffer("lost")
    /\ Handle
    /\ NewPass
    /\ todo' = {} /\ cut' = TRUE
    /\ UNCHANGED <<disk, drained, blocker, children, tried, ticket>>

\* The Control Node is unreachable or refuses.
BeatUnreached ==
    /\ pc = "beat"
    /\ Suffer("lost")
    /\ NewPass
    /\ todo' = {}
    /\ UNCHANGED <<store, disk, drained, blocker, children, history>>

-----------------------------------------------------------------------------
\* Stopping children, and losing the daemon itself.

\* What the node does not see of a driver's work: a Run without a job directory.
Unseen == {"asking", "matched", "gated", "granted"}

\* Kill-the-tree: the Run dies, its job directory stays for the boot sweep;
\* a request or a grant leaves nothing on the node.
Stopped(names) == [s \in Stack |-> alive[s] /\ s \notin names]
RunsLeft(names) ==
    [s \in Stack |->
       CASE s \in names /\ alive[s] /\ run[s] = "running" -> "orphan"
         [] s \in names /\ alive[s] /\ run[s] \in Unseen -> "none"
         [] OTHER -> run[s]]

Kill(names) == alive' = Stopped(names) /\ run' = RunsLeft(names)

\* A new daemon process: memory is rebuilt from disk, no child survives.
Reborn ==
    /\ Kill(Stack)
    /\ drained' = drainedDisk
    /\ blocker' = [a \in Aspect |-> FALSE]
    /\ pc' = "beat" /\ todo' = {}
    /\ nudged' = FALSE /\ attempted' = FALSE
    /\ tried' = [a \in Aspect |-> TRUE]
    /\ renewed' = [a \in Aspect |-> TRUE]

Crash ==
    /\ Suffer("crash")
    /\ Reborn
    /\ UNCHANGED <<store, disk, cut, ticket>>

-----------------------------------------------------------------------------
\* The commands of a pass, in the order of their ids.

\* The walk is in the order of the ids.
FirstOf(ids) == CHOOSE id \in ids : \A other \in ids : id <= other
Id == FirstOf(todo)
Current == queue[Id]
Ack(id) == acks' = acks \cup {id}
NextCommand == pc' = "commands" /\ todo' = todo \ {Id}

\* Mutant: A deferred command holds up nothing but itself.
DeferOne ==
    /\ pc = "commands" /\ todo # {}
    /\ Current.verb # "drain" /\ ~Current.force
    /\ InFlight(IF Current.verb = "recycle" THEN Current.names ELSE Stack)
    /\ NextCommand
    /\ UNCHANGED <<store, disk, drained, blocker, nudged, attempted,
                   children, history, bounds>>

\* Queue-behind: a command that waits for a Run blocks every command after it.
Defer ==
    /\ pc = "commands" /\ todo # {}
    /\ Current.verb # "drain" /\ ~Current.force
    /\ InFlight(IF Current.verb = "recycle" THEN Current.names ELSE Stack)
    /\ pc' = "product" /\ todo' = {} /\ cut' = TRUE
    /\ UNCHANGED <<store, disk, drained, blocker, nudged, attempted,
                   children, tried, renewed, ticket, bounds>>

\* The check passes; the command acts in a later step, with the drivers
\* running in between.
Accept ==
    /\ pc = "commands" /\ todo # {}
    /\ \/ Current.verb = "drain" \/ Current.force
       \/ ~InFlight(IF Current.verb = "recycle" THEN Current.names ELSE Stack)
    /\ pc' = "act"
    /\ UNCHANGED <<store, disk, drained, blocker, todo, nudged, attempted,
                   children, history, bounds>>

CommandsOver ==
    /\ pc = "commands" /\ todo = {}
    /\ pc' = "product"
    /\ UNCHANGED <<store, disk, drained, blocker, todo, nudged, attempted,
                   children, history, bounds>>

\* What a drain or a recycle of names leaves of the drained set.
After(verb, names, set) ==
    IF verb = "drain" THEN set \cup names ELSE set \ names

\* Every form under every name is torn down, and the set of drained Stacks
\* follows in memory,
DrainOrRecycle ==
    /\ pc = "act" /\ Current.verb \in {"drain", "recycle"}
    /\ Kill(Current.names)
    /\ drained' = After(Current.verb, Current.names, drained)
    /\ pc' = "save"
    /\ UNCHANGED <<store, disk, blocker, todo, nudged, attempted, history,
                   bounds>>

\* Mutant: A recycle forgets to save the drained set.
SaveDrainsOnly ==
    /\ pc = "save"
    /\ drainedDisk' = IF Current.verb = "drain" THEN drained ELSE drainedDisk
    /\ pc' = "ack"
    /\ UNCHANGED <<store, acks, cache, applied, drained, blocker, todo,
                   nudged, attempted, children, history, bounds>>

\* then the set is saved,
SaveDrained ==
    /\ pc = "save"
    /\ drainedDisk' = drained
    /\ pc' = "ack"
    /\ UNCHANGED <<store, acks, cache, applied, drained, blocker, todo,
                   nudged, attempted, children, history, bounds>>

\* then the command acknowledged.
AckCommand ==
    /\ pc = "ack"
    /\ Ack(Id)
    /\ NextCommand
    /\ UNCHANGED <<store, cache, applied, drainedDisk, drained, blocker,
                   nudged, attempted, children, history, bounds>>

\* A teardown raises part of the way: the names before it are done in memory
\* only, the command is not acknowledged, and the next command still runs.
TeardownFails(before, s) ==
    /\ pc = "act" /\ Current.verb \in {"drain", "recycle"}
    /\ before \subseteq Current.names /\ s \in Current.names \ before
    /\ Suffer("teardown")
    /\ Kill(before \cup {s})
    /\ drained' = After(Current.verb, before, drained)
    /\ NextCommand
    /\ UNCHANGED <<store, disk, blocker, nudged, attempted, history>>

\* Mutant: The update command is never acknowledged.
NudgeUnacked ==
    /\ pc = "act" /\ Current.verb = "update"
    /\ nudged' = TRUE
    /\ pc' = "product"
    /\ UNCHANGED <<store, disk, drained, blocker, todo, attempted, children,
                   history, bounds>>

\* The update command is a nudge: acknowledged first, then one attempt at
\* converging the product.
Nudge ==
    /\ pc = "act" /\ Current.verb = "update"
    /\ Ack(Id)
    /\ nudged' = TRUE
    /\ pc' = "product"
    /\ UNCHANGED <<store, cache, applied, drainedDisk, drained, blocker,
                   todo, attempted, children, history, bounds>>

\* Stop the tree, acknowledge, re-exec.
RestartDaemon ==
    /\ pc = "act" /\ Current.verb = "restart"
    /\ Ack(Id)
    /\ Reborn
    /\ UNCHANGED <<store, cache, applied, drainedDisk, cut, ticket, bounds>>

-----------------------------------------------------------------------------
\* Convergence of the product and of the config distribution.

Forced == nudged /\ Current.force

\* Mutant: The nudge flag outlives the command it belongs to.
OnwardStillNudged ==
    IF nudged
    THEN pc' = "commands" /\ todo' = todo \ {Id} /\ UNCHANGED nudged
    ELSE pc' = "drivers" /\ UNCHANGED <<todo, nudged>>

\* After a nudge the pass goes back to its commands, otherwise on.
Onward ==
    IF nudged
    THEN pc' = "commands" /\ todo' = todo \ {Id} /\ nudged' = FALSE
    ELSE pc' = "drivers" /\ UNCHANGED <<todo, nudged>>

\* Nothing to do: tried in this pass already, or on the pin.
ProductRests ==
    /\ pc = "product"
    /\ attempted \/ cache["product"] = applied["product"]
    /\ blocker' = IF attempted THEN blocker
                  ELSE [blocker EXCEPT !["product"] = FALSE]
    /\ Onward
    /\ UNCHANGED <<store, disk, drained, attempted, children, history,
                   bounds>>

OffPin == ~attempted /\ cache["product"] # applied["product"]

ProductDefers ==
    /\ pc = "product" /\ OffPin /\ ~Forced /\ InFlight(Stack)
    /\ blocker' = [blocker EXCEPT !["product"] = TRUE]
    /\ tried' = [tried EXCEPT !["product"] = FALSE]
    /\ Onward
    /\ UNCHANGED <<store, disk, drained, attempted, children, ladder, ticket,
                   bounds>>

ProductAttempt ==
    /\ pc = "product" /\ OffPin /\ (Forced \/ ~InFlight(Stack))
    /\ blocker' = [blocker EXCEPT !["product"] = FALSE]
    /\ tried' = [tried EXCEPT !["product"] = TRUE]
    /\ attempted' = TRUE
    /\ pc' = "install"
    /\ UNCHANGED <<store, disk, drained, todo, nudged, children, ladder,
                   ticket, bounds>>

\* The install ends the process: the new version re-execs over it.
Install ==
    /\ pc = "install"
    /\ applied' = [applied EXCEPT !["product"] = cache["product"]]
    /\ Reborn
    /\ UNCHANGED <<store, acks, cache, drainedDisk, cut, ticket, bounds>>

\* No wheel for this venv, or a venv it cannot write: refused with the tree
\* untouched.  A failed pip comes after the tree was stopped.
InstallFails(stopped) ==
    /\ pc = "install"
    /\ Spend("failure")
    /\ IF stopped THEN Kill(Stack) ELSE UNCHANGED children
    /\ Onward
    /\ UNCHANGED <<store, disk, drained, blocker, attempted, history>>

DriversRest ==
    /\ pc = "drivers" /\ cache["drivers"] = applied["drivers"]
    /\ blocker' = [blocker EXCEPT !["drivers"] = FALSE]
    /\ pc' = "reconcile"
    /\ UNCHANGED <<store, disk, drained, todo, nudged, attempted, children,
                   history, bounds>>

OffHash == cache["drivers"] # applied["drivers"]

DriversDefer ==
    /\ pc = "drivers" /\ OffHash /\ InFlight(Stack)
    /\ blocker' = [blocker EXCEPT !["drivers"] = TRUE]
    /\ tried' = [tried EXCEPT !["drivers"] = FALSE]
    /\ pc' = "reconcile"
    /\ UNCHANGED <<store, disk, drained, todo, nudged, attempted, children,
                   ladder, ticket, bounds>>

DriversAttempt ==
    /\ pc = "drivers" /\ OffHash /\ ~InFlight(Stack)
    /\ blocker' = [blocker EXCEPT !["drivers"] = FALSE]
    /\ tried' = [tried EXCEPT !["drivers"] = TRUE]
    /\ pc' = "swap"
    /\ UNCHANGED <<store, disk, drained, todo, nudged, attempted, children,
                   ladder, ticket, bounds>>

\* Verified in staging, the custom drivers stopped, the tree exchanged.
Swap ==
    /\ pc = "swap"
    /\ applied' = [applied EXCEPT !["drivers"] = cache["drivers"]]
    /\ Kill(Custom)
    /\ pc' = "reconcile"
    /\ UNCHANGED <<store, acks, cache, drainedDisk, drained, blocker, todo,
                   nudged, attempted, history, bounds>>

\* Nothing fetched or verified, and nothing touched; or the exchange itself
\* fails, with the drivers stopped and no verified tree.
SwapFails(stopped) ==
    /\ pc = "swap"
    /\ Spend("failure")
    /\ IF stopped
       THEN Kill(Custom) /\ applied' = [applied EXCEPT !["drivers"] = None]
       ELSE UNCHANGED <<children, applied>>
    /\ pc' = "reconcile"
    /\ UNCHANGED <<store, acks, cache, drainedDisk, drained, blocker, todo,
                   nudged, attempted, history>>

\* Drained Stacks are torn down again, the others started; a custom driver
\* only on the verified distribution the node is asked for.
MayStart(s) ==
    s \notin drained /\ (s \in Custom => applied["drivers"] = cache["drivers"])

Reconcile ==
    /\ pc = "reconcile"
    /\ alive' = [s \in Stack |-> s \notin drained /\ (alive[s] \/ MayStart(s))]
    /\ run' = RunsLeft(drained)
    /\ pc' = "beat"
    /\ UNCHANGED <<store, disk, drained, blocker, todo, nudged, attempted,
                   history, bounds>>

-----------------------------------------------------------------------------
Daemon ==
    \/ BeatAnswered \/ AnswerLost \/ BeatUnreached
    \/ Defer \/ Accept \/ CommandsOver
    \/ DrainOrRecycle \/ SaveDrained \/ AckCommand
    \/ Nudge \/ RestartDaemon
    \/ \E before \in SUBSET Stack, s \in Stack : TeardownFails(before, s)
    \/ ProductRests \/ ProductDefers \/ ProductAttempt \/ Install
    \/ \E stopped \in BOOLEAN : InstallFails(stopped) \/ SwapFails(stopped)
    \/ DriversRest \/ DriversDefer \/ DriversAttempt \/ Swap
    \/ Reconcile

Driver(s) == StartRun(s) \/ EndRun(s) \/ BootSweep(s)
Dispatch(s) == AskWork(s) \/ CheckVersions(s) \/ CheckQueue(s) \/ Grant(s)

Operator ==
    \/ \E c \in Menu : QueueCommand(c)
    \/ \E a \in Aspect, v \in Version : Repin(a, v)
    \/ \E v \in Version : ProductUpdate(v)

Next ==
    \/ Daemon \/ Crash \/ Operator
    \/ \E s \in Stack : Driver(s) \/ Dispatch(s)

Spec == Init /\ [][Next]_vars

\* The daemon keeps passing (its run loop), a driver sweeps at boot and its
\* Runs end (every phase has a timeout).
Fairness == WF_vars(Daemon) /\ \A s \in Stack : WF_vars(Driver(s))

FairSpec == Spec /\ Fairness

-----------------------------------------------------------------------------
(* Properties. *)

\* The type invariant: commands, acknowledgements and the pass refer to the
\* same queue (store.py commands, daemon.py _completed and the walk of once).
TypeOK ==
    /\ queue \in Seq(Command)
    /\ done \subseteq DOMAIN queue /\ acks \subseteq DOMAIN queue
    /\ desired \in [Aspect -> Version]
    /\ reported \in [Aspect -> Version \cup {None}]
    /\ health \in [Aspect -> Health]
    /\ cache \in [Aspect -> Version]
    /\ applied \in [Aspect -> Version \cup {None}]
    /\ drainedDisk \subseteq Stack /\ drained \subseteq Stack
    /\ blocker \in [Aspect -> BOOLEAN]
    /\ pc \in {"beat", "commands", "act", "save", "ack", "product", "install",
               "drivers", "swap", "reconcile"}
    /\ todo \subseteq DOMAIN queue
    /\ nudged \in BOOLEAN /\ attempted \in BOOLEAN
    /\ alive \in [Stack -> BOOLEAN]
    /\ run \in [Stack -> Unseen \cup {"none", "running", "orphan"}]
    /\ tried \in [Aspect -> BOOLEAN]
    /\ renewed \in [Aspect -> BOOLEAN] /\ cut \in BOOLEAN
    /\ ticket \in [Stack -> Grants]
    /\ left \in [Budget -> Nat] /\ faults \subseteq Fault
    /\ (pc \in {"act", "save", "ack"} \/ nudged) => todo # {}

\* The drains and recycles of s the node has acknowledged, and the others.
Words(s) == {id \in DOMAIN queue : /\ s \in queue[id].names
                                  /\ queue[id].verb \in {"drain", "recycle"}}
Acked(s) == Words(s) \cap (done \cup acks)
Last(ids) == CHOOSE id \in ids : \A other \in ids : other <= id

\* The last drain the operator queued has been acknowledged and no recycle of
\* the Stack is outstanding.
DrainStands(s) ==
    /\ Acked(s) # {}
    /\ queue[Last(Acked(s))].verb = "drain"
    /\ \A id \in Words(s) \ Acked(s) : queue[id].verb = "drain"

\* A Stack whose drain was acknowledged stays down, across crashes, lost
\* answers and redelivered commands (daemon.py _drain, _recycle and the break
\* in once that keeps commands in the order they were issued).
DrainHolds ==
    \A s \in Stack : DrainStands(s) => s \in drainedDisk /\ ~alive[s]

\* The same, for a node whose teardowns succeed.
DrainHoldsUnfailed == "teardown" \notin faults => DrainHolds

\* A Stack the operator recycled last is never left drained once everything
\* queued for it is acknowledged (daemon.py _recycle, drained.json).
RecycleReleases ==
    "teardown" \notin faults =>
        \A s \in Stack :
            (/\ Words(s) # {} /\ Words(s) = Acked(s)
             /\ queue[Last(Words(s))].verb = "recycle") =>
                s \notin drained \cup drainedDisk

\* The node is left as the last word of the operator has it, the queue and
\* every reference into it being sound.
DrainsAsOrdered == TypeOK /\ DrainHoldsUnfailed /\ RecycleReleases

Killed(s) ==
    \/ run[s] = "granted" /\ run'[s] = "none"
    \/ run[s] = "running" /\ run'[s] = "orphan"

\* No command kills a Run if the gate was read after the command was queued,
\* and no convergence one that was let through under the version it converges
\* to, the report that was read being true: what the gate saw holds for as long
\* as a command can still be delivered again (dispatch.py's gates, store.py
\* complete_commands, daemon.py _ack).
GateProtectsRuns ==
    [][\A s \in Stack : Killed(s) =>
         /\ pc = "act" => ticket[s].queued < Id
         /\ (pc = "install" /\ faults' = faults
              /\ ~ticket[s].stale["product"]) =>
                ticket[s].pins["product"] # cache["product"]
         /\ (pc = "swap" /\ faults' = faults
              /\ ~ticket[s].stale["drivers"]) =>
                ticket[s].pins["drivers"] # cache["drivers"]]_vars

\* "A node about to be drained, recycled, or updated gets no new work": no grant
\* while a command is pending.  It is false, the gate is read some calls of
\* GitHub before the grant.
NoNewWork ==
    [][\A s \in Stack :
         run[s] = "gated" /\ run'[s] = "granted" => Pending = {}]_vars

\* The ladder restarts no node that has not had its chance: since the node
\* learnt the version, or since a Run last held it up, it has tried to
\* converge or its daemon was replaced (the entry and exit edges of daemon.py _status_payload).
RestartOnlyAfterTry ==
    [][\A a \in Aspect : (pc = "beat" /\ pc' = "commands"
                            /\ ~health[a].restarted /\ health'[a].restarted)
          => tried[a] \/ cache[a] # desired[a]]_vars

\* An escalation says "still off after a restart": the ladder asked for one
\* before, and the daemon has been replaced since, unless the last pass did
\* not see every command because a Run held the queue or the answer was lost
\* (app.py heartbeat, store.py _observe_convergence).
EscalatesAfterRestart ==
    [][\A a \in Aspect : (~health[a].escalated /\ health'[a].escalated) =>
         health[a].restarted /\ (renewed[a] \/ cut)]_vars

\* The ladders keep their order: try, restart, escalate (store.py
\* _observe_convergence, daemon.py _status_payload).
LadderInOrder == RestartOnlyAfterTry /\ EscalatesAfterRestart

\* Every queued command is carried out and every re-pin converges, so that
\* the dispatch gate opens for good (or a human has to release the node).
Settles == <>[](Pending = {} /\ reported = desired)
=============================================================================
