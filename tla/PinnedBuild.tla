----------------------------- MODULE PinnedBuild -----------------------------
(***************************************************************************)
(* The pinned build: the machine-owned git repository the Control Node     *)
(* loads its configuration from, and those who write to it.  An ingest     *)
(* commits a tree made of the Config Repo's files and of the machine's own *)
(* (the product pin, the control address), moves the ref by compare and    *)
(* swap, and then brings the working tree along; a marker brackets what a  *)
(* crash may interrupt, and the next ingest repairs it.  The machine's     *)
(* writers edit one file and commit.  All share a lock; a human with a     *)
(* shell does not, and neither does the server, which reads the working    *)
(* tree at every request.                                                  *)
(*                                                                         *)
(* Two authored files stand for all of them.  The settings half of         *)
(* control.toml is authored like them and left out; ignored files, which   *)
(* a sync removes, are never there.  Git never fails to say what HEAD is.  *)
(***************************************************************************)
EXTENDS Integers, Sequences

CONSTANTS
    Source,         \* commits of the Config Repo
    Declares,       \* the pin each of them declares, or None
    Pin, Address,   \* product pins and control addresses
    None,           \* no declared pin
    Edit, Fix,      \* what a human writes into a file, and commits
    First,          \* the tree of the first commit
    MaxIngests,     \* bound: ingests and dry runs
    MaxWrites,      \* bound: writes of a pin or an address
    MaxFailures,    \* bound: git calls and file operations that fail
    MaxCrashes,     \* bound: writers that die
    MaxHands        \* bound: edits and commits by hand

File == {"types", "drivers", "pin", "address"}
Authored == {"types", "drivers"}
MachineFile == File \ Authored
Content == Source \cup Pin \cup Address \cup {Edit, Fix}
Values == [pin |-> Pin, address |-> Address]

ASSUME BuildAssumption ==
    /\ Declares \in [Source -> Pin \cup {None}]
    /\ {Edit, Fix} \cap (Source \cup Pin \cup Address) = {} /\ Edit # Fix
    /\ None \notin Pin
    /\ First \in [File -> Content] /\ \A f \in File : First[f] # Edit
    /\ {MaxIngests, MaxWrites, MaxFailures, MaxCrashes, MaxHands} \subseteq Nat

VARIABLES
    log,            \* HEAD and its ancestors, the oldest first: [tree, by]
    index, work,    \* the repository's index and its working tree
    marker,         \* .git/theozolith-ingest-pending
    lock,           \* who holds the flock on the directory
    ing,            \* the ingest that runs
    mac,            \* the pin or address write that runs
    load,           \* the load of the configuration by the server
    left            \* what is left of each bound

repo == <<log, index, work>>
vars == <<repo, marker, lock, ing, mac, load, left>>

Budget == {"ingest", "write", "failure", "crash", "hand"}
Spend(b) == left[b] > 0 /\ left' = [left EXCEPT ![b] = @ - 1]

HEAD == log[Len(log)].tree

NoIngest ==
    [pc |-> "idle", source |-> None, dry |-> FALSE, snapshot |-> FALSE,
     base |-> 0, pin |-> None, address |-> None, todo |-> {},
     goal |-> "publish", meddled |-> FALSE]

NoWrite == [pc |-> "idle", file |-> None, value |-> None]

Init ==
    /\ log = <<[tree |-> First, by |-> "ingest"]>>
    /\ index = First /\ work = First
    /\ marker = FALSE /\ lock = "free"
    /\ ing = NoIngest /\ mac = NoWrite
    /\ load = [pc |-> "idle", types |-> None, calm |-> FALSE]
    /\ left = [b \in Budget |->
                 CASE b = "ingest" -> MaxIngests
                   [] b = "write" -> MaxWrites
                   [] b = "failure" -> MaxFailures
                   [] b = "crash" -> MaxCrashes
                   [] b = "hand" -> MaxHands]

\* A writer that finds the lock taken is refused: nothing happens.
Acquire(who) == lock = "free" /\ lock' = who

-----------------------------------------------------------------------------
\* An ingest.

EndIngest == ing' = NoIngest /\ lock' = "free"

\* A real ingest over a marker first finishes the sync of the one before; a
\* dry run over a marker reads a snapshot of HEAD instead.
Begin(s, dry) ==
    /\ ing.pc = "idle" /\ Acquire("ingest") /\ Spend("ingest")
    /\ LET start == CASE ~marker -> [pc |-> "check", todo |-> {}, snapshot |-> FALSE]
                      [] marker /\ ~dry -> [pc |-> "sync", todo |-> File, snapshot |-> FALSE]
                      [] marker /\ dry -> [pc |-> "base", todo |-> {}, snapshot |-> TRUE]
       IN ing' = [NoIngest EXCEPT !.pc = start.pc, !.source = s, !.dry = dry, !.todo = start.todo,
                                  !.snapshot = start.snapshot, !.goal = "recover"]
    /\ UNCHANGED <<repo, marker, mac>>

\* A working tree or index that differs from HEAD is refused: a hand edit.
Check ==
    /\ ing.pc = "check"
    /\ \/ /\ work = HEAD /\ index = HEAD
          /\ ing' = [ing EXCEPT !.pc = "base", !.meddled = FALSE]
          /\ UNCHANGED lock
       \/ (work # HEAD \/ index # HEAD) /\ EndIngest
    /\ UNCHANGED <<repo, marker, mac, left>>

ReadBase ==
    /\ ing.pc = "base"
    /\ ing' = [ing EXCEPT !.pc = "pin", !.base = Len(log)]
    /\ UNCHANGED <<repo, marker, lock, mac, left>>

\* Mutant: A dry run over a marker reads the lagging working tree.
OldStateLagging == work

\* What the preserved files are read from.
OldState == IF ing.snapshot THEN log[ing.base].tree ELSE work

\* A source without a pin carries the pinned build's forward.
PreservePin ==
    /\ ing.pc = "pin"
    /\ ing' = [ing EXCEPT !.pc = "address",
                          !.pin = IF Declares[ing.source] # None THEN Declares[ing.source]
                                  ELSE OldState["pin"]]
    /\ UNCHANGED <<repo, marker, lock, mac, left>>

\* The address block is the machine's: it is never harvested.
MergeControl ==
    /\ ing.pc = "address"
    /\ ing' = [ing EXCEPT !.pc = "commit", !.address = OldState["address"]]
    /\ UNCHANGED <<repo, marker, lock, mac, left>>

Staged ==
    [f \in File |-> CASE f = "pin" -> ing.pin
                      [] f = "address" -> ing.address
                      [] OTHER -> ing.source]

\* Objects only; a tree equal to HEAD's is no commit, a dry run a preview.
Commit ==
    /\ ing.pc = "commit"
    /\ IF ing.dry \/ Staged = log[ing.base].tree
       THEN EndIngest /\ UNCHANGED marker
       ELSE ing' = [ing EXCEPT !.pc = "move"] /\ marker' = TRUE /\ UNCHANGED lock
    /\ UNCHANGED <<repo, mac, left>>

Sync(goal) == [ing EXCEPT !.pc = "sync", !.todo = File, !.goal = goal]

\* Mutant: HEAD moves wherever it is.
MoveRefBlindly ==
    /\ ing.pc = "move"
    /\ log' = Append(SubSeq(log, 1, ing.base), [tree |-> Staged, by |-> "ingest"])
    /\ ing' = Sync("publish")
    /\ UNCHANGED <<index, work, marker, lock, mac, left>>

\* Mutant: The marker is gone once the ref has moved.
MoveRefUnmarked ==
    /\ ing.pc = "move"
    /\ IF Len(log) = ing.base
       THEN /\ log' = Append(log, [tree |-> Staged, by |-> "ingest"])
            /\ ing' = Sync("publish") /\ marker' = FALSE
       ELSE ing' = Sync("repair") /\ UNCHANGED <<log, marker>>
    /\ UNCHANGED <<index, work, lock, mac, left>>

\* HEAD moves only from where the transaction began; if it is elsewhere, the
\* working tree is brought to whatever HEAD is.
MoveRef ==
    /\ ing.pc = "move"
    /\ IF Len(log) = ing.base
       THEN /\ log' = Append(log, [tree |-> Staged, by |-> "ingest"])
            /\ ing' = Sync("publish")
       ELSE ing' = Sync("repair") /\ UNCHANGED log
    /\ UNCHANGED <<index, work, marker, lock, mac, left>>

\* git reset writes the files one by one and the index last.
ResetFile(f) ==
    /\ ing.pc = "sync" /\ f \in ing.todo
    /\ work' = [work EXCEPT ![f] = HEAD[f]]
    /\ ing' = [ing EXCEPT !.todo = @ \ {f}]
    /\ UNCHANGED <<log, index, marker, lock, mac, left>>

ResetIndex ==
    /\ ing.pc = "sync" /\ ing.todo = {}
    /\ index' = HEAD
    /\ ing' = [ing EXCEPT !.pc = "unmark"]
    /\ UNCHANGED <<log, work, marker, lock, mac, left>>

\* The marker is removed, if it can be; a recovered ingest goes on.
Unmark ==
    /\ ing.pc = "unmark"
    /\ \/ marker' = FALSE /\ UNCHANGED left
       \/ Spend("failure") /\ UNCHANGED marker
    /\ IF ing.goal = "recover"
       THEN ing' = [ing EXCEPT !.pc = "check"] /\ UNCHANGED lock
       ELSE EndIngest
    /\ UNCHANGED <<repo, mac>>

\* Mutant: The marker goes whether or not the second sync worked.
FailIngestClean ==
    /\ ing.pc \notin {"idle", "unmark"} /\ Spend("failure")
    /\ IF ing.pc = "move"
       THEN ing' = Sync("repair") /\ UNCHANGED <<lock, marker>>
       ELSE EndIngest /\ marker' = FALSE
    /\ UNCHANGED <<repo, mac>>

\* A refusal or a failed git call.  Before the ref moves nothing has changed;
\* after it the sync is tried again, once, and the marker stays if that fails.
FailIngest ==
    /\ ing.pc \notin {"idle", "unmark"} /\ Spend("failure")
    /\ IF ing.pc = "move" \/ (ing.pc = "sync" /\ ing.goal = "publish")
       THEN ing' = Sync("repair") /\ UNCHANGED lock
       ELSE EndIngest
    /\ UNCHANGED <<repo, marker, mac>>

\* The kernel releases the lock of a process that died.
CrashIngest ==
    /\ ing.pc # "idle" /\ Spend("crash") /\ EndIngest
    /\ UNCHANGED <<repo, marker, mac>>

Ingest ==
    \/ \E s \in Source, dry \in BOOLEAN : Begin(s, dry)
    \/ Check \/ ReadBase \/ PreservePin \/ MergeControl \/ Commit \/ MoveRef
    \/ \E f \in File : ResetFile(f)
    \/ ResetIndex \/ Unmark \/ FailIngest \/ CrashIngest

-----------------------------------------------------------------------------
\* The machine's writers: the product pin and the control address.

EndWrite == mac' = NoWrite /\ lock' = "free"

\* Mutant: The pin and address writes take no lock.
BeginWriteFreely(f, v) ==
    /\ mac.pc = "idle" /\ Spend("write")
    /\ mac' = [pc |-> "write", file |-> f, value |-> v]
    /\ UNCHANGED <<repo, marker, lock, ing>>

BeginWrite(f, v) ==
    /\ mac.pc = "idle" /\ Acquire("machine") /\ Spend("write")
    /\ mac' = [pc |-> "write", file |-> f, value |-> v]
    /\ UNCHANGED <<repo, marker, ing>>

WriteFile ==
    /\ mac.pc = "write"
    /\ work' = [work EXCEPT ![mac.file] = mac.value]
    /\ mac' = [mac EXCEPT !.pc = "status"]
    /\ UNCHANGED <<log, index, marker, lock, ing, left>>

\* A file git calls clean is not committed; a status that failed says nothing.
Status ==
    /\ mac.pc = "status"
    /\ LET clean == work[mac.file] = index[mac.file] /\ index[mac.file] = HEAD[mac.file] IN
       \/ clean /\ EndWrite /\ UNCHANGED left
       \/ ~clean /\ mac' = [mac EXCEPT !.pc = "add"] /\ UNCHANGED <<lock, left>>
       \/ clean /\ Spend("failure") /\ mac' = [mac EXCEPT !.pc = "add"] /\ UNCHANGED lock
    /\ UNCHANGED <<repo, marker, ing>>

Add ==
    /\ mac.pc = "add"
    /\ index' = [index EXCEPT ![mac.file] = work[mac.file]]
    /\ mac' = [mac EXCEPT !.pc = "commit"]
    /\ UNCHANGED <<log, work, marker, lock, ing, left>>

\* git commit takes the whole index, and fails when that is HEAD.
CommitIndex ==
    /\ mac.pc = "commit"
    /\ log' = IF index = HEAD THEN log
              ELSE Append(log, [tree |-> index, by |-> "machine"])
    /\ EndWrite
    /\ UNCHANGED <<index, work, marker, ing, left>>

\* A failed call, or the death of the process: what was done stays done.
StopWrite ==
    /\ mac.pc # "idle"
    /\ Spend("crash") \/ (mac.pc # "status" /\ Spend("failure"))
    /\ EndWrite
    /\ UNCHANGED <<repo, marker, ing>>

Machine ==
    \/ \E f \in MachineFile : \E v \in Values[f] : BeginWrite(f, v)
    \/ WriteFile \/ Status \/ Add \/ CommitIndex \/ StopWrite

-----------------------------------------------------------------------------
\* A human with a shell in the directory, and the server.

Meddled == ing' = [ing EXCEPT !.meddled = ing.pc # "idle"]

HandEdit(f) ==
    /\ Spend("hand")
    /\ work[f] # Edit /\ work' = [work EXCEPT ![f] = Edit]
    /\ Meddled
    /\ UNCHANGED <<log, index, marker, lock, mac>>

\* Git refuses a commit while a reset holds the index.
HandCommit ==
    /\ Spend("hand")
    /\ ing.pc = "sync" => ing.todo = File
    /\ index["drivers"] # Fix
    /\ work' = [work EXCEPT !["drivers"] = Fix]
    /\ index' = [index EXCEPT !["drivers"] = Fix]
    /\ log' = Append(log, [tree |-> index', by |-> "hand"])
    /\ Meddled
    /\ UNCHANGED <<marker, lock, mac>>

\* The server reads the working tree file by file, without the lock.
BeginLoad ==
    /\ load.pc = "idle"
    /\ load' = [pc |-> "drivers", types |-> work["types"], calm |-> ~marker]
    /\ UNCHANGED <<repo, marker, lock, ing, mac, left>>

EndLoad ==
    /\ load.pc = "drivers"
    /\ load' = [pc |-> "idle", types |-> None, calm |-> FALSE]
    /\ UNCHANGED <<repo, marker, lock, ing, mac, left>>

Write == Ingest \/ Machine \/ (\E f \in {"drivers", "pin"} : HandEdit(f)) \/ HandCommit

\* A load is calm if no marker stood during it.
Next ==
    \/ Write /\ load' = [load EXCEPT !.calm = @ /\ ~marker']
    \/ BeginLoad \/ EndLoad

Spec == Init /\ [][Next]_vars

-----------------------------------------------------------------------------
(* Properties. *)

Tree == [File -> Content]

\* The types of what git and the lock keep, and of what an ingest has.
RepositoryType ==
    /\ log \in Seq([tree : Tree, by : {"ingest", "machine", "hand"}]) /\ log # << >>
    /\ index \in Tree /\ work \in Tree
    /\ marker \in BOOLEAN /\ lock \in {"free", "ingest", "machine"}

IngestType ==
    ing \in [pc : {"idle", "check", "base", "pin", "address", "commit", "move", "sync", "unmark"},
             source : Source \cup {None}, dry : BOOLEAN, snapshot : BOOLEAN, base : Nat,
             pin : Content \cup {None}, address : Content \cup {None},
             todo : SUBSET File, goal : {"publish", "recover", "repair"}, meddled : BOOLEAN]

\* The type invariant: every variable, whoever writes to the repository.
TypeOK ==
    /\ RepositoryType /\ IngestType
    /\ mac \in [pc : {"idle", "write", "status", "add", "commit"},
                file : MachineFile \cup {None}, value : Pin \cup Address \cup {None}]
    /\ load \in [pc : {"idle", "drivers"}, types : Content \cup {None}, calm : BOOLEAN]
    /\ left \in [Budget -> Nat]

\* Without a marker the index holds the authored files of HEAD, and the
\* working tree those or a human's edit, whatever failed or died before
\* (ingest.py PENDING_MARKER: "its presence means an ingest died").
MarkerBrackets ==
    ~marker => \A f \in Authored :
                 index[f] = HEAD[f] /\ work[f] \in {HEAD[f], Edit}

\* An ingest that passed its check, and one that has synced, is over a
\* repository that is exactly HEAD, unless a human changed it since
\* (_ingest_locked: "the worktree is exactly HEAD on EVERY successful ingest").
ExactlyHead ==
    (\/ ing.pc \in {"base", "pin", "address", "commit", "move"} /\ ~ing.snapshot
     \/ ing.pc = "unmark")
    => ing.meddled \/ (work = HEAD /\ index = HEAD)

\* The repository is what the marker and the progress of the ingest say.
RepositoryInvariant == TypeOK /\ MarkerBrackets /\ ExactlyHead

\* The tree an ingest of s is to make on top of a tree.
Onto(s, tree) ==
    [f \in File |->
        CASE f \in Authored -> s
          [] f = "pin" /\ Declares[s] # None -> Declares[s]
          [] OTHER -> tree[f]]

\* What an ingest commits, and a dry run previews, carries over its parent's
\* address and undeclared pin, whatever was interrupted before it and however
\* far the working tree lags (_preserve_product_pin, _merge_control_toml,
\* _snapshot_committed_head).
CarriesOver ==
    ing.pc \in {"commit", "move"} /\ ~ing.meddled =>
        Staged = Onto(ing.source, log[ing.base].tree)

\* No commit is ever orphaned, not a human's either (_ingest_locked's
\* compare-and-swap).
HistoryKept ==
    [][Len(log') >= Len(log) /\ SubSeq(log', 1, Len(log)) = log]_vars

Committed(f, value) == \E k \in DOMAIN log : log[k].tree[f] = value

\* A sync overwrites a human's edit only if it was committed, or made after
\* the ingest's check, or over the marker of an interrupted one
\* (_recover_pending).
EditsSpared ==
    [][\A f \in File :
         ing.pc = "sync" /\ work[f] = Edit /\ work'[f] # Edit =>
             Committed(f, Edit) \/ ing.meddled \/ ing.goal = "recover"]_vars

\* Unless an interrupted ingest waits for its repair, a machine's commit
\* leaves the authored files alone (controltoml.py _commit, product.py
\* _write_pin_locked, repolock.py).
MachineMinds ==
    [][log' # log /\ ~marker /\ log'[Len(log')].by = "machine" =>
         \A f \in Authored : log'[Len(log')].tree[f] = HEAD[f]]_vars

\* What somebody wrote stands until somebody means to replace it.
NothingOverwritten == HistoryKept /\ EditsSpared /\ MachineMinds

\* What the server loads while no marker stands is one commit's, or a human's
\* edit: no load mixes two ingests (load_config, _sync_worktree_to_head).
LoadsWhole ==
    load.pc = "drivers" /\ load.calm =>
        \/ work["drivers"] = Edit
        \/ \E k \in DOMAIN log : /\ log[k].tree["types"] = load.types
                                 /\ log[k].tree["drivers"] = work["drivers"]
=============================================================================
