------------------------------ MODULE ConfigDist ------------------------------
(***************************************************************************)
(* The config distribution on one node: trees of driver code, knowledge    *)
(* and policy, each named by the hash of its content, a pointer to the one *)
(* in use, the driver child that runs from it and the export the Flight    *)
(* Decks mount.  A pass verifies what the pointer selects, reports it,     *)
(* reads desired state, and exchanges the tree in steps any of which may   *)
(* fail or be the last before the daemon dies; between any two a tree or   *)
(* the pointer may be damaged by a restore or a full disk.                 *)
(*                                                                         *)
(* One driver Stack, one exported tree.  Archives are checked in staging:  *)
(* an artifact that fails there is one that was not fetched.  Leftovers of *)
(* staging and of retired trees are swept without ever being read.         *)
(***************************************************************************)
EXTENDS Integers, Sequences

CONSTANTS
    Hash,           \* distributions
    Exported,       \* those that carry the exported tree
    Nothing,        \* no distribution: the empty hash
    Unknown,        \* a memo to be computed anew
    Damaged,        \* an export, or a pointer, of unverifiable content
    Desires,        \* [hash, named]: the hash, and whether the Stack is named
    MaxChanges,     \* bound: changes of desired state
    MaxFailures,    \* bound: fetches and file operations that fail
    MaxDamages,     \* bound: trees and pointers damaged
    MaxCrashes,     \* bound: deaths of the daemon
    MaxClaims       \* bound: claims the driver takes

ASSUME DistAssumption ==
    /\ Exported \subseteq Hash
    /\ Nothing # Unknown /\ Nothing # Damaged /\ Unknown # Damaged
    /\ {Nothing, Unknown, Damaged} \cap Hash = {}
    /\ Desires \subseteq [hash : Hash \cup {Nothing}, named : BOOLEAN]
    \* A build that names a custom driver carries its code.
    /\ \A d \in Desires : d.named => d.hash # Nothing
    /\ {MaxChanges, MaxFailures, MaxDamages, MaxCrashes, MaxClaims} \subseteq Nat

VARIABLES
    desired,        \* desired state, as last read
    reported,       \* the hash the last heartbeat reported
    \* On disk: the pointer, the trees, the staged replacement, the export.
    pointer, tree, staged, export,
    memo,           \* the verified hash of this pass
    previous,       \* the verified hash the exchange replaces
    child,          \* the hash the live driver runs from, or Nothing
    claim,          \* its claim: none, held without a job directory, a Run
    todo,           \* the steps the pass still has to take
    stale,          \* history: something was damaged since the verification
    late,           \* history: the Run began after the pass looked
    left            \* what is left of each bound

disk == <<pointer, tree, staged, export>>
driver == <<child, claim>>
seen == <<desired, reported>>
vars == <<seen, disk, memo, previous, driver, todo, stale, late, left>>

Budget == {"change", "failure", "damage", "crash", "claim"}
Spend(b) == left[b] > 0 /\ left' = [left EXCEPT ![b] = @ - 1]

\* The hash of the pointer, if the tree it selects is whole.
Verified ==
    IF pointer \in Hash /\ tree[pointer] = "good" THEN pointer ELSE Nothing

Init ==
    /\ desired \in Desires /\ reported = Nothing
    /\ pointer = Nothing /\ tree = [h \in Hash |-> "missing"]
    /\ staged = "missing" /\ export = Nothing
    /\ memo = Unknown /\ previous = Nothing
    /\ child = Nothing /\ claim = "none"
    /\ todo = << >> /\ stale = FALSE /\ late = FALSE
    /\ left = [b \in Budget |->
                 CASE b = "change" -> MaxChanges
                   [] b = "failure" -> MaxFailures
                   [] b = "damage" -> MaxDamages
                   [] b = "crash" -> MaxCrashes
                   [] b = "claim" -> MaxClaims]

-----------------------------------------------------------------------------
\* The driver and the disk.

\* A node whose reported hash is not the desired one is granted nothing; a
\* claim has no job directory until its Run is prepared.
TakeClaim ==
    /\ child # Nothing /\ claim = "none" /\ reported = desired.hash
    /\ Spend("claim")
    /\ claim' = "held"
    /\ UNCHANGED <<seen, disk, memo, previous, child, todo, stale, late>>

StartRun ==
    /\ claim = "held"
    /\ claim' = "run" /\ late' = (todo # << >>)
    /\ UNCHANGED <<seen, disk, memo, previous, child, todo, stale, left>>

EndRun ==
    /\ claim = "run"
    /\ claim' = "none"
    /\ UNCHANGED <<seen, disk, memo, previous, child, todo, stale, late, left>>

Damage ==
    /\ Spend("damage")
    /\ \/ /\ pointer' \in (Hash \cup {Nothing, Damaged}) \ {pointer}
          /\ UNCHANGED <<tree, export>>
       \/ /\ \E h \in Hash, what \in {"bad", "missing"} :
                tree[h] # "missing" /\ tree' = [tree EXCEPT ![h] = what]
          /\ UNCHANGED <<pointer, export>>
       \/ /\ export' = Damaged
          /\ UNCHANGED <<pointer, tree>>
    /\ stale' = TRUE
    /\ UNCHANGED <<seen, staged, memo, previous, driver, todo, late>>

Crash ==
    /\ Spend("crash")
    /\ memo' = Unknown /\ staged' = "missing" /\ previous' = Nothing
    /\ child' = Nothing /\ claim' = "none"
    /\ todo' = << >> /\ late' = FALSE
    /\ UNCHANGED <<seen, pointer, tree, export, stale>>

-----------------------------------------------------------------------------
\* The pass.

At(step) == todo # << >> /\ Head(todo) = step
Closing == <<"export", "reconcile">>
Done == todo' = SubSeq(todo, 2, Len(todo))

\* The heartbeat reports what verifies now.
Report ==
    /\ todo = << >>
    /\ memo' = Verified /\ reported' = Verified
    /\ stale' = FALSE /\ late' = FALSE
    /\ todo' = <<"answer">>
    /\ UNCHANGED <<desired, disk, previous, driver, left>>

Answer ==
    /\ At("answer")
    /\ todo' = <<"converge">>
    /\ \/ UNCHANGED <<desired, left>>
       \/ Spend("change") /\ desired' \in Desires \ {desired}
    /\ UNCHANGED <<reported, disk, memo, previous, driver, stale, late>>

\* Mutants: the drivers are stopped once the trees are exchanged; the pointer
\* is published before; the pointer is believed; no Run is asked for.
SwapStopLate == <<"fetch", "aside", "in", "stop", "publish", "gc">>
SwapPublishFirst == <<"fetch", "stop", "publish", "aside", "in", "gc">>
ConvergedByPointer == desired.hash = pointer
RunIgnored == FALSE

Swap == <<"fetch", "stop", "aside", "in", "publish", "gc">>
Retire == <<"drop", "unpoint", "clear">>

Converged == desired.hash = memo

\* A Run of a Stack desired state names holds the exchange back.
RunBlocks == desired.named /\ child # Nothing /\ claim = "run"

Converge ==
    /\ At("converge")
    /\ previous' = memo
    /\ todo' = (CASE Converged \/ RunBlocks -> << >>
                  [] ~(Converged \/ RunBlocks) /\ desired.hash = Nothing -> Retire
                  [] OTHER -> Swap)
               \o Closing
    /\ UNCHANGED <<seen, disk, memo, driver, stale, late, left>>

\* What fails inside the exchange ends it; staging is discarded.
Fail == Spend("failure") /\ todo' = Closing

Fetch ==
    /\ At("fetch")
    /\ \/ staged' = "good" /\ Done /\ UNCHANGED left
       \/ UNCHANGED staged /\ Fail
    /\ UNCHANGED <<seen, pointer, tree, export, memo, previous, driver, stale, late>>

\* Mutants: what staging proved is taken for the applied world; a stopped
\* driver's claim lives on.
StopDriversTrusting ==
    /\ IF desired.named THEN child' = Nothing /\ claim' = "none"
                        ELSE UNCHANGED driver
    /\ memo' = desired.hash
    /\ UNCHANGED <<seen, pointer, tree, export, previous, stale, late>>

StopDriversOnly ==
    /\ IF desired.named THEN child' = Nothing ELSE UNCHANGED child
    /\ memo' = Unknown
    /\ UNCHANGED <<seen, pointer, tree, export, previous, claim, stale, late>>

\* From here the memo is no evidence.  Only named Stacks are stopped.
StopDrivers ==
    /\ IF desired.named THEN child' = Nothing /\ claim' = "none"
                        ELSE UNCHANGED driver
    /\ memo' = Unknown
    /\ UNCHANGED <<seen, pointer, tree, export, previous, stale, late>>

StopForSwap ==
    /\ At("stop")
    /\ StopDrivers
    /\ \/ Done /\ UNCHANGED <<staged, left>>
       \/ child # Nothing /\ desired.named /\ staged' = "missing" /\ Fail

\* The tree of that name is renamed aside, then the staged one in.
MoveAside ==
    /\ At("aside")
    /\ \/ /\ tree' = [tree EXCEPT ![desired.hash] = "missing"]
          /\ Done /\ UNCHANGED <<staged, left>>
       \/ /\ tree[desired.hash] # "missing"
          /\ staged' = "missing" /\ Fail /\ UNCHANGED tree
    /\ UNCHANGED <<seen, pointer, export, memo, previous, driver, stale, late>>

MoveIn ==
    /\ At("in")
    /\ \/ /\ tree' = [tree EXCEPT ![desired.hash] = staged]
          /\ Done /\ UNCHANGED left
       \/ Fail /\ UNCHANGED tree
    /\ staged' = "missing"
    /\ UNCHANGED <<seen, pointer, export, memo, previous, driver, stale, late>>

Publish ==
    /\ At("publish")
    /\ \/ pointer' = desired.hash /\ memo' = desired.hash /\ Done /\ UNCHANGED left
       \/ Fail /\ UNCHANGED <<pointer, memo>>
    /\ UNCHANGED <<seen, tree, staged, export, previous, driver, stale, late>>

\* Removing a tree may stop half-way.
Reclaim(keep) ==
    \/ /\ tree' = [h \in Hash |-> IF h \in keep THEN tree[h] ELSE "missing"]
       /\ UNCHANGED left
    \/ \E h \in Hash \ keep :
          /\ tree[h] # "missing"
          /\ Spend("failure")
          /\ tree' = [k \in Hash |-> IF k \in keep THEN tree[k]
                                     ELSE IF k = h THEN "bad" ELSE "missing"]

Collect ==
    /\ At("gc")
    /\ Reclaim({desired.hash, previous})
    /\ Done
    /\ UNCHANGED <<seen, pointer, staged, export, memo, previous, driver, stale, late>>

\* The retirement of the last distribution.  No Stack of it is named any
\* more, so none is stopped here.
Drop ==
    /\ At("drop")
    /\ memo' = Unknown
    /\ Done
    /\ UNCHANGED <<seen, disk, previous, driver, stale, late, left>>

Unpoint ==
    /\ At("unpoint")
    /\ \/ pointer' = Nothing /\ UNCHANGED left
       \/ UNCHANGED pointer /\ Spend("failure")
    /\ Done
    /\ UNCHANGED <<seen, tree, staged, export, memo, previous, driver, stale, late>>

Clear ==
    /\ At("clear")
    /\ Reclaim({})
    /\ memo' = Nothing
    /\ Done
    /\ UNCHANGED <<seen, pointer, staged, export, previous, driver, stale, late>>

-----------------------------------------------------------------------------
\* The rest of the pass reads the memo, or verifies anew.

Applied == IF memo = Unknown THEN Verified ELSE memo
Remember ==
    /\ memo' = Applied
    /\ stale' = (stale /\ memo # Unknown)

\* The exported tree as the applied distribution has it.
Source ==
    CASE Applied \notin Exported \/ tree[Applied] = "missing" -> Nothing
      [] tree[Applied] = "good" -> Applied
      [] OTHER -> Damaged

\* Not converged, the export is left alone; retired or without a source, it
\* goes; else the copy is exchanged for it.
StartExport ==
    /\ At("export")
    /\ Remember
    /\ LET skip == Applied = Nothing /\ desired.hash # Nothing
       IN todo' = (IF skip \/ Source = export THEN << >>
                   ELSE IF export = Nothing THEN <<"fill">>
                   ELSE IF Source = Nothing THEN <<"empty">>
                   ELSE <<"empty", "fill">>) \o <<"reconcile">>
    /\ UNCHANGED <<seen, disk, previous, driver, late, left>>

EmptyExport ==
    /\ At("empty")
    /\ \/ export' = Nothing /\ Done /\ UNCHANGED left
       \/ UNCHANGED export /\ Spend("failure") /\ todo' = <<"reconcile">>
    /\ UNCHANGED <<seen, pointer, tree, staged, memo, previous, driver, stale, late>>

FillExport ==
    /\ At("fill")
    /\ \/ export' = Source /\ UNCHANGED left
       \/ UNCHANGED export /\ Spend("failure")
    /\ Done
    /\ UNCHANGED <<seen, pointer, tree, staged, memo, previous, driver, stale, late>>

\* A custom driver starts from the desired distribution, verified, and from
\* nothing else.
MayStart == desired.hash # Nothing /\ Applied = desired.hash

Reconcile ==
    /\ At("reconcile")
    /\ Remember
    /\ \/ /\ ~desired.named
          /\ child' = Nothing /\ claim' = "none"
       \/ /\ desired.named /\ child # Applied
          /\ ~RunBlocks /\ MayStart
          /\ child' = Applied /\ claim' = "none"
       \/ /\ desired.named
          /\ child = Applied \/ RunBlocks \/ ~MayStart
          /\ UNCHANGED driver
    /\ todo' = << >>
    /\ UNCHANGED <<seen, disk, previous, late, left>>

Exchange ==
    \/ Fetch \/ StopForSwap \/ MoveAside \/ MoveIn \/ Publish \/ Collect
    \/ Drop \/ Unpoint \/ Clear

Daemon ==
    \/ Report \/ Answer \/ Converge \/ Exchange
    \/ StartExport \/ EmptyExport \/ FillExport \/ Reconcile

Next == Daemon \/ TakeClaim \/ StartRun \/ EndRun \/ Damage \/ Crash

\* The daemon's loop runs on; a claim becomes a Run and a Run ends.
Fairness == WF_vars(Daemon) /\ WF_vars(StartRun \/ EndRun)

Spec == Init /\ [][Next]_vars /\ Fairness
-----------------------------------------------------------------------------
\* Properties.

\* Every variable keeps its type, and no claim outlives its driver.
TypeOK ==
    /\ desired \in Desires /\ reported \in Hash \cup {Nothing}
    /\ pointer \in Hash \cup {Nothing, Damaged}
    /\ tree \in [Hash -> {"good", "bad", "missing"}]
    /\ staged \in {"good", "missing"}
    /\ export \in Hash \cup {Nothing, Damaged}
    /\ memo \in Hash \cup {Nothing, Unknown}
    /\ previous \in Hash \cup {Nothing}
    /\ child \in Hash \cup {Nothing}
    /\ claim \in {"none", "held", "run"} /\ claim # "none" => child # Nothing
    /\ todo \in Seq({"answer", "converge", "fetch", "stop", "aside", "in",
                     "publish", "gc", "drop", "unpoint", "clear", "export",
                     "empty", "fill", "reconcile"})
    /\ stale \in BOOLEAN /\ late \in BOOLEAN
    /\ left \in [Budget -> Nat]

Undamaged == left'["damage"] = left["damage"]

\* A driver starts only from a whole tree that is the desired one and the one
\* the pointer selects, however the exchange before it ended; of damage done
\* since the pass looked it cannot know (_converge_process's start gate,
\* _apply_config_dist).
StartsVerified ==
    [][child' \notin {child, Nothing} /\ ~stale' =>
         child' = desired.hash /\ child' = pointer /\ tree[child'] = "good"]_vars

\* The daemon never touches a tree beneath the live driver of a Stack that
\* desired state names (_apply_config_dist, _gc_config_dist).
NeverBeneath ==
    [][Undamaged /\ desired.named /\ child # Nothing /\ child' = child =>
         tree'[child] = tree[child]]_vars

\* As long as some distribution is desired, a whole applied tree gives way
\* only to a whole one, whatever fails and wherever the daemon dies
\* (_exchange_config_dist_tree, _write_current_pointer).
OldOrNew ==
    [][Undamaged /\ ~stale /\ desired.hash # Nothing /\ Verified # Nothing =>
         Verified' # Nothing]_vars

\* An exchange ends no Run that was in flight when the pass began
\* (_converge_drivers, queue-behind).
SwapWaits ==
    [][claim = "run" /\ child' = Nothing /\ desired.named /\ todo' # << >> => late]_vars

\* What runs is spared: its tree by the daemon's file operations, its Run by
\* the exchange (_apply_config_dist).
RunningSpared == NeverBeneath /\ SwapWaits

\* The node runs, reports and exports what is desired.
Settled ==
    /\ Verified = desired.hash
    /\ child = (IF desired.named THEN desired.hash ELSE Nothing)
    /\ export = (IF desired.hash \in Exported THEN desired.hash ELSE Nothing)

\* Once desired state settles and failures, damage and claims stop, the node
\* settles on it (once, pass after pass).
Settles == <>[]Settled

\* What a comment says: no active Run is killed by an exchange
\* (_apply_config_dist).
SwapSparesRuns ==
    [][claim = "run" /\ desired.named /\ todo' # << >> => child' # Nothing]_vars
=============================================================================
