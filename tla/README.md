# TheOzolith: a TLA+ verification of the pipeline

TheOzolith runs coding agents over GitHub issues: a *Control Node* grants
`plan_ready` issues to *Implementer* drivers, each on a *node* supervised by a
*Node Daemon*; a driver runs an agent in a container, opens a pull request, and a
*Reviewer* driver sends it to a human or back into the pool. GitHub is the
authority on who owns an issue; the Control Node keeps a cache in SQLite; drivers
report with best-effort events; Node Daemons converge their hosts on the state the
Control Node desires. Nothing is transactional across the three, so the
correctness of the pipeline is an argument about orders of writes, late messages
and processes that die between two of them. This directory is that argument.

All paths below are relative to the root of the repository (`src/` here);
`control` stands for `control/src/theozolith_control`, `worker` for
`worker/src/theozolith_worker`, `nodedaemon` for
`nodedaemon/src/theozolith_nodedaemon`.

## 1. Inventory

| Component | State it keeps | Operations | What makes it correct |
|---|---|---|---|
| Claim dispatch (`control/dispatch.py`) | none beyond the cache; one lock for the fleet | `grant_work` (read caches, list the pool, dependency gate, grant row, three GitHub writes, answer), `review_targets` | an issue is never granted twice; a half-written claim is never orphaned |
| Janitor (`control/janitor.py`) | ledger of actions, zombie flags | `sweep` (dead claims, evidence first), `release_never_activated` (unwind grants), `sweep_base_drift` | never unwinds an activated claim, never strips a live one, never loses an issue |
| Coordination cache (`control/store.py`) | events, grants, node health, commands, convergence, join tokens | one transaction per call under one lock; eviction of telemetry | the latest run event decides liveness; activation retires the grant; quarantine latches; an eviction is never silent |
| Implementer claim execution (`worker/runner.py`, `implementer.py`, `base.py`, `events.py`, `dispatch.py`) | the claim in progress, its Runs | activation handshake, Runs with one local retry and one completion retry, ship, escalate | only the activated holder works on an issue; every claim ends shipped or escalated |
| Evidence (`worker/sweep.py`, `evidence.py`, `jobdir.py`) | job directories, parked directories, input snapshots | push, park, boot and idle sweeps | a bundle is published or still on disk |
| Dependency edges (`worker/deps.py`) | none: live reads | `walk_closure`, `resolve`, `chain_preconditions` | never resolves to a base that drops a blocker's work |
| Reviewer (`worker/reviewer.py`, `verdict.py`) | labels and comments of the PR | `review_pr`, `_apply`, `_publish`, escalations | every PR leaves review by one verdict; the round budget holds |
| Command queue and gates (`control/store.py`, `app.py`) | queued commands, convergence counts, quarantines | queue, deliver on heartbeat, acknowledge, defer | a command runs once and is never lost; a gated node gets no work |
| Node Daemon (`nodedaemon/daemon.py`) | applied state on disk, drained flag | heartbeat cycle: exchange, execute, reconcile, converge | no lifecycle action under a running claim; convergence |
| Node Daemon stacks (`nodedaemon/stacks.py`, `dockerctl.py`, `builds.py`) | containers, images | reconcile desired and observed | idempotent |
| Config distribution (`control/configdist.py`, `nodedaemon/configdist.py`) | applied trees | fetch, verify, exchange, retire | a crash leaves the old tree or the new one |
| Config repository and ingest (`control/configrepo.py`, `ingest.py`, `candidate.py`, `controltoml.py`, `repolock.py`) | the pinned build, a git repository, its write lock and the marker of a pending ingest | ingest and dry run, recovery, address and pin writes, load | no writer undoes another; what is loaded is one commit |
| Product updates (`control/product.py`, `nodedaemon/cliinstall.py`) | installed versions | install, switch | a failed install leaves the old version |
| Join and trust (`control/tls.py`, `joinstring.py`, `localnode.py`, `secretstore.py`) | join tokens, keys | issue, redeem, revoke | a token is redeemed once |
| Run containers and harness (`worker/containers.py`, `sessions.py`, `adapters.py`, `harness/`, `gate/`) | a container per Run | start, watch, stop | outcome only, external agents |
| Operator interfaces (`control/cli.py`, `tui/`, `web/`, `statuscli.py`) | the console's Run index and feed | page walks, filters, display, commands | the console shows what the store holds or says that it does not; the sweep loop of `cli.py` schedules the janitor |
| Knowledge (`knowledge/`) | none | compile documents | sequential, stateless |

How they interact. Drivers poll `POST /api/v1/dispatch` (15 s timeout) and post
events (3 s timeout, dropped when they fail, except that the first `claimed`
event is tried three times). Node Daemons heartbeat, receive commands in the
answer and acknowledge them. Dispatch handlers run in threads serialised by one
lock; the event handler and the janitor thread do not take that lock. All share
the SQLite cache, one transaction per call, and GitHub, one effect per call.
Every GitHub call may raise after it took effect.

What is hard is listed, line by line, in `PROJECT.json` under `hazards`: passes that
act on reads that are stale by the time they write, answers and events that are
lost after they took effect, deaths between two GitHub writes, timeouts that race
a late event, and claims that nobody is responsible for any more.

## 2. Modules

### ClaimProtocol: dispatch, drivers and janitor around one repository

State. GitHub is `labels`, `assignees`, `pr` and `evidence` (the Runs with a
bundle on the evidence branch). The Control cache is `grants` and `expired` (the
rows older than the activation window: the model has no clock, a row expires by
`WindowElapses`), `latest` (the latest run event of each issue, from which
`live_claims` is computed), `acted` (janitor ledger), `flagged`, and `health`
(consecutive failures; 2 is the quarantine latch). `dsp` is the pass that holds
the dispatch lock, `jan` the janitor thread, `wk` the drivers, each with a program
counter that names the next call. `parked` is a driver's disk. `link` and `silent`
are the network and the silence the janitor measures.

Actions follow the code call by call:

* dispatch: `DispatchRead` (the caches), `DispatchPick`/`DispatchNone` (the
  listing), `DispatchRecord` (grant row), `DispatchAssign`, `DispatchClaim`,
  `DispatchUnlabel` (the three writes), `DispatchReply`. A driver's request may
  time out at any moment while the pass goes on (`AskTimesOut`);
* driver: `EmitClaimed` (handshake), `RunFails`/`OpenPr`/`LabelPr`/`EmitPrOpen`,
  `PushRunEvidence`, `EmitFailed` with `NextAttempt` (retry rules),
  `EscalateLabel` to `EmitEscalated`, `IdleSweep`, `Boot`, `DriverDies`;
* janitor, sweep lane: `SweepClear`, `SweepFlag`, `SweepVerify`, `SweepEvidence`,
  `SweepLabel`, `SweepStrip`, `SweepUnlabel`, `SweepLedger`;
* janitor, grant lane: `ReleaseLook`, `ReleaseRow`, `UnwindAssignees`,
  `UnwindInProgress`, `UnwindRequeue`, `Rerecord`;
* environment: link losses, the grace period, the activation window, deaths of
  drivers, of nodes and of the Control Node, the operator's `Unquarantine`, a
  human's requeue, a Reviewer's `Revise`.

`GitHubCall` is the one place that says what a GitHub call may do: succeed, or
raise with or without its effect. `Emit` says what an event may do: land or not,
and be acknowledged or not if it lands.

Abstractions. The phase `gate` is as live as `claimed` and is merged with it.
An event lands while its POST is open; a request that the kernel delivers after
the 3 s timeout is not modelled, nor is a duplicate. Rows that are only shown
(malformed, wait, pause) are left out. Each driver is on a node of its own and has
a login of its own. The reads `SweepVerify` merges (issue and PR) happen one after
the other in the code with no decision in between. `Revise` is the whole verdict
of a Reviewer. The janitor snapshots all rows and handles them one after the
other; the model takes the snapshot per row. `DispatchRefuse` is the quarantine
gate; the version, drivers and lifecycle gates only refuse more. The inside of a
Run is one step with two failure classes; a completion miss whose worktree could
not be preserved behaves like the other class.

Assumptions that are parameters, so that a run can do without them:

* `Timely`: the activation window (60 s, `control/settings.py:64`) exceeds the
  driver's dispatch timeout (15 s) and handshake (three posts of 3 s), so a row
  never expires under a driver that waits for it or is activating it; and an
  agent session outlasts the janitor's two store calls on a row.
* `PromptPass`: a dispatch pass with its GitHub retries ends within the window.
  The code does not guarantee this: it is FALSE in `claim_hostile`
  and free in the proofs.
* `CrashInUnwind`: the Control Node may die inside `release_never_activated`.

Fairness (`FairSpec`): weak for the dispatcher, the janitor's lanes and each
driver, which are threads that the operating system runs; strong for the
janitor's looks at an issue and a driver's idle sweep, since every pass of the
loop in `cli.py` visits every claim and row and every empty pass of a driver ends
in `on_idle`, so they are not starved by other work that keeps interrupting them;
weak for restarts (supervised processes), healing links and the window.

### ClaimOwner: what the protocol promises

One variable, the owner of each issue. Ownership is acquired by a driver that owns
nothing on an issue nobody owns, and given up; it never passes from one driver to
another. `ImplementsClaimOwner` is the refinement: the owner of an issue is the
driver that holds it, from the answer of the dispatcher to the end of
`execute_claim`.


### Dependencies: the walk over blockers and the bases it yields

State. GitHub is `blockedBy` (the relations), `status` (open, completed, not
planned), `pull` (one pull request per issue: state, base, approval), `branches`
(which `ozolith/issue-n` exist) and `work`, which abstracts git: a branch is the set
of issues whose work it contains, a merge is a union, and a commit is contained in a
branch when its set is. `run` is the Run of each issue: how far it is, its base and
`cut`, what the base contained when it was cloned (`context.base_sha`). `pass` and
`memo` are the grant pass and its `_PassReads`. One walk is explicit: `walk`
(for whom, of which issue, the next call), `path` (`on_path`), `todo` (the loop of
each call of `visit` on the stack), `order`, `edges`, `seen` (the dictionaries of
`DependencyClosure`), `read` (the pull requests `resolve` fetched).

| Code | Actions |
|---|---|
| `walk_closure` (`worker/deps.py`) | `ReadBlockers`, `ReadForeign` (`CrossRepoEdgeError`), `VisitCycle` (`DependencyCycleError`), `VisitDone`, `VisitNew`, `Leave`, `ReadFails` |
| `resolve` | `ReadPull`, `ReadPullWaits`, `ResolveNone`, and `Base`, which `Grant` and `DeriveBase` use |
| `_granting_pass`, `_dependency_block` (`control/dispatch.py`) | `StartPass`, `Consider`, `Grant` |
| `_derive_checkout_base` and the clone (`worker/runner.py`) | `StartRun`, `DeriveBase`, `Checkout`, `CheckoutFails` |
| shipping (`worker/runner.py`) | `Push`, `ReconcileBase` (`LiveBases` is `_resolve_deleted_base`, `ShipBase` is `_verify_ship_base`), `Publish`, `ShipFails`, `RunFails` |
| Reviewers, humans, GitHub | `Approve`, `Reject`, `Merge` (delete the branch, retarget, close), `Complete`, `Abandon`, `DeleteBranch`, `EditEdge` |

Each action that reads GitHub makes one call, and anything may happen between two.
The one exception is a walk: a walk only reads and its state is private, so two
walks at a time show nothing one does not, and the model has one. `Grant` is the
whole write-through of `ClaimProtocol`, which models how it can break; a Run that
fails is granted again within the claim or is back in the pool (`Returns`).

Left out: resume rounds and completion retries, whose base is that of the existing
pull request (with the janitor's `sweep_base_drift`, in the plan); a human who
retargets a pull request; the twin of a create call (`create_pr`'s 422 fallback). The
ship-time walk along merged pull requests reads them in one step, since a merged
pull request does not change. The settings `chain_preconditions` reads are one flag,
`chaining`, free at the start and constant; an approval is one label.


### NodeCommands: the command queue, the heartbeat and the ladders

State. Control's store is `queue` (a command's id is its position), `done`
(`completed_at`), `desired`, `reported` and `health` (`version_health`,
`drivers_health`: beats off target, restart and escalation latches). The node's disk
is `acks` (`pending-acks.json`), `cache` (the desired state last received),
`applied` and `drainedDisk`. The daemon's memory is `drained`, `blocker` (the deferral
of each aspect), `nudged`, `attempted` and the pass: `pc` and `todo`, the ids still to walk. `alive` and
`run` are the driver children and their Runs; a Run the node can see has a job
directory ("running" or, its driver dead, "orphan"), a granted one has none.

| Code | Actions |
|---|---|
| `queue_command`, `product_update` (`control/app.py`), a config commit | `QueueCommand`, `ProductUpdate`, `Repin` |
| `dispatch` (`control/app.py`) reads the pins before the dispatcher's lock | `AskWork` |
| the gate under the lock (`control/dispatch.py:213-227`): the versions, then the queue | `CheckVersions`, `CheckQueue` (`QueueClear`) |
| `_granting_pass`: GitHub's listing, the dependency walk, then the grant row (`dispatch.py:312`) | `Grant` |
| the driver | `StartRun`, `EndRun`, `BootSweep` |
| `heartbeat` and `_observe_convergence` (`control/app.py`, `store.py`) | `Handle`, inside `BeatAnswered`, `AnswerLost`; `BeatUnreached` |
| `once` and `_execute` (`nodedaemon/daemon.py`) | `Defer`, `Accept`, `CommandsOver`, `DrainOrRecycle`, `SaveDrained`, `AckCommand`, `TeardownFails`, `Nudge`, `RestartDaemon` |
| `_converge_product`, `_converge_drivers` | `ProductRests`, `ProductDefers`, `ProductAttempt`, `Install`, `InstallFails`, and the same for the drivers (`Swap`) |
| `_reconcile` | `Reconcile` |
| the death of the daemon | `Crash` |

A drain or a recycle takes three steps, `DrainOrRecycle` (teardown and memory),
`SaveDrained` (`drained.json`) and `AckCommand` (`pending-acks.json`): the daemon can
die between any two, and the command then comes again with the disk half written.
Four variables are history: `tried`, `renewed` (the daemon was replaced since the
ladder asked), `cut` (the last pass left commands unseen) and `ticket` (what was queued,
pinned and out of date when the gate of a Run was read).

A request for work is four steps, because nothing but the dispatcher's lock holds them
together, and commands, re-pins and heartbeats do not take it: `queue_command` may fall
between any two. The two version gates are one step (they read one heartbeat's row each in
turn), and a config that cannot be read at all, which opens both, is left out
(`app.py:396-411`). How `Grant` answers, an issue or none, is not this module's concern.

`Handle` is the whole handler: acknowledgements complete their commands, the beat is
counted, a ladder may queue a restart, and the answer lists what is pending. Left out:
quarantine (it only closes the gate further), the `rebuild` command (an image
build), the marks a deferral leaves on the dashboard, and a heartbeat that arrives
after its request timed out.

`Swap` and `Install` are one step here; `ConfigDist` takes the first apart.


### EventCache: eviction and the evidence it leaves

State: `log` (every event ever recorded), `kept` (the rows still in the table),
`evidence` (`event_eviction_scopes`: per scope the bounds and samples of what went,
or all of it under the sentinel `Any`) and `legacy` (the mark an earlier release left).
`RecordEvent`, and `EvictProgress` in one transaction with its evidence (`Merged`,
`Capped`, `Folded`, `Collapses` are the branches of `_record_eviction_scopes`).
`Incomplete` is `eviction_evidence`, the verdict of a filtered read. A scope stands
for a (type, node, component) triple and a filter for the scopes it selects, which is
all the code uses them for. Payloads weigh 1: sizes only decide how many
rows go. The clock may step back.

### EventConsole: the operator's console over it

EXTENDS `EventCache`. `index`, `maxRun`, `truncated` are the Run index of
`tui/model.py`; `filter`, `feed`, `evicted`, `gap` the events panel; `walk` the read in
flight. One refresh (`refresh_now` in `tui/app.py`) is `StartRefresh`, then page by page
`ReadRows` (rows and verdict are two holds of the store's lock) with `Continue`,
`BootstrapRuns`, `AdvanceRuns`, `Rebootstrap` for the index and `AdvancePanel`,
`ResyncPanel` for the panel; `Refused` is a failing read, `SubmitFilter` the operator.
Left out: the progress index and the errors panel, which are the same walk over other
filters, fields that are only shown, and paging back by hand.


### StackForms: one Stack name and its three forms

State. `desired` is what the cached desired state says of the Stack; `child`, `busy`,
`corpse` the supervised process, its Run and a run container whose driver is gone;
`image`, `project` what Docker holds; `record` and `recordDisk` the compose record
in memory and on disk, `generations` the materialized files; `todo` the steps the pass
still has to take. `Plan` computes them from desired and observed state the way
`_reconcile` branches; each step is an action that may fail (`Raise`) or be the last
before `Crash`, which loses memory and keeps Docker and the disk.

Actions: `StopChild`, `RemoveImage`, `ComposeDown`, `DownUntracked`, `StartChild`,
`RunImage`, `WriteAhead`, `ComposeUp`, `Confirm`, `Reap`, `Sweep`, with
`Begin`, `Look` (the branch that is taken) and the world: `Change`, `RunStarts`,
`RunEnds`, `ChildDies`, `ContainersStop`, `CrashAndLose` (the records' file is
unreadable). Left out: image builds, secrets and caches (prerequisites that
may miss), ports and volumes, Stacks of other names (no step of one looks at another).

### ConfigDist: the exchange of driver code

State: `pointer`, `tree`, `staged`, `export` on disk; `memo`, the verified hash of the
pass (`_current_drivers_hash`), `previous`, `child` (the hash the live driver runs
from), `claim` (none, held without a job directory, a Run), `desired`,
`reported`, and `todo`. `Converge` chooses between `Swap` (fetch, stop the drivers,
rename the old tree aside, rename the new one in, publish the pointer, collect) and
`Retire`; each is a step that may fail or be the last before `Crash`. `Damage` spoils a
tree, the pointer or the export at any moment. `StartExport`, `EmptyExport`,
`FillExport` are `_export_policy` (the knowledge export has the same steps);
`Reconcile` is the start gate of `_converge_process` for a custom driver.
Left out: the artifact Control serves (an artifact that fails in staging is one that
was not fetched), the child's own death (in `StackForms`), and the retirement that
is skipped because a damaged applied tree reads as none. A build that names a
custom driver carries its code (`configrepo.py` refuses others), which is an
assumption on `Desires`.


### PinnedBuild: the pinned build, its writers and its reader

State. `log` is HEAD and its ancestors, each a tree and who made it; `index`, `work`,
`marker` and `lock` are the repository's index, its working tree, the file
`theozolith-ingest-pending` and the flock of `repolock.py`. `ing` is the ingest that
runs, with what it has read so far; `mac` the write of a pin or an address; `load` a
load of the server. A tree has four files: two authored ones (`types`, `drivers`) that
an ingest takes from its source, the product pin, which a source may declare or leave
alone, and the address block of `control.toml`, which is the machine's.

Actions. `Begin` takes the lock and looks for the marker: a real ingest repairs first
(`ResetFile`, `ResetIndex`, `Unmark`: `_sync_worktree_to_head`, `_recover_pending`), a
dry run reads a snapshot of HEAD. Then `Check`, `ReadBase`, `PreservePin`,
`MergeControl`, `Commit` (objects only, then the marker), `MoveRef` (the compare and
swap) and the sync. `FailIngest` is any refusal or failed git call, with the second
sync of the exception handler; `CrashIngest` a death between any two steps.
`BeginWrite`, `WriteFile`, `Status`, `Add`, `CommitIndex` are `write_pin` and
`write_control_address`, whose `git commit` takes the whole index; `StopWrite` their
failure or death. `HandEdit` and `HandCommit` are a human who takes no lock;
`BeginLoad` and `EndLoad` the two ends of `load_config`.

Left out: the settings half of `control.toml`, which is authored like `types`; ignored
files; a human who stages a file and does not commit it, which a machine's commit of the
whole index would take along (`control/product.py:155-163`); parsing, compilation and
registry lookups, any of which is a refusal (`FailIngest`); and git's own lock files.


### ReviewRounds: a PR from its first ship to a human

State. `pr` (open, its labels, the number of its head), `issue` (labels and
assignment), `verdicts` (the verdict comments) and `latest` (the last word on the PR),
`run` (the Implementer Run on the issue), `claim` (what Control knows of its claim, live,
handled by the janitor or ended by an event, and what the janitor can see of it: that
its node and driver are silent, that the bundle of its Run has landed), `round` (what
each Reviewer driver holds in memory), and of the janitor's base-drift lane `drift` (the
call it is at), `acted` (the ledger), `notes` (its comments) with `tip`, the branch the
PR is based on.

| Code | Actions |
|---|---|
| `review_targets`, `execute` (`control/dispatch.py`, `worker/reviewer.py`) | `Discover`, `Take` (fresh labels, the budget) |
| `review_pr` | `Judge` (`Validated` is the final-round rule and the one strike), `NoVerdict` (no inputs, a schema skew, a session that breaks) |
| `_publish`, `_strip_claim_and_requeue` | `Write`, one GitHub write after the other (`Writes`), `CutShort` |
| `_drift_one` (`control/janitor.py`) | `DriftList`, `DriftRead` (with the recovery of a lost record), `DriftComment`, `DriftNote`, `DriftLabel`, `DriftRecord`, `DriftCut` |
| the Run (`worker/runner.py`) | `Resume`, `Push`, `MarkReady`, `Conclude`, `EventLost`, `RunFails`, `RunDies` |
| `_sweep_one`, `_last_seen`, `_evidence_landed` (`control/janitor.py`) | `Janitor`, guarded by `Silence` and `BundleLands`: a claim that was stripped, or under a `pr_ready` PR, is only recorded; another is escalated once its evidence is there |
| humans, the blocker | `Merge`, `HandBack`, `Decide`; `BlockerMoves` |

The grant, the checkout and the zombie sweep, its reads and its writes, are one step
each: `ClaimProtocol` takes them apart, and there `Revise` stands for a round. What is
kept of a claim is that `Resume` passes over an issue whose claim no event ended
(`control/dispatch.py:281`), whatever the janitor did to its labels. A node falls silent
here only once its Run is over; a live driver cut off from Control is in
`ClaimProtocol` only. Left out: the evidence pushes of the Reviewer, which
are "never fatal"; the risk and deviation labels; the commit a verdict designates
to resume from (a resumed Run pushes a new head either way); a blocker that is closed
or held, on which the drift lane writes nothing. A broken PR is retried each
pass; `MaxCuts` bounds that.

Assumptions: `Patient`, the human moves a PR only between rounds; with it FALSE
a human's requeue during a session gives the PR two writers. And the human lifts a hold
whole: whoever takes `blocked` off takes `needs_human` off with it.

## 3. Runs

### ClaimProtocol

Runs end when the bounds on Runs and faults are spent, and the system itself may
rest with an empty pool, so deadlock is not checked (safety of a stuck thread is
covered by the liveness runs).

| Run | Instance | Shows |
|---|---|---|
| `claim_core` | 1 issue, 2 drivers, 5 Runs, 1 driver death, 1 GitHub failure, 1 lost message | `TypeOK`; `NothingFallsThrough`: `ClaimTracked` (every claim on GitHub is known to somebody) and `NeverInvisible` (every issue is in the pool, claimed, escalated or under review); and, until GitHub fails a call (`NoFaultYet`): `JanitorSparesDrivers` (`CleanUnwind`, `EscalatesOnlyDeadClaims`), `OwnershipOnGitHub`, `GrantsAreWorkable` (`FailedNeverGranted`, `ReadyNeverGranted`) |
| `claim_hostile` | 1 issue, 2 drivers, slow passes, a death of Control anywhere, 1 lost message, 1 loss of the link | `OwnershipInvariant`, the inductive invariant of the proofs, of which `SingleOwner` is a part; `ImplementsClaimOwner` |
| `claim_liveness` | 1 issue, 1 driver, 1 death, 1 failure, `FairSpec` | `ClaimsSettle` (`GrantSettles`, `ClaimEnds`), `EvidencePublished` |

Why the bounds are enough. Issues do not interact except through the driver that
takes one at a time, so one issue shows every interleaving around it; that the drivers
and rows of several are not confused is part of what is proved, for every set of issues. Two drivers are needed for a race, and a
third adds none: the pass serves one, the row names one. A claim takes up to three
Runs (`CLAIM_RUN_BUDGET` plus the completion retry); with four, a claim can fail,
retry and a second claim start; five let a second claim fail once more. One fault of
each kind is placed at every point of every behaviour; a lost answer and a broken link
together are a claimed event that lands and is acknowledged to none of the attempts.

What the runs assume and the code does not guarantee. `ClaimTracked` needs a dispatch
pass to end within the activation window of its row (`PromptPass`): GitHub's
rate-limit sleeps can make it longer, the janitor then unwinds the row in the middle
of the pass, and the rest of the claim has no row. `claim_core` with `PromptPass =
FALSE` finds that behaviour. The ownership properties do not need it.


### Dependencies

A plan that is done or that waits for a human is at rest, so deadlock is not checked;
`PlanDrains` shows that a plan does not rest before.

| Run | Instance | Shows |
|---|---|---|
| `deps_walk` | 3 issues; a chain, a fan-in, a fan-out, a diamond's half, a relation to another repository; chaining allowed or not; 1 edit, 1 withdrawal or abandoned issue, 1 failure | `TypeOK`, `WalkInvariant` (the loop invariant of `walk_closure`), `DiffIsOwn` (a pull request carries its own layers only), `StartsInOrder` (`GoAheadHolds`, and `UnchainedWaits` where merge settings forbid chaining), `NoWorkDropped` |
| `deps_drains` | 3 issues, every acyclic plan, chaining allowed or not, no failure, `FairSpec` | `PlanDrains` |

Why the bounds are enough. Three issues are the smallest with a diamond
(an issue blocked by another directly and through a third), a chain of two layers
that can be merged in either order, a fan-in that is no chain, and, after an edit, a
cycle that is not a pair. One edit is enough for an order or a cycle that was never in
the graph at one moment, because the walk reads each issue once. One
failure at any point lets a Run leave a branch that its retry overwrites.

`GoAheadHolds`, `UnchainedWaits` and `NoWorkDropped` are conditional on `Undisturbed`: the code
promises a go-ahead on what it read, not on what a human changes later.
`NoWorkDropped` says that a blocker's work is in the base or in a
branch the base will be merged into. The stronger statement, that it is in the
base, is false and not claimed by the code: a blocker completed after the tip of the
chain was cut is in the default branch and not in the tip
(`worker/tests/test_deps.py:168` wants the chained base).

Fairness (`FairSpec`). Weak for the steps of a walk, a grant pass and a Run, which
are threads; strong for `Consider` and `StartRun`, because in the code the
dispatcher and the drivers walk at the same time and in the model they share one
walk; weak for `Approve`, `Merge` and `Complete`, which is the assumption
on humans and Reviewers without which no plan drains. That a walk ends when the
graph is edited under it follows from `PathIsSimple`: it reads no issue twice.


### NodeCommands

| Run | Instance | Shows |
|---|---|---|
| `node_commands` | a builtin and a custom Stack, 2 operator commands out of a drain, a recycle, a forced update and a restart, 1 re-pin of either aspect, 1 request for work, 2 failing installs, and one of: a crash, a lost heartbeat or answer, a failing teardown; `FairSpec` | `DrainsAsOrdered`: `TypeOK`, `DrainHoldsUnfailed`, `RecycleReleases` (the operator's last word on a Stack stands); `GateProtectsRuns`; `LadderInOrder` (`RestartOnlyAfterTry`, `EscalatesAfterRestart`); `Settles` |

Why the bounds are enough. What may go wrong with commands needs two of them in an
order and one fault between, and every pair in every order is a behaviour; the
ladders queue restarts of their own, so a behaviour has up to four commands. Two beats
off the pin before the restart (`offpin_beats`) is the smallest value for
which counting, deferral and the latches differ. One request and two failures are too few for
the two exemptions of section 5 (a grant on an outdated report, a restart that is
never seen) to matter: they came out of larger instances and of the proofs, which
hold for every bound. Fairness: the daemon's loop (`run`) never ends and a driver sweeps at
boot and ends its Runs, each phase of which has a timeout; operators are not fair.


### EventCache and EventConsole

| Run | Instance | Shows |
|---|---|---|
| `event_cache` | 5 events of an issue and two telemetry scopes, two readings of the clock, a cap of 1 scope and of 2 samples, a cache of an earlier release or none | `EvidenceInvariant` (`CacheTypeOK`, with the bound on the evidence, `EvidenceSound` and `EvidenceExact`) |
| `event_console` | 4 events of two issues and two scopes, pages of one row, 2 pages for the index and for the feed, a feed of 2, 1 refused read, 1 change of filters | `IndexInvariant` (`TypeOK`, `IndexIsLatest`), `FeedHonest`, `IndexCatchesUp` |

Why the bounds are enough. Every cap is one below what the events can reach, so
each is crossed: scopes collapse into the sentinel, samples are dropped for
bounds, walks run out of pages, the feed is cut. `EventConsole` allows an eviction
between the rows and the verdict of every page, and a new event at every step.
All events recorded is a rest of `CacheSpec`, where deadlock is not checked; the
console never rests. Fairness: the refresh timer.

`FeedHonest` says what is between two events of the feed; a panel whose first read
found nothing has no follow point, and the feed starts at the first page of its next
read by design.


### StackForms and ConfigDist

| Run | Instance | Shows |
|---|---|---|
| `stack_forms` | 8 desires over 3 specs (one without a run image), 3 changes, 2 failures, and 1 each of a failed write of the records, a death of a child or container, a crash, a lost cache, a Run | `HostInvariant` (`TypeOK`, `OneForm`, `ProjectRecorded`, `AppliedIsTrue`), `RunsSpared`, `Converges` |
| `config_dist` | 2 distributions and none, 3 changes, 2 failures, 1 damage, 1 crash, 2 claims | `TypeOK`, `StartsVerified`, `OldOrNew`, `RunningSpared` (`NeverBeneath`, `SwapWaits`), `Settles` |

Why the bounds are enough. Three changes go from any form to any other and back; one
crash falls between any two steps of any of them, and two failures put a failure
into the pass that recovers from it. Of a distribution only its equality to another
matters, so two and none are all there are.

Exemptions, each a ghost variable that says when it applies. `RunsSpared` and
`SwapWaits` exempt a Run that began after the pass looked (`late`): the code looks at the
job directories once, and section 5 says what happens in the window. The properties
about records assume the records' file was never unreadable (`Undamaged`).
`Converges` exempts `Wedged`: a record whose removal failed, read back after a
crash, names files that have been swept, and no `compose down` can succeed for it.
Fairness: the daemon's loop, and Runs end.


### PinnedBuild

| Run | Instance | Shows |
|---|---|---|
| `pinned_build` | 2 sources, one of which declares a pin, 2 pins, 2 addresses; 3 ingests or dry runs, 2 machine's writes, 1 failure, 1 death, 1 edit or commit by hand | `RepositoryInvariant` (`TypeOK`, `MarkerBrackets`, `ExactlyHead`), `CarriesOver`, `LoadsWhole`, `NothingOverwritten` (`HistoryKept`, `EditsSpared`, `MachineMinds`) |

Why the bounds are enough. The shortest trouble is one ingest that is interrupted, one
write or dry run over what it left, and one ingest that repairs; the hand may fall
between any two steps of it, and a second write follows the first. Two sources and two
values per machine's file tell the old one from the new.

Exemptions, each in its property. `MachineMinds` says nothing while a marker stands,
`EditsSpared` nothing of an edit made after the check or over a marker, `LoadsWhole`
nothing of a load during which a marker stood; section 5 says what happens there.
Every behaviour ends when its bounds are spent, so deadlock is not checked. No
fairness: nothing in this component retries by itself.


### ReviewRounds

| Run | Instance | Shows |
|---|---|---|
| `review_rounds` | 1 Reviewer, `ROUND_BUDGET` 3, and 1 each of: a human's decision, a Run that dies, fails or loses its last event, a round without a verdict or a cut between writes; 2 moves of the base branch | `LabelsAreEarned`: `TypeOK`, `GoAheadIsApproved` (what dispatch takes for an approval is one, of this head) and `PlanOnPR`; `BoundedTurns` (`OneActor`, `ReworkBounded`), `OnlyCutsStrand`; `DriftInvariant` (`BlockIsExplained`, `DriftRuledOnce`); `ReachesHuman` |

Why the bounds are enough. Rounds are bounded by the code itself. One cut is placed at
every write of every verdict and of the janitor's escalation; a human's decision
gives a budget that is spent, or a hold that is lifted, a second life; two
moves of the base make a drift after a drift. A PR that waits for the human is at
rest, so deadlock is not checked. The branch of `Take` that finds the budget spent is
never taken: no Reviewer writes the last attempt label (`attempts < RoundBudget` is proved),
only a label set by hand would reach it. Fairness: the drivers and the zombie sweep; not
the human, not the drift lane, and neither does a node have to fall silent nor evidence
to land.

Exemptions of `ReachesHuman`, all three the code's own: `Stranded` (only a cut verdict
leaves it, as `OnlyCutsStrand` says); `Unswept`, a dead Run whose node or driver is heard
of, or whose evidence never lands, which the janitor never touches
(`control/janitor.py:150-154`, `:179-180`); `Shadowed`, an issue that is back in the pool
but whose claim no event ended, which dispatch passes over (`control/dispatch.py:281`),
also after the janitor has recorded it (`control/janitor.py:161-166`). Section 5 tells
of them.

## 4. Proofs

`ClaimProtocol_proofs` proves, for all sets of issues and drivers and all bounds:

* `TypeCorrect`: `Spec => []TypeOK`. `TypeOK` includes the two facts about `dsp`
  and `jan` that make it inductive: a pass has its driver, a busy janitor its issue.
* `OwnershipIsInvariant`: if `Timely`, `Spec => []OwnershipInvariant`, with
  `PromptPass` and `CrashInUnwind` left free: however slow GitHub is and wherever
  the Control Node dies.
* `SingleOwnership`: if `Timely`, `Spec => []SingleOwner`.
* `NothingIsLost`: if `Timely`, `PromptPass` and not `CrashInUnwind`,
  `Spec => []NothingFallsThrough`.
* `ClaimsAreWritten`, `WorkableGrants`, `DriversAreSpared`: if `Timely` and `PromptPass`,
  `Spec => []OwnershipOnGitHub`, `[]GrantsAreWorkable` and `[]JanitorSparesDrivers`.

The argument. `SingleOwner` alone is not inductive: a second grant needs the first
holder to be unknown to the pass. The invariant says who knows what. A held issue
has its grant row until the first `claimed` event lands and is live from then on
(`HoldersAreKnown`). A pass only considers issues that were neither granted nor
live when it read the cache, and nobody can come to hold one during the pass,
because only the pass hands issues out (`PassIsExclusive`); while the driver
listens, the row the pass wrote is still there. A row can disappear in two ways: the
`claimed` event, which makes the issue live in the same transaction, and the
janitor, which only takes a row that expired, and an expired row waits for nobody
(`ExpiredRowsAreStale`, `LookIsStale`, where `Timely` is used). Terminal events are
only emitted by the holder as its last act on the issue, and a driver that
abandoned a grant, or died, holds nothing.

The proof has one lemma per group of actions and one step per conjunct the
actions can disturb.

The refinement is `ProtocolImplementsClaimOwner`: if `Timely`,
`Spec => ImplementsClaimOwner`. The mapping gives each issue the driver that
`Holds` it, or `None`. Because of `SingleOwner` that driver is unique, so the proof
compares, action by action, which pairs of driver and issue hold before and after
the step: only a reply a driver still listens for adds a pair (`Acquire`), only the
holder's own last step, its abandonment or its death removes one (`Release`), and
no step does both to one issue, which would be a transfer outside the pool. It
needs one invariant more than the ownership proof, `Listening`
(`ListeningIsInvariant`), about the state in which a driver can still be handed a reply.

Nothing falls through by `SightInvariant` (`SightIsInvariant`). A claim about to end
must leave its issue released: failed, under a ready PR, or unclaimed in the pool
(`EndsVisibly`); an unwinding must have taken away what its step says, or somebody has
taken the issue over (`UnwindsInOrder`); and the row of a pass must outlive the pass
(`PassKeepsRow`), which is what `PromptPass` is for: if GitHub's retries let a pass outlast
the activation window, the janitor unwinds a claim the pass is still writing, and the
pass's last writes leave a claim that is known to nobody. The proof reduces every step but
a few of the pass and the janitor to `SightStep`: nobody else adds a claim, takes an issue
out of the pool, or removes a mark without releasing.

What GitHub shows holds until the first fault only, so the inductive invariant is
`NoFaultYet => CleanInvariant` (`CleanIsInvariant`), with the budgets as the reason that a
fault is never taken back (`SpentStaysSpent`). `CleanInvariant` says issue by issue where
each thread stands: what the pass has written so far, that a row is a grant nobody has
activated, that a silent driver is a dead one (`LinkedDrivers`) and so a sweep or an
unwinding is about an issue nobody holds, and that a driver at work owns its issue
(`Owned`). Each step touches at most one issue: `Elsewhere` and `TouchClean` say once
that the others keep their part, and `HeldAlone` that the issue of a holder is open to no
pass, unwinding or sweep.

`EvidencePublished` and `ClaimsSettle` need fairness and are out of the prover's reach.


`Dependencies_proofs` proves, for all sets of issues, initial graphs and bounds:

* `TypeCorrect`: `Spec => []TypeOK`;
* `WalkIsCorrect`: `Spec => []WalkInvariant`, the loop invariant of `walk_closure`
  while humans edit the graph it reads;
* `ClosureIsComplete`: when the walk hands over to `resolve`, the order contains the
  walked issue and, with each issue, every blocker that was read of it;
* `DiffsAreOwn`: `Spec => []DiffIsOwn`;
* `WorkStartsInOrder`: `Spec => []StartsInOrder`;
* `BasesDropNothing`: `Spec => []NoWorkDropped`.

The walk. That the order is topological is not inductive: `Leave` appends
an issue because its frame is empty, which says nothing of where its blockers went.
`FramesAreCovered` says it: every blocker read of an issue on the path is done, still in its
frame, the next issue on the path, or being read. When the frame is empty and the
issue is the last of the path, all are done. `PathIsSimple` and `PathIsStack`
(the path is a call stack from the walked issue, disjoint from what is done) make
that preserved by `VisitNew` and `Leave`, and give `CyclesAreRead`: a blocker found
on the path closes a cycle of relations that were all read. The relations
themselves never appear, only what was read of them, which is why edits cannot hurt.

Chains of any length. Closures, layers and the branches below a branch are each
`ReachedFrom`: the least set that holds the start and is closed under a relation.
`ReachClosed` and `ReachLeast` are all the proofs use of it, so they need no
induction over the length of a chain: to show that everything reached has a
property, show that the set of what has it is closed.

`DiffInvariant`. A pull request's diff changes when something else moves, so the proof
follows the work: `CutsAreHeld` (a Run's base holds what the Run was cut from, its
branch is that and its own issue), `BasesAreShipped` (nothing is based on a branch
without a pull request, so a push never changes what is below another branch) and
`RunsAreStaged` (an issue whose Run is not over has no pull request, and one walk
at most works for it). A merge then moves the layers of an issue into those of
the issue it was merged into, and retargeting follows the work.

`StartInvariant`. What dispatch reads is old when it grants. The proof shows that
this cannot hurt: undisturbed by humans, GitHub only moves `Forward` (a blocker that
is completed, or merged or approved, stays so), so what the memo, the walk and
`resolve` hold is still true when it is used (`MemoHolds`, `WalkHolds`). With the
walk's invariant, the blockers a walk found are the whole closure
(`BlockersAreClosure`), each settled or completed (`ResolvedBlockers`), and a grant
keeps its go-ahead (`GrantsHold`), with no issue in its own closure. Without
chaining all are completed when granted, so the driver, which does not check the
merge settings, reads no open blocker (`UnchainedHolds`).

`WorkInvariant`. Bases are blockers or the default branch (`BasesAreBlockers`), so no
branch is its own base and a merge leads down to the default branch (`BranchesHold`).
What a driver has read of a chain may be merged away before it has read the rest:
`BuiltOn` says what stays true of a pull request it read as based on *b*, that all the
work below *b* is below it, and every branch below *b* that may still get more.
`WorkGrows` is the step lemma: pushes, publications, approvals and merges all
preserve it. From it, `DerivedBase`: the open blockers lie along the chain from
the tip; a merged blocker not below the tip would be on a branch not below the tip
either, and so on without ever reaching the default branch. TLC checked
`DiffInvariant`, `StartInvariant` and `WorkInvariant` on the instance of `deps_walk` and on
every acyclic relation between three issues before they were proved.

Model-checked only: `PlanDrains`, a liveness property.

`NodeCommands_proofs` proves, from `NodeAssumption` alone, that is for all sets of
Stacks, menus and versions, any `offpin_beats` and all bounds:

* `TypeCorrect`: `Spec => []TypeOK`;
* `OperatorsLastWord`: `Spec => []DrainsAsOrdered`;
* `GatesAreRespected`: `Spec => GateProtectsRuns`;
* `LaddersClimbInOrder`: `Spec => LadderInOrder`.

The argument for the last word. `DrainsAsOrdered` speaks of acknowledged commands
only, and a step may carry a command out that is acknowledged later or never. Two
facts make it inductive. `OrderInvariant`: unless a teardown failed, everything before a command
still to walk is acknowledged or still to walk, so commands are acknowledged in the order
of their ids; this is what the `break` of `once` is for. `DrainInvariant` relates each
drained set, the one in memory and the one on disk, to the commands: it is what the last
acknowledged word on the Stack says, or what the next word says, carried out and not
yet acknowledged (`Follows`), since the daemon may die between the save and the
acknowledgement. An acknowledgement then moves the set from the second case to the first
(`AckFollows`), and a repeated delivery changes nothing.

The argument for the gate, `GateInvariant`, follows a request past each read. From the read
of the queue on, the commands that were queued then are completed for good, so the
command at hand is a later one. From the comparison of the versions on, the pins that
were read are the versions still applied, as long as the report they were compared with was true.
Nothing is claimed of what is queued or re-pinned after the reads.

The argument for the ladders. `TryInvariant` gives each aspect its chance by the time the pass
is past it: it tried, or it waits for a Run (and the heartbeat reports that), or it is on
the version. `AskInvariant`: if a ladder asked for a restart and the daemon has not been
replaced, a restart is outstanding, and the pass has it before it unless commands were left
unseen; with `OrderInvariant`, a pass that is over has carried it out.

Both exemptions in these properties are findings of the proof attempts (section 5).
`Settles` needs fairness and is model-checked only.


`EventConsole_proofs` proves, for all scopes, budgets, caps, page sizes, filters and
bounds:

* `EvidenceIsSound`: `CacheSpec => []EvidenceInvariant`;
* `IndexIsRight`: `Spec => []IndexInvariant`;
* `FeedIsHonest`: `Spec => []FeedHonest`.

The cache. `EvidenceSound` is not inductive: it speaks of queries, and an eviction works
on rows. `CacheInv` says of every evicted row what makes every query about it safe
(`Covered`): the mark of no scope is not older than the row, or evidence of the row's
own scope or of the sentinel `Stands` for it, with bounds around it and, while samples
are complete, the row among them. `SeenIs`, `MergedIs`, `CappedIs` and `FoldedIs` say of each
operation on evidence that its result stands for what its arguments stood for; an
eviction is one of them per scope (`ScopesAre`) or the fold of all (`CollapseIs`). For
`EvidenceExact` the invariant keeps samples within their scope.

The console. A page is the newest rows before a cursor at the time it is read, and time
goes on: `PageHolds` says that a row kept, matching and before the cursor that is not on
the page is either below a full page or arrived after a first page was read, and is then
above all of it. `GotHolds` says that a walk has every matching row between its cursor
and the newest it collected, but for rows a verdict marked as perhaps evicted; this is
where `EvidenceSound` is used, since a row evicted between two pages makes the verdict of
the page it belonged on true. `MissingFrom` puts the two together, and `Filled` adds the
condition on which an advance stops: what it collected joins what was held without a
gap. The index is then the latest of every Run up to `maxRun`, and the feed an
uninterrupted stretch of its query, which the cut to `Keep` rows leaves it. The exemption
of `raced` is needed in `StageHolds` alone: the filters and the follow point of a read in
flight are still the panel's.

Writing the invariant down corrected the model: a bootstrap collects every row of its
pages, also when it starts because an advance could not close its gap, so the newest id
the index knew does not filter them.

The least and greatest of a set are `CHOOSE` expressions; that they exist (`MinOf`,
`MaxOf`) follows from the well-foundedness of inclusion on finite sets. `TopOf` says what
the k greatest of a set are, for a page and for the feed's cut.

`StackForms_proofs` proves, from `StackAssumption` alone, that is for all sets of
specifications, all desired states and all bounds:

* `TypeCorrect`: `Spec => []TypeOK`; `Invariance`: `Spec => []IInv`;
* `HostIsKept`: `Spec => []HostInvariant`;
* `RunsAreSpared`: `Spec => RunsSpared`, a step property from that invariant.

The argument. That one form runs is not inductive: the step that starts a form looks at
nothing, it trusts the steps its pass took before it. `PassKnows` says for each kind of
pass what these have established: before a child starts the image is gone and the
records, hence the project, too (`ForProcess`); before a container runs the child is
gone (`ForImage`); between the write-ahead and the confirmation the record is pending
at the desired spec, its files are there, and what the plan does not stop or
remove was not there when it looked (`ForProject`); a pass with a `stop` in
it found no Run, so a Run in flight is late. `RecordsAgree` carries this over a crash:
the record on disk is the one in memory or lags behind its confirmation, never behind
its write-ahead. The plan is data, a tuple the pass shortens: `ProcessNext`,
`ProjectNext` and their like say what is left after each step, the `Plan` lemmas what a look
makes of it.

Model-checked only: `Converges`, which needs fairness.

`ConfigDist_proofs` proves, for all sets of distributions and all bounds:

* `TypeCorrect`: `Spec => []TypeOK`;
* `PassIsInformed`: `Spec => []PassKnows`, the inductive invariant;
* `DriversStartVerified`, `RunningIsSpared`, `OldGivesWayToNew`: `Spec` implies
  `StartsVerified`, `RunningSpared` and `OldOrNew`, as step properties from that
  invariant.

The argument. The three properties speak of one step, but a step is only as safe as
what its pass did before it. `PassKnows` says, for each step of the pass, what has
been established by then: the memo of the verified hash is the verified one (unless
something was damaged since) and is gone between the stop of the drivers and the
publication of the pointer; a staged tree is whole until it is in place; the tree
that is moved aside is not the verified one; the drivers the change names are stopped
before their tree moves; a claim whose Run exists at the fetch or the stop came
too late for the look. `Follows` orders the steps: the plan is data, a sequence the
pass shortens, and the lemmas `DoneGoesOn` and `JoinedPlans` carry its order over
the shortening and the concatenation of plans.

Model-checked only: `Settles`, which needs fairness.

`PinnedBuild_proofs` proves, for all sets of sources, pins and addresses and all
bounds, from `BuildAssumption` alone (a source declares a pin or none, what a human writes
is nobody else's content, the first commit is a tree without it):

* `TypeCorrect`: `Spec => []TypeOK`; `Invariance`: `Spec => []IInv`, the inductive
  invariant;
* `RepositoryIsBracketed`, `IngestCarriesOver`, `LoadsAreWhole`: `Spec` implies
  `RepositoryInvariant`, `CarriesOver` and `LoadsWhole`;
* `NothingIsOverwritten`: `Spec => NothingOverwritten`, three step properties.

Every property the run checks of this module is thus also proved.

The argument. That the marker brackets every lag is not inductive: the step that
removes the marker relies on a sync that has been over every file, and that on how far
the sync has come. `SyncKnows` says it file by file (`Synced`: HEAD's content, or an
edit made since), and that a sync which does not repair an older one meets no
uncommitted edit but a later one. `IngestKnows` says what an ingest has read at each
step: its base is HEAD while nobody meddles, its pin and address are the base's; and
that it stands over a marker from before it moves the ref to after its sync. For the
load, the file it reads first needs a fact of its own: outside the marker it is
HEAD's (`TypesAreHeads`), no commit changes it there (`TypesStand`), so what a calm
load has read stays HEAD's (`LoadKnows`) while the second file may still be edited.
There is one lemma per action; `CommitIsOneOf` names the three ways HEAD moves, from
which the step properties follow.

`ReviewRounds_proofs` proves, for every budget of rounds and all bounds. From
`ReviewAssumption` alone, that is of any number of Reviewers and of a human who moves
the PR whenever it likes:

* `TypeCorrect`: `Spec => []TypeOK`; `AnyInvariance`: `Spec => []AnyInv`;
* `DriftIsRuledOnce`, `CutsStrand`: `Spec` implies `[]DriftInvariant` and
  `[]OnlyCutsStrand`.

Under `Solitary`, one Reviewer and `Patient`:

* `ApartInvariance`: `Spec => [](AnyInv /\ Apart)`;
* `EarnedLabels`, `TurnsAreBounded`: `Spec` implies `[]LabelsAreEarned` and
  `[]BoundedTurns`.

`Solitary` is needed and not a convenience: with two Reviewers `GoAheadIsApproved` is
false (section 5).

The argument. `RoundForm` says what may be left of the writes of a verdict, one
tuple after the other (`Rest`), and `NextWrite` what each write tells of the verdict it
belongs to and of what is still pending. `AnyInv` then has three parts. `LaneKnows`
orders the janitor's ledger: the hold landed only over a recorded comment, the record
only over a comment that is there, and what a pass has left behind is recorded
whole, so `DriftRead` never starts it again. `HandedOn` names who has a PR that is
not `pr_ready`: the human, a pool, a Run whose claim is still on the issue (so that the
janitor, who leaves a stripped claim alone, drops none), or a verdict that is past its
`unready`; cutting that one is what sets `cut`. `Explained` needs `CommentsFirst`. `Apart` says
that the three pools are apart, and what a live round knows (`RoundKnows`): its head,
its number, which of its writes the PR shows already; the attempt label is written
before the requeue, hence `reworks <= pr.attempts < RoundBudget` survives every cut.

Model-checked only: `ReachesHuman`, which needs fairness.

What stays model-checked only: the liveness properties (`EvidencePublished`,
`ClaimsSettle`, `Settles` and those named above), which need fairness and `ENABLED`, and
the step properties of the modules above that no theorem names.

## 5. Disagreements between the code and what it says

They are stated in a module and false when added to the configuration of
its run, or lie outside an assumption of a run. They are kept here so that a reader of
the code knows of them; no run of the project is one of them.

* `ActivatedNeverUnwound`: a comment in `control/janitor.py:372-374` says that deleting the
  grant row first decides the race, "so an activated claim is never unwound". After a
  grant that failed at its first write, the janitor deletes the row of an issue that
  is still in the pool; dispatch grants it again before the unwinding's own writes,
  which then strip an activated claim. `claim_core` refutes it as an INVARIANT (1 issue,
  2 drivers, `MaxFault = 1` and no other fault are enough); `CleanUnwind` is what
  holds until GitHub fails.
* Control dies between the deletion of a row and the requeue
  (`control/janitor.py:375`): the claim has neither row nor event. `CrashInUnwind = TRUE` in
  `claim_core` shows it, against "a half-written claim is never orphaned"
  (`control/dispatch.py:308-311`).
* A driver cut off from Control alone works on; the janitor takes the bundle of its
  failed Run for the forensics of a dead driver and strips the live claim
  (`EscalatesOnlyDeadClaims` with a link that may break).
* An issue the janitor escalated stays live in the events cache, whose latest Run event
  is not terminal, so the requeue its comment asks for (`control/janitor.py:109`) is
  skipped by every pass (`control/dispatch.py:281`).
* A driver that dies alone is never a zombie while its node heartbeats
  (`control/janitor.py:150`), against "Runs lost to a dead Implementer escalate"
  (`docs/specs/AGENTIC-CODING-PIPELINE.md:48`).

* An issue granted on the default branch is chained at checkout when a relation to an
  approved blocker was added meanwhile, in a repository whose merge settings forbid
  chaining: the docstring at `worker/runner.py:712-713` relies on a check this grant
  did not make. `deps_drains` with an edit refutes `UnchainedWaits`.

* `DrainHolds`: the comment at `nodedaemon/daemon.py:405-407` says a deferred command
  holds up the queue, "or a later drain could land before the recycle it was issued
  after and be undone by it". A recycle whose teardown raises is not acknowledged and
  holds up nothing: the drain behind it is carried out, and the recycle, delivered
  again, undoes it.
* `EscalatesAfterRestart` exempts a node whose last pass left commands unseen (`cut`),
  because without the exemption it is false. The escalation's text says that the node
  "still reports" the old version "after a restart" (`control/app.py:340`;
  `deploy/README.md:318-319` says "still off-pin after that"). What is latched is that a restart
  was queued (`control/store.py:708`). If a Run is in flight at each look of the queue
  (`daemon.py:642`) and over at each look of `_converge_product`, whose install fails, the
  restart is deferred in every pass, the deferral is not reported, the ladder counts
  on, and the error is raised over a restart that was never carried out. It takes two Runs
  and four failures.
* `GateProtectsRuns` exempts Runs let through on an outdated report (`stale`), because
  without the exemption it is false. The dispatch gate compares the pin with the version of
  the last heartbeat. A node that converges to a new version is taken for converged on the old
  one if the pin is taken back before its next heartbeat: it is granted work, and its next
  pass converges back and kills the Run it has just been given. It takes two re-pins.
* `NoNewWork` (in `NodeCommands`): `control/store.py:1815-1817` says of the dispatch gate that "a
  node about to be drained, recycled, or updated gets no new work". TLC refutes it with
  one command: the queue is read at `control/dispatch.py:222`, the grant row is written at `:312`,
  after the listing, the dependency walk and any rate-limit sleep, and `queue_command` takes no
  lock of the dispatcher. A drain, a recycle, an update or a restart queued in between
  does not keep the node from new work, and as the Run has no job directory yet
  (`daemon.py:758-776`) the command does not wait for it: it kills the driver that was
  just granted the issue. `GateProtectsRuns` therefore measures from the moment the gate
  was read, which is what the code does protect; the pins are read earlier still
  (`app.py:412-415`).

* `FeedAlwaysHonest`: "A changed conjunction is a NEW query: the feed, its follow
  point, its eviction verdict ... all reset" (`control/tui/app.py:691-694`). A refresh
  that was in flight when the filter was submitted stores the rows of the old query in
  the new one's feed.

* `OrphansReaped`: "orphaned run containers (label present, owner gone) are reaped at
  daemon/driver startup" (`docs/adr/ADR-0013-node-resident-drivers-per-run-containers.md:19`).
  The owner is looked up by its Stack's name, and the pass has restarted the
  dead driver before it reaps, so the dead driver's run container stays.
* `RunsSpared` without `late`: a restart for a changed specification "must never interrupt
  an in-flight Run" (`nodedaemon/daemon.py:2505-2507`). The job directories are read before
  the secrets are pulled, and the child is stopped after it; a Run that began
  in between is killed.
* `SwapSparesRuns`: "no active Run is killed here" (`nodedaemon/daemon.py:1312-1314`).
  `_converge_drivers` looks for Runs before the artifact is fetched; the
  directory of a Run of an earlier claim may appear during the fetch, and the Run is
  then killed.

* A machine's write over a marker reverts an ingest. An ingest that dies after
  `update-ref` leaves HEAD at the new commit and the index at the old one; a pin or
  address write that comes before the next ingest runs `git commit` on that index
  (`control/product.py:153`, `control/controltoml.py:305`), and its commit restores
  every authored file of the commit before. Nothing tells the operator, and the
  repair then syncs to the reverted tree. `MachineMinds` without `~marker` is false in
  `pinned_build`; "a concurrent attempt fails cleanly instead of overwriting or
  orphaning the other writer's commit" (`control/repolock.py`) holds for live
  writers only.
* A hand edit made over a marker is lost: "the marker proves the dirt (if any) is ours"
  (`control/ingest.py:266`) does not hold for an edit made since. `EditsSpared` without
  its last alternative is false in `pinned_build`.
* A load during the sync mixes two ingests (`LoadsWhole` without `load.calm`): the server
  takes no lock (`control/configrepo.py:1757`), while `control/ingest.py:247-249` wants
  nothing but committed HEAD loadable. The next request reads again, so it passes. That is the
  window of the hazard; `LoadsWhole` says that the marker brackets it.

* `RestartPicksUp`: "restart picks up cleanly (all state on GitHub)"
  (`docs/adr/ADR-0014`). An escalation cut between its two label writes
  (`worker/reviewer.py:985-986`) leaves a PR without `pr_ready` and without a hold,
  which no pass of any actor takes up; so does a revise cut before the requeue.
* `ReachesHuman` without `Unswept` or without `Shadowed`: a Run that dies alone on a node
  that heartbeats is never escalated; a Run whose last event is lost keeps its claim live,
  and the issue that a revise or a human sends back afterwards is skipped by every
  pass. `review_rounds` shows both, against "Runs lost to a dead Implementer escalate"
  (`docs/specs/AGENTIC-CODING-PIPELINE.md:48`).
* With `Reviewer = {r1, r2}`, `GoAheadIsApproved` is false: one sends round 1
  back, the other, whose session began before, approves; the Run then ships a head
  nobody approved onto a PR that still carries the approval. ADR-0052 section 7 accepts that
  two Reviewers may review a PR twice, ADR-0053 that the label state is "produced only
  by approve".

## 6. Plan

Done: `ClaimProtocol`, `Dependencies`, `ConfigDist`, `PinnedBuild`, `ReviewRounds`,
`StackForms`, `EventCache` and `EventConsole` with their proofs,
`NodeCommands` with its proofs, and `ClaimOwner` with the proof that `ClaimProtocol`
implements it.

What is left, in the order of what matters most:

1. The composition of `NodeCommands`, `ConfigDist` and `StackForms`: they are three
   views of one pass of the daemon, and each takes the others' steps as one.
2. The parking ladder and input snapshots of `worker/sweep.py`; the completion retry
   that carries a worktree over.
3. The join-token table; the cache of the distribution artifact between `PinnedBuild`
   and `ConfigDist`.

Not modelled, and why. Parsing, validation and compilation (in `configrepo.py`,
`ingest.py`, `controltoml.py`, `proposal.py`), rendering (`contexttree.py`, `decisions.py`,
the console's widgets, the web pages) and the knowledge compiler are sequential and
stateless: tests reach them with examples, and a model would restate them. Installers
(`cliinstall.py`, `provisioning.py`), containers, sessions, identity probes
and agents are I/O on things this repository does not contain: the modules keep their
outcomes, success or any failure. Cryptography and join strings are out of TLC's reach.
