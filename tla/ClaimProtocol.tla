--------------------------- MODULE ClaimProtocol ---------------------------
(***************************************************************************)
(* The Claim Protocol of TheOzolith (ADR-0016, ADR-0017), for one          *)
(* repository: the Control Node's dispatcher grants a plan_ready issue to  *)
(* an Implementer driver by writing the claim to GitHub itself; the driver *)
(* activates the grant with a `claimed` event, executes the claim (one     *)
(* local retry, at most one completion retry) and ships a PR or escalates; *)
(* the janitor unwinds grants that never activate and escalates claims     *)
(* whose driver died.                                                      *)
(*                                                                         *)
(* The three threads of the Control Node interleave freely: the dispatch   *)
(* handlers (serialised by one lock), the event handler, and the janitor.  *)
(* Every GitHub write is a step of its own and may raise, with or without  *)
(* having been applied.                                                    *)
(***************************************************************************)
EXTENDS Naturals, FiniteSets

CONSTANTS
  Issue,          \* issues of the bound repository
  Worker,         \* Implementer drivers, each on its own node with its own login
  None,           \* no worker, no issue
  MaxRun,         \* bound: Runs started in a behaviour
  MaxCrash,       \* bound: driver and node deaths
  MaxControlCrash,\* bound: deaths of the Control Node process
  MaxFault,       \* bound: GitHub calls and evidence pushes that raise
  MaxLost,        \* bound: event posts and answers lost on a link that is up
  MaxCut,         \* bound: losses of the link to the Control Node
  Timely,         \* the activation window (60 s) exceeds the driver's dispatch timeout
                  \* (15 s) plus its handshake (3 posts of 3 s)
  PromptPass,     \* a dispatch pass, GitHub retries included, ends within the window
  CrashInUnwind   \* the Control Node may die inside release_never_activated

ASSUME ConstantsAssumption ==
  /\ MaxRun \in Nat /\ MaxCrash \in Nat /\ MaxControlCrash \in Nat
  /\ MaxFault \in Nat /\ MaxLost \in Nat /\ MaxCut \in Nat
  /\ Timely \in BOOLEAN /\ PromptPass \in BOOLEAN /\ CrashInUnwind \in BOOLEAN
  /\ None \notin Worker /\ None \notin Issue

VARIABLES
  labels,     \* GitHub: the state labels of each issue
  assignees,  \* GitHub: the logins assigned to each issue
  pr,         \* GitHub: the open PR of each issue: none, open, or pr_ready
  evidence,   \* GitHub: the Runs whose bundle is on the evidence branch
  grants,     \* Control: the grants table, the worker of each issue's row
  expired,    \* Control: issues whose grant row is older than the window
  latest,     \* Control: the latest run event of each issue
  acted,      \* Control: the janitor's ledger, <<issue, run>> pairs
  flagged,    \* Control: zombie flags, <<issue, run>> pairs
  health,     \* Control: consecutive failures of a node; 2 is the quarantine latch
  dsp,        \* the grant pass that holds the dispatch lock
  jan,        \* the janitor thread
  wk,         \* the drivers
  parked,     \* each driver's job directories awaiting the evidence sweep
  link,       \* the node and its driver reach the Control Node
  silent,     \* the node and its driver have been silent past the grace period
  nextRun,    \* the next run id
  left        \* what is left of each fault budget

github  == <<labels, assignees, pr, evidence>>
control == <<grants, expired, latest, acted, flagged, health>>
vars == <<labels, assignees, pr, evidence, grants, expired, latest, acted, flagged,
          health, dsp, jan, wk, parked, link, silent, nextRun, left>>

----------------------------------------------------------------------------
(* Types.                                                                  *)

Label == {"plan_ready", "in_progress", "failed", "needs_human"}
Run   == 1 .. MaxRun
Phase == {"none", "claimed", "failed", "pr-open", "escalated"}
ClaimedPhasesOnly == {"claimed"}         \* mutant: a failed Run ends its claim
LiveRunPhases == {"claimed", "failed"}   \* "gate" is as live as "claimed"; it is not told apart

QuarantineAfterFailures == 2
ClaimRunBudget == 2
ActivationAttempts == 3

DspPcs == {"free", "reading", "picked", "recorded", "assigned", "labelled", "granted"}
SweepPcs  == {"verify", "evidence", "escalate", "strip", "unlabel", "ledger"}
UnwindPcs == {"unassign", "unclaim", "requeue", "rerecord"}
JanPcs == {"idle", "expired"} \cup SweepPcs \cup UnwindPcs
WkPcs == {"idle", "asking", "claiming", "relaunching", "running", "shipping", "shipped",
          "closing", "broken", "failing", "escalating", "unassigning", "unlabelling",
          "announcing", "down"}

Event == [run : Run \cup {0}, worker : Worker \cup {None}, phase : Phase]
NoEvent == [run |-> 0, worker |-> None, phase |-> "none"]
DspState == [pc : DspPcs, worker : Worker \cup {None}, issue : Issue \cup {None},
             open : SUBSET Issue, waiting : BOOLEAN]
JanState == [pc : JanPcs, issue : Issue \cup {None}, worker : Worker \cup {None},
             run : Run \cup {0}, logins : SUBSET Worker, live : BOOLEAN]
WkState == [pc : WkPcs, issue : Issue \cup {None}, run : Run \cup {0},
            tries : 0 .. ActivationAttempts, full : 0 .. ClaimRunBudget,
            completion : BOOLEAN, class : {"infra", "completion"}]
Budget == {"crash", "control", "fault", "lost", "cut"}

TypeOK ==
  /\ labels \in [Issue -> SUBSET Label]
  /\ assignees \in [Issue -> SUBSET Worker]
  /\ pr \in [Issue -> {"none", "open", "pr_ready"}]
  /\ evidence \subseteq Run \cup {0}
  /\ grants \in [Issue -> Worker \cup {None}]
  /\ expired \subseteq Issue
  /\ latest \in [Issue -> Event]
  /\ acted \subseteq Issue \X (Run \cup {0})
  /\ flagged \subseteq Issue \X (Run \cup {0})
  /\ health \in [Worker -> 0 .. QuarantineAfterFailures]
  /\ dsp \in DspState /\ (dsp.pc # "free" => dsp.worker # None)
  /\ jan \in JanState /\ (jan.pc # "idle" => jan.issue # None)
  /\ wk \in [Worker -> WkState]
  /\ parked \in [Worker -> SUBSET (Run \cup {0})]
  /\ link \in [Worker -> BOOLEAN]
  /\ silent \in [Worker -> BOOLEAN]
  /\ nextRun \in 1 .. MaxRun + 1
  /\ left \in [Budget -> Nat]

----------------------------------------------------------------------------
(* The stores the components share.                                        *)

Spend(budget) == left[budget] > 0 /\ left' = [left EXCEPT ![budget] = @ - 1]

(* A GitHub call returns, or raises GitHubError after it was applied or    *)
(* without having been applied.                                            *)
GitHubCall(applied, skipped, returned, raised) ==
  \/ applied /\ returned /\ UNCHANGED left
  \/ (applied \/ skipped) /\ raised /\ Spend("fault")

(* The claim is live while the latest run event of the issue is not        *)
(* terminal.                                                               *)
Live(i) == latest[i].phase \in LiveRunPhases

(* record_event: a claimed event retires the grant row, a failed one       *)
(* counts towards the quarantine of the node, a pr-open one resets the     *)
(* count but never the latch.                                              *)
RecordEvent(i, event) ==
  LET w == event.worker IN
  /\ latest' = [latest EXCEPT ![i] = event]
  /\ grants' = IF event.phase = "claimed" THEN [grants EXCEPT ![i] = None] ELSE grants
  /\ expired' = IF event.phase = "claimed" THEN expired \ {i} ELSE expired
  /\ health' = IF health[w] = QuarantineAfterFailures \/ event.phase \notin {"failed", "pr-open"}
               THEN health
               ELSE [health EXCEPT ![w] = IF event.phase = "failed" THEN @ + 1 ELSE 0]
  /\ UNCHANGED <<acted, flagged>>

(* One POST of a run event: `landed` says whether Control recorded it,     *)
(* `acked` whether the driver knows. Each event is sent once.              *)
Emit(w, i, r, phase, landed, acked) ==
  /\ acked => landed
  /\ landed => link[w]
  /\ IF landed THEN RecordEvent(i, [run |-> r, worker |-> w, phase |-> phase])
               ELSE UNCHANGED control
  /\ IF link[w] /\ ~acked THEN Spend("lost") ELSE UNCHANGED left

RecordGrant(i, w) ==
  /\ grants' = [grants EXCEPT ![i] = w]
  /\ expired' = expired \ {i}

ReleaseGrant(i) ==
  /\ grants' = [grants EXCEPT ![i] = None]
  /\ expired' = expired \ {i}

----------------------------------------------------------------------------
(* Dispatch: grant_work and _granting_pass, under the dispatch lock.       *)

IdleWk == [pc |-> "idle", issue |-> None, run |-> 0, tries |-> 0, full |-> 0,
           completion |-> FALSE, class |-> "infra"]
DownWk == [IdleWk EXCEPT !.pc = "down"]
ClaimingWk(i, r) == [pc |-> "claiming", issue |-> i, run |-> r, tries |-> ActivationAttempts,
                     full |-> 0, completion |-> FALSE, class |-> "infra"]
FreeDsp == [pc |-> "free", worker |-> None, issue |-> None, open |-> {}, waiting |-> FALSE]
IdleJan == [pc |-> "idle", issue |-> None, worker |-> None, run |-> 0, logins |-> {},
            live |-> FALSE]

DspGoto(pc) == dsp' = [dsp EXCEPT !.pc = pc] /\ UNCHANGED wk

(* The pass ends without a grant: the driver, if it still waits, gets none.*)
DspAnswerNone ==
  /\ dsp' = FreeDsp
  /\ wk' = IF dsp.waiting THEN [wk EXCEPT ![dsp.worker] = IdleWk] ELSE wk

(* The bound on Runs leaves room for every Run a claim may take.           *)
RoomForClaim == nextRun + ClaimRunBudget <= MaxRun

AskWork(w) ==
  /\ wk[w].pc = "idle" /\ link[w] /\ RoomForClaim
  /\ wk' = [wk EXCEPT ![w].pc = "asking"]
  /\ UNCHANGED <<github, control, dsp, jan, parked, link, silent, nextRun, left>>

(* The driver's request times out or its answer is lost; the pass goes on. *)
AskTimesOut(w) ==
  /\ wk[w].pc = "asking"
  /\ wk' = [wk EXCEPT ![w] = IdleWk]
  /\ dsp' = IF dsp.worker = w THEN [dsp EXCEPT !.waiting = FALSE] ELSE dsp
  /\ IF link[w] THEN Spend("lost") ELSE UNCHANGED left
  /\ UNCHANGED <<github, control, jan, parked, link, silent, nextRun>>

(* Mutant: the pass checks the grant rows but not the live claims.         *)
DispatchReadGrantsOnly(w) ==
  /\ dsp.pc = "free" /\ wk[w].pc = "asking" /\ health[w] < QuarantineAfterFailures
  /\ dsp' = [pc |-> "reading", worker |-> w, issue |-> None, waiting |-> TRUE,
             open |-> {i \in Issue : grants[i] = None}]
  /\ UNCHANGED <<github, control, jan, wk, parked, link, silent, nextRun, left>>

(* The pass reads the cache first: the issues neither granted nor live.    *)
DispatchRead(w) ==
  /\ dsp.pc = "free" /\ wk[w].pc = "asking" /\ health[w] < QuarantineAfterFailures
  /\ dsp' = [pc |-> "reading", worker |-> w, issue |-> None, waiting |-> TRUE,
             open |-> {i \in Issue : grants[i] = None /\ ~Live(i)}]
  /\ UNCHANGED <<github, control, jan, wk, parked, link, silent, nextRun, left>>

(* A quarantined node gets no work.                                        *)
DispatchRefuse(w) ==
  /\ dsp.pc = "free" /\ wk[w].pc = "asking" /\ health[w] = QuarantineAfterFailures
  /\ wk' = [wk EXCEPT ![w] = IdleWk]
  /\ UNCHANGED <<github, control, dsp, jan, parked, link, silent, nextRun, left>>

(* Mutant: the failed label does not keep an issue out of dispatch.        *)
GrantableIfFailed(i) ==
  /\ i \in dsp.open /\ "plan_ready" \in labels[i]
  /\ assignees[i] = {} /\ "in_progress" \notin labels[i]

(* Then it lists the plan_ready pool, and skips what is failed or spoken   *)
(* for on GitHub.                                                          *)
Grantable(i) ==
  /\ i \in dsp.open
  /\ "plan_ready" \in labels[i] /\ "failed" \notin labels[i]
  /\ assignees[i] = {} /\ "in_progress" \notin labels[i]

DispatchPick(i) ==
  /\ dsp.pc = "reading" /\ Grantable(i)
  /\ dsp' = [dsp EXCEPT !.pc = "picked", !.issue = i, !.open = {i}]
  /\ UNCHANGED <<github, control, jan, wk, parked, link, silent, nextRun, left>>

DispatchNone ==
  /\ dsp.pc = "reading"
  /\ \/ (\A i \in Issue : ~Grantable(i)) /\ UNCHANGED left
     \/ Spend("fault")
  /\ DspAnswerNone
  /\ UNCHANGED <<github, control, jan, parked, link, silent, nextRun>>

(* The grant row lands before the first GitHub write.                      *)
DispatchRecord ==
  /\ dsp.pc = "picked"
  /\ RecordGrant(dsp.issue, dsp.worker)
  /\ DspGoto("recorded")
  /\ UNCHANGED <<github, latest, acted, flagged, health, jan, parked, link, silent,
                 nextRun, left>>

(* Mutant: the in_progress label is forgotten.                             *)
DispatchAssignOnly ==
  /\ dsp.pc = "recorded"
  /\ GitHubCall(assignees' = [assignees EXCEPT ![dsp.issue] = @ \cup {dsp.worker}],
                UNCHANGED assignees, DspGoto("labelled"), DspAnswerNone)
  /\ UNCHANGED <<labels, pr, evidence, control, jan, parked, link, silent, nextRun>>

DispatchAssign ==
  /\ dsp.pc = "recorded"
  /\ GitHubCall(assignees' = [assignees EXCEPT ![dsp.issue] = @ \cup {dsp.worker}],
                UNCHANGED assignees, DspGoto("assigned"), DspAnswerNone)
  /\ UNCHANGED <<labels, pr, evidence, control, jan, parked, link, silent, nextRun>>

DispatchClaim ==
  /\ dsp.pc = "assigned"
  /\ GitHubCall(labels' = [labels EXCEPT ![dsp.issue] = @ \cup {"in_progress"}],
                UNCHANGED labels, DspGoto("labelled"), DspAnswerNone)
  /\ UNCHANGED <<assignees, pr, evidence, control, jan, parked, link, silent, nextRun>>

DispatchUnlabel ==
  /\ dsp.pc = "labelled"
  /\ GitHubCall(labels' = [labels EXCEPT ![dsp.issue] = @ \ {"plan_ready"}],
                UNCHANGED labels, DspGoto("granted"), DspAnswerNone)
  /\ UNCHANGED <<assignees, pr, evidence, control, jan, parked, link, silent, nextRun>>

(* The answer reaches a driver that still waits, which starts execute_claim*)
(* on it (past the bound on Runs it is lost).                              *)
DispatchReply ==
  /\ dsp.pc = "granted" /\ dsp' = FreeDsp
  /\ IF dsp.waiting /\ RoomForClaim
     THEN /\ wk' = [wk EXCEPT ![dsp.worker] =
                      ClaimingWk(dsp.issue, nextRun)]
          /\ nextRun' = nextRun + 1
     ELSE /\ wk' = IF dsp.waiting THEN [wk EXCEPT ![dsp.worker] = IdleWk] ELSE wk
          /\ UNCHANGED nextRun
  /\ UNCHANGED <<github, control, jan, parked, link, silent, left>>

----------------------------------------------------------------------------
(* The driver: execute_claim.                                              *)

Goto(w, pc) == wk' = [wk EXCEPT ![w].pc = pc]
GoIdle(w) == wk' = [wk EXCEPT ![w] = IdleWk]

(* The activation handshake: the first claimed event must be acknowledged  *)
(* within ActivationAttempts posts, or the driver abandons the grant.      *)
EmitClaimed(w) ==
  /\ wk[w].pc = "claiming"
  /\ \E landed, acked \in BOOLEAN :
       /\ Emit(w, wk[w].issue, wk[w].run, "claimed", landed, acked)
       /\ IF acked THEN wk' = [wk EXCEPT ![w].pc = "running", ![w].tries = 0, ![w].full = 1]
          ELSE IF wk[w].tries > 1 THEN wk' = [wk EXCEPT ![w].tries = @ - 1]
          ELSE GoIdle(w)
  /\ UNCHANGED <<github, dsp, jan, parked, link, silent, nextRun>>

(* The claimed event of a retry is visibility, never a gate.               *)
EmitRelaunched(w) ==
  /\ wk[w].pc = "relaunching"
  /\ \E landed, acked \in BOOLEAN :
       Emit(w, wk[w].issue, wk[w].run, "claimed", landed, acked)
  /\ Goto(w, "running")
  /\ UNCHANGED <<github, dsp, jan, parked, link, silent, nextRun>>

(* An agent session outlasts the janitor's look at a row.                  *)
SessionEnds(w) ==
  /\ wk[w].pc = "running"
  /\ Timely => ~(jan.pc = "expired" /\ jan.issue = wk[w].issue)

(* The Run breaks: the session, the gate, the checkout, or the proposal.   *)
RunFails(w) ==
  /\ SessionEnds(w)
  /\ \E class \in {"infra", "completion"} :
       wk' = [wk EXCEPT ![w].pc = "broken", ![w].class = class]
  /\ UNCHANGED <<github, control, dsp, jan, parked, link, silent, nextRun, left>>

(* A GitHub error while shipping is driver-side breakage of the Run.       *)
Breaks(w) == wk' = [wk EXCEPT ![w].pc = "broken", ![w].class = "infra"]

(* The branch is pushed and the PR created, or the existing one updated.   *)
OpenPr(w) ==
  LET i == wk[w].issue IN
  /\ SessionEnds(w)
  /\ GitHubCall(pr' = [pr EXCEPT ![i] = IF @ = "none" THEN "open" ELSE @],
                UNCHANGED pr, Goto(w, "shipping"), Breaks(w))
  /\ UNCHANGED <<labels, assignees, evidence, control, dsp, jan, parked, link, silent,
                 nextRun>>

LabelPr(w) ==
  /\ wk[w].pc = "shipping"
  /\ GitHubCall(pr' = [pr EXCEPT ![wk[w].issue] = "pr_ready"],
                UNCHANGED pr, Goto(w, "shipped"), Breaks(w))
  /\ UNCHANGED <<labels, assignees, evidence, control, dsp, jan, parked, link, silent,
                 nextRun>>

EmitPrOpen(w) ==
  /\ wk[w].pc = "shipped"
  /\ \E landed, acked \in BOOLEAN :
       Emit(w, wk[w].issue, wk[w].run, "pr-open", landed, acked)
  /\ Goto(w, "closing")
  /\ UNCHANGED <<github, dsp, jan, parked, link, silent, nextRun>>

(* The bundle is pushed, or the job directory is kept for the sweep.       *)
PushBundle(w) ==
  \/ evidence' = evidence \cup {wk[w].run} /\ UNCHANGED <<parked, left>>
  \/ /\ Spend("fault")
     /\ parked' = [parked EXCEPT ![w] = @ \cup {wk[w].run}]
     /\ UNCHANGED evidence

PushRunEvidence(w) ==
  /\ PushBundle(w)
  /\ \/ wk[w].pc = "closing" /\ GoIdle(w)
     \/ wk[w].pc = "broken" /\ Goto(w, "failing")
  /\ UNCHANGED <<labels, assignees, pr, control, dsp, jan, link, silent, nextRun>>

(* Mutants: the local retry budget is off by one; it is never spent.       *)
NextAttemptOneMore(w) ==
  LET retry(completion) ==
        /\ nextRun <= MaxRun /\ nextRun' = nextRun + 1
        /\ wk' = [wk EXCEPT ![w].pc = "relaunching", ![w].run = nextRun,
                            ![w].completion = completion,
                            ![w].full = IF completion THEN @ ELSE @ + 1]
      escalate == Goto(w, "escalating") /\ UNCHANGED nextRun
  IN IF wk[w].completion THEN escalate
     ELSE IF wk[w].class = "completion" THEN retry(TRUE)
     ELSE IF wk[w].full > ClaimRunBudget THEN escalate
     ELSE retry(FALSE)
NextAttemptForever(w) == Goto(w, "relaunching") /\ UNCHANGED nextRun

(* After a failed Run: a completion miss whose worktree was preserved earns*)
(* one completion retry, whose own failure is terminal; any other failure  *)
(* (class infra) the one local retry.                                      *)
NextAttempt(w) ==
  LET retry(completion) ==
        /\ nextRun <= MaxRun /\ nextRun' = nextRun + 1
        /\ wk' = [wk EXCEPT ![w].pc = "relaunching", ![w].run = nextRun,
                            ![w].completion = completion,
                            ![w].full = IF completion THEN @ ELSE @ + 1]
      escalate == Goto(w, "escalating") /\ UNCHANGED nextRun
  IN IF wk[w].completion THEN escalate
     ELSE IF wk[w].class = "completion" THEN retry(TRUE)
     ELSE IF wk[w].full >= ClaimRunBudget THEN escalate
     ELSE retry(FALSE)

EmitFailed(w) ==
  /\ wk[w].pc = "failing"
  /\ \E landed, acked \in BOOLEAN :
       Emit(w, wk[w].issue, wk[w].run, "failed", landed, acked)
  /\ NextAttempt(w)
  /\ UNCHANGED <<github, dsp, jan, parked, link, silent>>

(* _escalate_claim: the labels and forensics land before the claim is      *)
(* stripped; an error escapes execute_claim and the driver moves on.       *)
EscalateLabel(w) ==
  /\ wk[w].pc = "escalating"
  /\ GitHubCall(labels' = [labels EXCEPT ![wk[w].issue] = @ \cup {"failed", "needs_human"}],
                UNCHANGED labels, Goto(w, "unassigning"), GoIdle(w))
  /\ UNCHANGED <<assignees, pr, evidence, control, dsp, jan, parked, link, silent, nextRun>>

EscalateUnassign(w) ==
  /\ wk[w].pc = "unassigning"
  /\ GitHubCall(assignees' = [assignees EXCEPT ![wk[w].issue] = @ \ {w}],
                UNCHANGED assignees, Goto(w, "unlabelling"), GoIdle(w))
  /\ UNCHANGED <<labels, pr, evidence, control, dsp, jan, parked, link, silent, nextRun>>

EscalateUnclaim(w) ==
  /\ wk[w].pc = "unlabelling"
  /\ GitHubCall(labels' = [labels EXCEPT ![wk[w].issue] = @ \ {"in_progress"}],
                UNCHANGED labels, Goto(w, "announcing"), GoIdle(w))
  /\ UNCHANGED <<assignees, pr, evidence, control, dsp, jan, parked, link, silent, nextRun>>

EmitEscalated(w) ==
  /\ wk[w].pc = "announcing"
  /\ \E landed, acked \in BOOLEAN :
       Emit(w, wk[w].issue, wk[w].run, "escalated", landed, acked)
  /\ GoIdle(w)
  /\ UNCHANGED <<github, dsp, jan, parked, link, silent, nextRun>>

(* Mutant: the sweep deletes job directories it did not publish.           *)
SweepOrphansUnpublished(w) ==
  /\ parked' = [parked EXCEPT ![w] = {}]
  /\ UNCHANGED <<evidence, left>>

(* sweep_orphans pushes every kept bundle, or keeps it for the next sweep. *)
SweepOrphans(w) ==
  \/ /\ evidence' = evidence \cup parked[w]
     /\ parked' = [parked EXCEPT ![w] = {}]
     /\ UNCHANGED left
  \/ Spend("fault") /\ UNCHANGED <<evidence, parked>>

IdleSweep(w) ==
  /\ wk[w].pc = "idle" /\ parked[w] # {}
  /\ SweepOrphans(w)
  /\ UNCHANGED <<labels, assignees, pr, control, dsp, jan, wk, link, silent, nextRun>>

Boot(w) ==
  /\ wk[w].pc = "down" /\ SweepOrphans(w) /\ GoIdle(w)
  /\ UNCHANGED <<labels, assignees, pr, control, dsp, jan, link, silent, nextRun>>

HoldsJobDir(w) == wk[w].pc \in {"running", "shipping", "shipped", "closing", "broken"}

(* The driver dies, alone or with its node, which then falls silent; the   *)
(* job directory of an unpublished Run stays on disk.                      *)
DriverDies(w) ==
  /\ wk[w].pc # "down" /\ Spend("crash")
  /\ parked' = IF HoldsJobDir(w) THEN [parked EXCEPT ![w] = @ \cup {wk[w].run}] ELSE parked
  /\ wk' = [wk EXCEPT ![w] = DownWk]
  /\ dsp' = IF dsp.worker = w THEN [dsp EXCEPT !.waiting = FALSE] ELSE dsp
  /\ link' \in {link, [link EXCEPT ![w] = FALSE]}
  /\ UNCHANGED <<github, control, jan, silent, nextRun>>

----------------------------------------------------------------------------
(* The janitor, sweep lane: _sweep_one on each live claim.                 *)

JanGoto(pc) == jan' = [jan EXCEPT !.pc = pc]
JanDone == jan' = IdleJan
Unflag(i, r) == flagged' = flagged \ {<<i, r>>}
Acted(i, r) == acted' = acted \cup {<<i, r>>}
LiveRun(i) == latest[i].run
Orphaned(i) == Live(i) /\ <<i, LiveRun(i)>> \notin acted
SilentAlways(i) == TRUE      \* mutant: the heartbeat is not a sign of life
Silent(i) == silent[latest[i].worker]

(* The worker resurfaced, or never left.                                   *)
SweepClear(i) ==
  /\ jan.pc = "idle" /\ Orphaned(i) /\ ~Silent(i)
  /\ <<i, LiveRun(i)>> \in flagged
  /\ Unflag(i, LiveRun(i))
  /\ UNCHANGED <<github, grants, expired, latest, acted, health, dsp, jan, wk, parked, link,
                 silent, nextRun, left>>

SweepFlag(i) ==
  /\ jan.pc = "idle" /\ Orphaned(i) /\ Silent(i)
  /\ flagged' = flagged \cup {<<i, LiveRun(i)>>}
  /\ jan' = [IdleJan EXCEPT !.pc = "verify", !.issue = i, !.run = LiveRun(i),
                            !.worker = latest[i].worker]
  /\ UNCHANGED <<github, grants, expired, latest, acted, health, dsp, wk, parked, link,
                 silent, nextRun, left>>

(* The issue and its PR are re-read on GitHub: a claim already released, or*)
(* one under a pr_ready PR, only enters the ledger. A failed read ends the *)
(* sweep of this claim.                                                    *)
Unclaimed(i) == "in_progress" \notin labels[i] /\ assignees[i] = {}

SweepVerify ==
  LET i == jan.issue
      settled == Unclaimed(i) \/ pr[i] = "pr_ready" IN
  /\ jan.pc = "verify"
  /\ \/ /\ settled /\ Acted(i, jan.run) /\ Unflag(i, jan.run) /\ JanDone
        /\ UNCHANGED left
     \/ /\ ~settled
        /\ jan' = [jan EXCEPT !.pc = "evidence", !.logins = assignees[i]]
        /\ UNCHANGED <<acted, flagged, left>>
     \/ Spend("fault") /\ JanDone /\ UNCHANGED <<acted, flagged>>
  /\ UNCHANGED <<github, grants, expired, latest, health, dsp, wk, parked, link, silent,
                 nextRun>>

(* Evidence first: without a bundle the claim stays flagged.               *)
SweepEvidence ==
  /\ jan.pc = "evidence"
  /\ \/ jan.run \in evidence /\ JanGoto("escalate") /\ UNCHANGED left
     \/ jan.run \notin evidence /\ JanDone /\ UNCHANGED left
     \/ Spend("fault") /\ JanDone
  /\ UNCHANGED <<github, control, dsp, wk, parked, link, silent, nextRun>>

SweepLabel ==
  /\ jan.pc = "escalate"
  /\ GitHubCall(labels' = [labels EXCEPT ![jan.issue] = @ \cup {"failed", "needs_human"}],
                UNCHANGED labels, JanGoto("strip"), JanDone)
  /\ UNCHANGED <<assignees, pr, evidence, control, dsp, wk, parked, link, silent, nextRun>>

(* The assignees are removed one call at a time.                           *)
StripAssignees(i, logins, returned, raised) ==
  \/ assignees' = [assignees EXCEPT ![i] = @ \ logins] /\ returned /\ UNCHANGED left
  \/ /\ \E done \in SUBSET logins : assignees' = [assignees EXCEPT ![i] = @ \ done]
     /\ raised /\ Spend("fault")

SweepStrip ==
  /\ jan.pc = "strip"
  /\ StripAssignees(jan.issue, jan.logins, JanGoto("unlabel"), JanDone)
  /\ UNCHANGED <<labels, pr, evidence, control, dsp, wk, parked, link, silent, nextRun>>

SweepUnlabel ==
  /\ jan.pc = "unlabel"
  /\ GitHubCall(labels' = [labels EXCEPT ![jan.issue] = @ \ {"in_progress"}],
                UNCHANGED labels, JanGoto("ledger"), JanDone)
  /\ UNCHANGED <<assignees, pr, evidence, control, dsp, wk, parked, link, silent, nextRun>>

SweepLedger ==
  /\ jan.pc = "ledger"
  /\ Acted(jan.issue, jan.run) /\ Unflag(jan.issue, jan.run) /\ JanDone
  /\ UNCHANGED <<github, grants, expired, latest, health, dsp, wk, parked, link, silent,
                 nextRun, left>>

----------------------------------------------------------------------------
(* The janitor, grant lane: release_never_activated.                       *)

(* live_claims and expired_grants are read before any row is handled.      *)
ReleaseLook(i) ==
  /\ jan.pc = "idle" /\ i \in expired
  /\ jan' = [IdleJan EXCEPT !.pc = "expired", !.issue = i, !.worker = grants[i],
                            !.live = Live(i)]
  /\ UNCHANGED <<github, control, dsp, wk, parked, link, silent, nextRun, left>>

(* Mutant: the row outlives the unwinding it decides.                      *)
ReleaseRowKept ==
  /\ jan.pc = "expired"
  /\ IF jan.live \/ grants[jan.issue] = None THEN JanDone ELSE JanGoto("unassign")
  /\ UNCHANGED <<github, control, dsp, wk, parked, link, silent, nextRun, left>>

(* The row of a live claim is only bookkeeping; otherwise whoever removes  *)
(* the row owns the fate of the issue.                                     *)
ReleaseRow ==
  /\ jan.pc = "expired"
  /\ ReleaseGrant(jan.issue)
  /\ IF jan.live \/ grants[jan.issue] = None THEN JanDone ELSE JanGoto("unassign")
  /\ UNCHANGED <<github, latest, acted, flagged, health, dsp, wk, parked, link, silent,
                 nextRun, left>>

UnwindAssignees ==
  /\ jan.pc = "unassign"
  /\ StripAssignees(jan.issue, assignees[jan.issue], JanGoto("unclaim"), JanGoto("rerecord"))
  /\ UNCHANGED <<labels, pr, evidence, control, dsp, wk, parked, link, silent, nextRun>>

(* Mutants: the issue never returns to the pool; it returns one write early*)
UnwindNoRequeue ==
  /\ jan.pc = "unclaim"
  /\ GitHubCall(labels' = [labels EXCEPT ![jan.issue] = @ \ {"in_progress"}],
                UNCHANGED labels, JanDone, JanGoto("rerecord"))
  /\ UNCHANGED <<assignees, pr, evidence, control, dsp, wk, parked, link, silent, nextRun>>
UnwindEarlyRequeue ==
  /\ jan.pc = "unclaim"
  /\ GitHubCall(labels' = [labels EXCEPT ![jan.issue] = (@ \ {"in_progress"}) \cup {"plan_ready"}],
                UNCHANGED labels, JanGoto("requeue"), JanGoto("rerecord"))
  /\ UNCHANGED <<assignees, pr, evidence, control, dsp, wk, parked, link, silent, nextRun>>

UnwindInProgress ==
  /\ jan.pc = "unclaim"
  /\ GitHubCall(labels' = [labels EXCEPT ![jan.issue] = @ \ {"in_progress"}],
                UNCHANGED labels, JanGoto("requeue"), JanGoto("rerecord"))
  /\ UNCHANGED <<assignees, pr, evidence, control, dsp, wk, parked, link, silent, nextRun>>

UnwindRequeue ==
  /\ jan.pc = "requeue"
  /\ GitHubCall(labels' = [labels EXCEPT ![jan.issue] = @ \cup {"plan_ready"}],
                UNCHANGED labels, JanDone, JanGoto("rerecord"))
  /\ UNCHANGED <<assignees, pr, evidence, control, dsp, wk, parked, link, silent, nextRun>>

(* Mutant: a failed unwind is only logged.                                 *)
RerecordNothing ==
  /\ jan.pc = "rerecord" /\ JanDone
  /\ UNCHANGED <<github, control, dsp, wk, parked, link, silent, nextRun, left>>

(* A failed unwind puts the row back for the next pass.                    *)
Rerecord ==
  /\ jan.pc = "rerecord"
  /\ RecordGrant(jan.issue, jan.worker) /\ JanDone
  /\ UNCHANGED <<github, latest, acted, flagged, health, dsp, wk, parked, link, silent,
                 nextRun, left>>

----------------------------------------------------------------------------
(* What surrounds the protocol.                                            *)

(* The link to Control is lost; silence beyond the grace period follows    *)
(* unless it heals, and the first heartbeat over it ends the silence.      *)
CutLink(w) ==
  /\ link[w] /\ Spend("cut")
  /\ link' = [link EXCEPT ![w] = FALSE]
  /\ UNCHANGED <<github, control, dsp, jan, wk, parked, silent, nextRun>>

GraceElapses(w) ==
  /\ ~link[w] /\ ~silent[w]
  /\ silent' = [silent EXCEPT ![w] = TRUE]
  /\ UNCHANGED <<github, control, dsp, jan, wk, parked, link, nextRun, left>>

Heal(w) ==
  /\ ~link[w]
  /\ link' = [link EXCEPT ![w] = TRUE]
  /\ silent' = [silent EXCEPT ![w] = FALSE]
  /\ UNCHANGED <<github, control, dsp, jan, wk, parked, nextRun, left>>

(* Control dies and is restarted: its threads are gone, its store is not.  *)
ControlCrash ==
  /\ dsp.pc # "free" \/ jan.pc # "idle"
  /\ jan.pc \in UnwindPcs => CrashInUnwind
  /\ Spend("control")
  /\ dsp' = FreeDsp /\ jan' = IdleJan
  /\ wk' = [w \in Worker |-> IF wk[w].pc = "asking" THEN IdleWk ELSE wk[w]]
  /\ UNCHANGED <<github, control, parked, link, silent, nextRun>>

(* The activation window passes over a grant row. A row on an issue that   *)
(* the pass found without one is younger than the pass.                    *)
WindowElapses(i) ==
  /\ grants[i] # None /\ i \notin expired
  /\ Timely => /\ ~(dsp.waiting /\ i \in dsp.open)
               /\ \A w \in Worker : ~(wk[w].pc = "claiming" /\ wk[w].issue = i)
  /\ PromptPass => i \notin dsp.open
  /\ expired' = expired \cup {i}
  /\ UNCHANGED <<github, grants, latest, acted, flagged, health, dsp, jan, wk, parked, link,
                 silent, nextRun, left>>

(* release_quarantine: unquarantine, recycle or update by the operator.    *)
Unquarantine(w) ==
  /\ health[w] = QuarantineAfterFailures
  /\ health' = [health EXCEPT ![w] = 0]
  /\ UNCHANGED <<github, grants, expired, latest, acted, flagged, dsp, jan, wk, parked, link,
                 silent, nextRun, left>>

(* A human releases an escalated issue and restores plan_ready, removing   *)
(* failed or, by mistake, leaving it on.                                   *)
HumanRequeue(i) ==
  /\ "failed" \in labels[i]
  /\ \E kept \in {{}, {"failed"}} : labels' = [labels EXCEPT ![i] = {"plan_ready"} \cup kept]
  /\ assignees' = [assignees EXCEPT ![i] = {}]
  /\ UNCHANGED <<pr, evidence, control, dsp, jan, wk, parked, link, silent, nextRun, left>>

(* Mutant: the revise verdict leaves pr_ready on.                          *)
ReviseKeepsReady(i) ==
  /\ pr[i] = "pr_ready"
  /\ labels' = [labels EXCEPT ![i] = (@ \ {"in_progress"}) \cup {"plan_ready"}]
  /\ assignees' = [assignees EXCEPT ![i] = {}]
  /\ UNCHANGED <<pr, evidence, control, dsp, jan, wk, parked, link, silent, nextRun, left>>

(* A Reviewer's revise verdict hands the issue back to the pool.           *)
Revise(i) ==
  /\ pr[i] = "pr_ready"
  /\ pr' = [pr EXCEPT ![i] = "open"]
  /\ labels' = [labels EXCEPT ![i] = (@ \ {"in_progress"}) \cup {"plan_ready"}]
  /\ assignees' = [assignees EXCEPT ![i] = {}]
  /\ UNCHANGED <<evidence, control, dsp, jan, wk, parked, link, silent, nextRun, left>>

----------------------------------------------------------------------------
Init ==
  /\ labels = [i \in Issue |-> {"plan_ready"}]
  /\ assignees = [i \in Issue |-> {}]
  /\ pr = [i \in Issue |-> "none"]
  /\ evidence = {}
  /\ grants = [i \in Issue |-> None]
  /\ expired = {}
  /\ latest = [i \in Issue |-> NoEvent]
  /\ acted = {} /\ flagged = {}
  /\ health = [w \in Worker |-> 0]
  /\ dsp = FreeDsp /\ jan = IdleJan
  /\ wk = [w \in Worker |-> IdleWk]
  /\ parked = [w \in Worker |-> {}]
  /\ link = [w \in Worker |-> TRUE]
  /\ silent = [w \in Worker |-> FALSE]
  /\ nextRun = 1
  /\ left = [crash |-> MaxCrash, control |-> MaxControlCrash, fault |-> MaxFault,
             lost |-> MaxLost, cut |-> MaxCut]

DispatchStep ==
  \/ \E w \in Worker : DispatchRead(w) \/ DispatchRefuse(w)
  \/ \E i \in Issue : DispatchPick(i)
  \/ DispatchNone \/ DispatchRecord \/ DispatchAssign \/ DispatchClaim \/ DispatchUnlabel
  \/ DispatchReply

ClaimStep(w) ==
  \/ EmitClaimed(w) \/ EmitRelaunched(w) \/ OpenPr(w) \/ RunFails(w) \/ LabelPr(w)
  \/ EmitPrOpen(w) \/ PushRunEvidence(w) \/ EmitFailed(w)
  \/ EscalateLabel(w) \/ EscalateUnassign(w) \/ EscalateUnclaim(w) \/ EmitEscalated(w)

DriverStep(w) ==
  ClaimStep(w) \/ AskWork(w) \/ AskTimesOut(w) \/ IdleSweep(w) \/ Boot(w)

SweepStep == SweepVerify \/ SweepEvidence \/ SweepLabel \/ SweepStrip \/ SweepUnlabel
             \/ SweepLedger
ReleaseStep == ReleaseRow \/ UnwindAssignees \/ UnwindInProgress \/ UnwindRequeue
               \/ Rerecord

JanitorStep ==
  \/ SweepStep \/ ReleaseStep
  \/ \E i \in Issue : SweepClear(i) \/ SweepFlag(i) \/ ReleaseLook(i)

Environment ==
  \/ \E w \in Worker : DriverDies(w) \/ CutLink(w) \/ GraceElapses(w) \/ Heal(w)
                       \/ Unquarantine(w)
  \/ \E i \in Issue : WindowElapses(i) \/ HumanRequeue(i) \/ Revise(i)
  \/ ControlCrash

Next == DispatchStep \/ (\E w \in Worker : DriverStep(w)) \/ JanitorStep \/ Environment

Spec == Init /\ [][Next]_vars

(* Every thread that can move moves; a pass of the janitor visits every    *)
(* claim and every row, and a driver without work sweeps between requests; *)
(* time passes, links heal, dead drivers are restarted.                    *)
Fairness ==
  /\ WF_vars(DispatchStep) /\ WF_vars(SweepStep) /\ WF_vars(ReleaseStep)
  /\ \A w \in Worker : /\ WF_vars(ClaimStep(w)) /\ WF_vars(AskWork(w)) /\ SF_vars(IdleSweep(w))
                       /\ WF_vars(Boot(w)) /\ WF_vars(Heal(w))
  /\ \A i \in Issue : /\ SF_vars(ReleaseLook(i)) /\ SF_vars(SweepFlag(i))
                      /\ SF_vars(SweepClear(i)) /\ WF_vars(WindowElapses(i))

FairSpec == Spec /\ Fairness
----------------------------------------------------------------------------
(* Properties.                                                             *)

(* A driver holds an issue from the grant it received until its PR is      *)
(* announced or its claim is escalated; it has activated it once Control   *)
(* acknowledged a claimed event.                                           *)
ActivatedPcs == {"relaunching", "running", "shipping", "shipped", "broken", "failing",
                 "escalating", "unassigning", "unlabelling", "announcing"}
Activated(w, i) == wk[w].issue = i /\ wk[w].pc \in ActivatedPcs
Claiming(w, i)  == wk[w].issue = i /\ wk[w].pc = "claiming"
Holds(w, i)     == Activated(w, i) \/ Claiming(w, i)
Unwinding(i)    == jan.issue = i /\ jan.pc \in UnwindPcs
Claimed(i)      == "in_progress" \in labels[i] \/ assignees[i] # {}

(* Two drivers never hold the same issue: grant_work is the single         *)
(* serialized writer of claims, and the grant row, then the live claim,    *)
(* keep an issue out of dispatch whatever happens to its labels.           *)
SingleOwner ==
  \A i \in Issue, w, v \in Worker : Holds(w, i) /\ Holds(v, i) => w = v

(* Why two drivers never hold an issue, as an inductive invariant. A row   *)
(* whose window elapsed waits for nobody: neither a pass whose driver still*)
(* listens nor a driver in its handshake.                                  *)
ExpiredRowsAreStale ==
  \A i \in expired : /\ grants[i] # None /\ ~(dsp.waiting /\ i \in dsp.open)
                     /\ \A w \in Worker : ~Claiming(w, i)

(* A held issue has its row until the first claimed event, and is live from*)
(* then on.                                                                *)
HoldersAreKnown ==
  \A i \in Issue, w \in Worker :
    /\ Claiming(w, i) => grants[i] # None \/ Live(i)
    /\ Activated(w, i) => Live(i)

(* A pass considers issues nobody holds; the one it grants has a row for as*)
(* long as its driver listens.                                             *)
PassIsExclusive ==
  /\ \A i \in dsp.open, w \in Worker : ~Holds(w, i)
  /\ dsp.pc \notin {"free", "reading"} => dsp.issue \in Issue /\ dsp.open = {dsp.issue}
  /\ dsp.pc \in {"recorded", "assigned", "labelled", "granted"} /\ dsp.waiting
       => grants[dsp.issue] # None

(* The row release_never_activated is about to delete waits for nobody     *)
(* either; if an event retired it meanwhile, that claim is in its session. *)
LookIsStale ==
  jan.pc = "expired" =>
    /\ ~(dsp.waiting /\ jan.issue \in dsp.open)
    /\ \A w \in Worker : ~Claiming(w, jan.issue)
    /\ grants[jan.issue] = None =>
         /\ Live(jan.issue)
         /\ \A w \in Worker : Activated(w, jan.issue) => wk[w].pc = "running"

ReleasedRowIsKnown ==
  jan.pc \in {"expired"} \cup UnwindPcs => jan.worker # None

OwnershipInvariant ==
  /\ ExpiredRowsAreStale /\ HoldersAreKnown /\ PassIsExclusive /\ LookIsStale
  /\ ReleasedRowIsKnown /\ SingleOwner

(* A claim on GitHub is being written by _granting_pass, or known to one of*)
(* the reapers of janitor.py (a grant row, a live claim, an unwinding in   *)
(* progress), or visible as failed or as a pr_ready PR: a half-written     *)
(* claim is never orphaned.                                                *)
ClaimTracked ==
  \A i \in Issue : Claimed(i) =>
    \/ dsp.issue = i \/ grants[i] # None \/ Live(i) \/ Unwinding(i)
    \/ "failed" \in labels[i] \/ pr[i] = "pr_ready"

(* No issue falls between the pool, the claims, the escalations and the    *)
(* reviews, whichever write of a grant, an unwinding or an escalation      *)
(* (_escalate_claim, _sweep_one) was the last to land.                     *)
NeverInvisible ==
  \A i \in Issue :
    \/ labels[i] \cap {"plan_ready", "failed"} # {} \/ pr[i] = "pr_ready"
    \/ grants[i] # None \/ Live(i) \/ Unwinding(i)

(* Whatever is lost or raises, an issue and a claim on it are always in    *)
(* somebody's sight: the pool's, a reaper's, a Reviewer's or a human's     *)
(* (_granting_pass, release_never_activated, _sweep_one).                  *)
NothingFallsThrough == ClaimTracked /\ NeverInvisible

(* release_never_activated never unwinds the claim of a driver that holds  *)
(* it: deleting the row decides the race with a late activation.           *)
ActivatedNeverUnwound ==
  \A i \in Issue, w \in Worker : ~(Unwinding(i) /\ Activated(w, i))

(* No GitHub call has raised yet, no link was lost and Control has run     *)
(* through.                                                                *)
NoFaultYet ==
  left.fault = MaxFault /\ left.cut = MaxCut /\ left.control = MaxControlCrash

(* Until a GitHub call raises, the janitor unwinds no claim a driver has   *)
(* activated: a late claimed event finds its row, or finds it gone before  *)
(* the driver starts (release_never_activated, activation).                *)
CleanUnwind == NoFaultYet => ActivatedNeverUnwound

(* Until its PR is up, the driver that holds an issue is assigned to it    *)
(* and the issue is in_progress: _granting_pass writes the claim through   *)
(* before it answers, and nobody takes it away, unless a GitHub call raised.*)
OwnershipOnGitHub ==
  NoFaultYet => \A i \in Issue, w \in Worker :
    /\ Holds(w, i) /\ pr[i] = "none"
    /\ wk[w].pc \in {"claiming", "relaunching", "running", "broken", "failing", "escalating"}
    => w \in assignees[i] /\ "in_progress" \in labels[i]

(* Unless a GitHub call raised, a driver never starts on an issue that     *)
(* carries failed (_granting_pass refuses it), even one escalated or       *)
(* wrongly requeued around the grant.                                      *)
FailedNeverGranted ==
  NoFaultYet => \A i \in Issue, w \in Worker : Claiming(w, i) => "failed" \notin labels[i]

(* Nor on an issue whose PR awaits its review (_granting_pass looks at the *)
(* issue only, never at the PR).                                           *)
ReadyNeverGranted ==
  NoFaultYet => \A i \in Issue, w \in Worker : Claiming(w, i) => pr[i] # "pr_ready"

(* No Run is started on an issue that is a human's or a Reviewer's turn    *)
(* (_granting_pass), unless a GitHub call raised.                          *)
GrantsAreWorkable == FailedNeverGranted /\ ReadyNeverGranted

(* _sweep_one takes a claim away only when no driver executes it any more, *)
(* as long as drivers can report.                                          *)
EscalatesOnlyDeadClaims ==
  NoFaultYet => (jan.pc \in {"strip", "unlabel", "ledger"}
                   => \A w \in Worker : ~Activated(w, jan.issue))

(* Neither lane of the janitor takes a claim from the driver that executes *)
(* it (release_never_activated, _sweep_one), until a GitHub call raises.   *)
JanitorSparesDrivers == CleanUnwind /\ EscalatesOnlyDeadClaims

(* Every grant row is retired, by the claimed event or by the janitor      *)
(* (record_event, release_never_activated).                                *)
GrantSettles == \A i \in Issue : grants[i] # None ~> grants[i] = None

(* Every claim comes to an end: its retries are bounded (execute_claim).   *)
ClaimEnds == \A i \in Issue, w \in Worker : Holds(w, i) ~> ~Holds(w, i)

(* Neither a grant nor a claim lasts for ever.                             *)
ClaimsSettle == GrantSettles /\ ClaimEnds

(* A job directory left behind reaches the evidence branch, from the next  *)
(* boot or idle pass on (sweep_orphans).                                   *)
EvidencePublished == \A w \in Worker, r \in Run : r \in parked[w] ~> r \in evidence

(* The protocol implements single ownership: the owner of an issue is the  *)
(* driver that holds it (grant_work to execute_claim's end).               *)
OneOf(drivers) == IF drivers = {} THEN None ELSE CHOOSE w \in drivers : TRUE
holder == [i \in Issue |-> OneOf({w \in Worker : Holds(w, i)})]
Owner == INSTANCE ClaimOwner WITH owner <- holder
ImplementsClaimOwner == Owner!Spec
=============================================================================
