------------------------------ MODULE ReviewRounds ------------------------------
(***************************************************************************)
(* A PR from its first ship to a human: the Reviewer judges it in rounds,  *)
(* publishes each verdict one GitHub write after the other, and sends the  *)
(* issue back to the pool for another Run, within a budget of rounds.      *)
(*                                                                         *)
(* The claim, its grant and its unwinding are one step each here           *)
(* (ClaimProtocol takes them apart), but what Control knows of it is kept: *)
(* a claim whose last event never came stays live, and its issue is        *)
(* granted to nobody.  What the driver of a Reviewer holds is in memory    *)
(* only, so a failed write and a dead driver are the same.                 *)
(***************************************************************************)
EXTENDS Naturals, Sequences, SequencesExt

CONSTANTS
    Reviewer,       \* the running Reviewer Stacks
    RoundBudget,    \* ROUND_BUDGET
    Patient,        \* the human moves a PR only when no round on it is under way
    MaxDecisions,   \* bound: decisions of the human
    MaxDeaths,      \* bound: Runs that die, fail or lose their last event
    MaxCuts,        \* bound: rounds without a verdict, verdicts and escalations of
                    \* drifts cut short
    MaxDrifts       \* bound: moves of the branch the PR is based on

ASSUME ReviewAssumption ==
    /\ RoundBudget \in Nat \ {0} /\ Patient \in BOOLEAN
    /\ {MaxDecisions, MaxDeaths, MaxCuts, MaxDrifts} \subseteq Nat

VARIABLES
    pr,         \* open, its labels and its head
    issue,      \* the issue's labels and whether it is assigned
    verdicts,   \* the verdict comments on the PR
    latest,     \* the latest word on the PR: a verdict's, or the human's
    run,        \* the Implementer Run on the issue
    claim,      \* what Control knows of its claim, and the janitor can see
    round,      \* per Reviewer: the round it is at
    reworks,    \* ghost: how often a Reviewer sent the issue back
    cut,        \* ghost: a verdict was cut after it took the PR from the pool
    left,       \* what is left of the bounds
    tip,        \* the tip of the branch the PR is based on; 0 is the recorded base
    drift,      \* the base-drift lane of the janitor: the call it is at
    acted,      \* the janitor's ledger: what it recorded of each drift
    notes,      \* the drifts whose forensic comment is on the PR
    landed,     \* ghost: the drifts whose labels landed
    firm        \* ghost: those whose hold a pass of the lane has left behind

lane == <<drift, acted, notes, landed, firm>>
vars == <<pr, issue, verdicts, latest, run, claim, round, reworks, cut, left, tip, lane>>

Kind == {"approve", "revise", "escalate"}
Verdict == [kind : Kind, round : 1 .. RoundBudget, head : Nat]

Idle == [at |-> "idle"]
Budget == {"decisions", "deaths", "cuts", "drifts"}
Spend(b) == left[b] > 0 /\ left' = [left EXCEPT ![b] = @ - 1]

\* Mutant: A human hold does not take a PR from the Reviewer.
HeldReviewable == pr.ready /\ ~pr.blocked

\* pr_ready without a human hold.
Reviewable == pr.ready /\ ~pr.hold /\ ~pr.blocked

\* Mutant: The claim is stripped of its assignee only.
KeepsLabel(kind) ==
    CASE kind = "approve" -> <<"comment", "stamp">>
      [] kind = "revise" -> <<"comment", "attempt", "unready", "unassign", "requeue">>
      [] kind = "escalate" -> <<"comment", "unready", "hold">>

\* Mutant: The comment that explains a verdict comes last.
LateComment(kind) ==
    CASE kind = "approve" -> <<"stamp", "comment">>
      [] kind = "revise" -> <<"attempt", "unready", "unassign", "unprogress",
                              "requeue", "comment">>
      [] kind = "escalate" -> <<"unready", "hold", "comment">>

\* Mutant: The issue goes back to the pool before the PR leaves it.
EarlyRequeue(kind) ==
    CASE kind = "approve" -> <<"comment", "stamp">>
      [] kind = "revise" -> <<"comment", "attempt", "unassign", "unprogress",
                              "requeue", "unready">>
      [] kind = "escalate" -> <<"comment", "unready", "hold">>

\* Mutant: An escalation takes the PR from the pool and holds nothing.
NoHold(kind) ==
    CASE kind = "approve" -> <<"comment", "stamp">>
      [] kind = "revise" -> <<"comment", "attempt", "unready", "unassign",
                              "unprogress", "requeue">>
      [] kind = "escalate" -> <<"comment", "unready">>

\* The GitHub writes that publish a verdict, in their order.
Writes(kind) ==
    CASE kind = "approve" -> <<"comment", "stamp">>
      [] kind = "revise" -> <<"comment", "attempt", "unready", "unassign",
                              "unprogress", "requeue">>
      [] kind = "escalate" -> <<"comment", "unready", "hold">>

\* Mutant: The round is counted twice.
PublishNext(r, kind, n, head) ==
    round' = [round EXCEPT ![r] =
        [at |-> "publish", verdict |-> [kind |-> kind, round |-> n + 1, head |-> head],
         todo |-> Writes(kind)]]

Publish(r, kind, n, head) ==
    round' = [round EXCEPT ![r] =
        [at |-> "publish", verdict |-> [kind |-> kind, round |-> n, head |-> head],
         todo |-> Writes(kind)]]

(***************************************************************************)
(* The Reviewer.                                                           *)
(***************************************************************************)

\* Discovery through the Control Node; it writes nothing and reserves nothing.
Discover(r) ==
    /\ round[r] = Idle /\ pr.open /\ Reviewable
    /\ round' = [round EXCEPT ![r] = [at |-> "listed"]]
    /\ UNCHANGED <<pr, issue, verdicts, latest, run, claim, reworks, cut, left, tip, lane>>

\* The PR read afresh: discovery is advisory.  A spent budget escalates
\* without a session.
Take(r) ==
    /\ round[r].at = "listed"
    /\ \/ ~Reviewable /\ round' = [round EXCEPT ![r] = Idle]
       \/ /\ Reviewable /\ pr.attempts >= RoundBudget
          /\ Publish(r, "escalate", RoundBudget, pr.head)
       \/ /\ Reviewable /\ pr.attempts < RoundBudget
          /\ round' = [round EXCEPT ![r] =
                [at |-> "session", round |-> pr.attempts + 1, head |-> pr.head]]
    /\ UNCHANGED <<pr, issue, verdicts, latest, run, claim, reworks, cut, left, tip, lane>>

\* Mutant: The last round may ask for another Run.
AnyRound(kind, n) == kind

\* What is published for what the session proposes in round n: a revise in
\* the last one is invalid, and an invalid proposal escalates at once.
Validated(kind, n) ==
    IF kind = "revise" /\ n >= RoundBudget THEN "escalate" ELSE kind

\* The session ends; a failed identity gate escalates as well.
Judge(r, kind) ==
    /\ round[r].at = "session"
    /\ Publish(r, Validated(kind, round[r].round), round[r].round, round[r].head)
    /\ UNCHANGED <<pr, issue, verdicts, latest, run, claim, reworks, cut, left, tip, lane>>

\* No inputs, no session, a schema skew, or a dead driver: nothing is written.
NoVerdict(r) ==
    /\ round[r].at = "session"
    /\ Spend("cuts")
    /\ round' = [round EXCEPT ![r] = Idle]
    /\ UNCHANGED <<pr, issue, verdicts, latest, run, claim, reworks, cut, tip, lane>>

PrAfter(w, n) ==
    CASE w = "stamp" -> [pr EXCEPT !.hold = TRUE]
      [] w = "attempt" -> [pr EXCEPT !.attempts = IF n > @ THEN n ELSE @]
      [] w = "unready" -> [pr EXCEPT !.ready = FALSE]
      [] w = "hold" -> [pr EXCEPT !.blocked = TRUE, !.hold = TRUE]
      [] OTHER -> pr

IssueAfter(w) ==
    CASE w = "unassign" -> [issue EXCEPT !.assigned = FALSE]
      [] w = "unprogress" -> [issue EXCEPT !.progress = FALSE]
      [] w = "requeue" -> [issue EXCEPT !.ready = TRUE]
      [] OTHER -> issue

\* The next write of the verdict lands.
Write(r) ==
    /\ round[r].at = "publish"
    /\ LET w == Head(round[r].todo)
           rest == Tail(round[r].todo)
           v == round[r].verdict
       IN /\ pr' = PrAfter(w, v.round)
          /\ issue' = IssueAfter(w)
          /\ IF w = "comment" THEN verdicts' = verdicts \cup {v} /\ latest' = v
                              ELSE UNCHANGED <<verdicts, latest>>
          /\ reworks' = IF w = "requeue" THEN reworks + 1 ELSE reworks
          /\ round' = [round EXCEPT ![r] =
                IF rest = <<>> THEN Idle ELSE [@ EXCEPT !.todo = rest]]
    /\ UNCHANGED <<run, claim, cut, left, tip, lane>>

\* A write fails or the driver dies; the next pass starts from the labels.
CutShort(r) ==
    /\ round[r].at = "publish"
    /\ Spend("cuts")
    /\ cut' = (cut \/ (/\ round[r].verdict.kind # "approve"
                       /\ "unready" \notin ToSet(round[r].todo)))
    /\ round' = [round EXCEPT ![r] = Idle]
    /\ UNCHANGED <<pr, issue, verdicts, latest, run, claim, reworks, tip, lane>>

(***************************************************************************)
(* The Implementer, the janitor and the human.                             *)
(***************************************************************************)

\* A claim as a grant or its end leaves it: nobody asks who is silent.
Claim(known) == [known |-> known, silent |-> FALSE, bundle |-> FALSE]
Ended == Claim("ended")

\* A grant and the checkout of the Run.  An issue whose claim is live is passed
\* over, whatever its labels say.
Resume ==
    /\ run = "none" /\ pr.open /\ claim.known = "ended"
    /\ issue.ready /\ ~issue.failed /\ ~issue.assigned /\ ~issue.progress
    /\ issue' = [issue EXCEPT !.ready = FALSE, !.assigned = TRUE, !.progress = TRUE]
    /\ run' = "working"
    /\ claim' = Claim("live")
    /\ UNCHANGED <<pr, verdicts, latest, round, reworks, cut, left, tip, lane>>

Push ==
    /\ run = "working"
    /\ run' = "pushed"
    /\ pr' = [pr EXCEPT !.head = @ + 1]
    /\ UNCHANGED <<issue, verdicts, latest, claim, round, reworks, cut, left, tip, lane>>

MarkReady ==
    /\ run = "pushed"
    /\ run' = "shipped"
    /\ pr' = [pr EXCEPT !.ready = TRUE]
    /\ UNCHANGED <<issue, verdicts, latest, claim, round, reworks, cut, left, tip, lane>>

\* The pr-open event ends the claim; it stays written on GitHub.
Conclude ==
    /\ run = "shipped"
    /\ run' = "none" /\ claim' = Ended
    /\ UNCHANGED <<pr, issue, verdicts, latest, round, reworks, cut, left, tip, lane>>

\* The event is sent once, and nothing comes of it.
EventLost ==
    /\ run = "shipped"
    /\ Spend("deaths")
    /\ run' = "none"
    /\ UNCHANGED <<pr, issue, verdicts, latest, claim, round, reworks, cut, tip, lane>>

Released == [issue EXCEPT !.failed = TRUE, !.assigned = FALSE, !.progress = FALSE]

\* The Run is spent without a ship: failed + needs_human on the issue.  The
\* event that ends the claim may be lost.
RunFails ==
    /\ run \in {"working", "pushed"}
    /\ Spend("deaths")
    /\ run' = "none"
    /\ claim' \in {claim, Ended}
    /\ issue' = Released
    /\ UNCHANGED <<pr, verdicts, latest, round, reworks, cut, tip, lane>>

RunDies ==
    /\ run \in {"working", "pushed", "shipped"}
    /\ Spend("deaths")
    /\ run' = "dead"
    /\ UNCHANGED <<pr, issue, verdicts, latest, claim, round, reworks, cut, tip, lane>>

\* No Run is at work, whether or not Control was told.
Over == run \in {"none", "dead"}

\* The node of the claim and its driver fall silent past the grace, or are
\* heard of again.
Silence ==
    /\ claim.known = "live" /\ Over
    /\ claim' = [claim EXCEPT !.silent = ~@]
    /\ UNCHANGED <<pr, issue, verdicts, latest, run, round, reworks, cut, left, tip, lane>>

\* The evidence of the Run is pushed, by its driver or by a later boot sweep.
BundleLands ==
    /\ claim.known = "live" /\ Over /\ ~claim.bundle
    /\ claim' = [claim EXCEPT !.bundle = TRUE]
    /\ UNCHANGED <<pr, issue, verdicts, latest, run, round, reworks, cut, left, tip, lane>>

\* Mutant: Any open PR keeps its claim.
OpenSettled == (~issue.progress /\ ~issue.assigned) \/ pr.open

\* The claim is off the issue already, or under a PR that is the Reviewer's.
Settled == (~issue.progress /\ ~issue.assigned) \/ (pr.open /\ pr.ready)

\* The zombie sweep: a settled claim is only recorded; another is released,
\* once there is evidence of its Run.  None of this ends the claim.
Janitor ==
    /\ claim.known = "live" /\ claim.silent /\ Over
    /\ \/ Settled /\ UNCHANGED issue
       \/ ~Settled /\ claim.bundle /\ issue' = Released
    /\ claim' = Claim("handled")
    /\ run' = "none"
    /\ UNCHANGED <<pr, verdicts, latest, round, reworks, cut, left, tip, lane>>

\* The blocker is reworked: the branch the PR is based on moves.
BlockerMoves ==
    /\ Spend("drifts")
    /\ tip' = tip + 1
    /\ UNCHANGED <<pr, issue, verdicts, latest, run, claim, round, reworks, cut, lane>>

(***************************************************************************)
(* The base-drift lane of the janitor, write by write.  It runs over a     *)
(* listing of the open PRs, so the labels it acts on may be old.           *)
(***************************************************************************)

Free == [at |-> "idle"]
Commented(t) == [tip |-> t, part |-> "comment"]
Complete(t) == [tip |-> t, part |-> "act"]

DriftList ==
    /\ drift = Free /\ pr.open
    /\ drift' = [at |-> "listed", blocked |-> pr.blocked]
    /\ UNCHANGED <<pr, issue, verdicts, latest, run, claim, round, reworks, cut, left, tip,
                   acted, notes, landed, firm>>

\* Mutant: The labels first, the comment when they have landed.
LabelsFirst(t) == "label"

\* The comment comes first, and is not posted twice once it is recorded.
DriftStep(t) == IF Commented(t) \in acted THEN "label" ELSE "comment"

\* Mutant: Nothing is recovered from a PR that is blocked.
HealsNothing(t) == acted

\* The label is on and the forensics are recorded: only the record of it is lost.
Healed(t) == IF Commented(t) \in acted THEN acted \cup {Complete(t)} ELSE acted

\* The tip and the ledger; a PR that is blocked already is never written to.
DriftRead ==
    /\ drift.at = "listed"
    /\ \/ /\ tip = 0 \/ Complete(tip) \in acted
          /\ drift' = Free
          /\ UNCHANGED <<acted, firm>>
       \/ /\ tip # 0 /\ Complete(tip) \notin acted /\ drift.blocked
          /\ drift' = Free
          /\ acted' = Healed(tip)
          /\ firm' = firm \cup ({tip} \cap landed)
       \/ /\ tip # 0 /\ Complete(tip) \notin acted /\ ~drift.blocked
          /\ drift' = [at |-> DriftStep(tip), tip |-> tip]
          /\ UNCHANGED <<acted, firm>>
    /\ UNCHANGED <<pr, issue, verdicts, latest, run, claim, round, reworks, cut, left, tip,
                   notes, landed>>

DriftComment ==
    /\ drift.at = "comment"
    /\ notes' = notes \cup {drift.tip}
    /\ drift' = [drift EXCEPT !.at = "note"]
    /\ UNCHANGED <<pr, issue, verdicts, latest, run, claim, round, reworks, cut, left, tip,
                   acted, landed, firm>>

\* record_janitor_action: the comment has its key, the act another.
Recorded(t, part) == acted \cup {[tip |-> t, part |-> part]}

DriftNote ==
    /\ drift.at = "note"
    /\ acted' = Recorded(drift.tip, "comment")
    /\ drift' = [drift EXCEPT !.at = "label"]
    /\ UNCHANGED <<pr, issue, verdicts, latest, run, claim, round, reworks, cut, left, tip,
                   notes, landed, firm>>

DriftLabel ==
    /\ drift.at = "label"
    /\ pr' = [pr EXCEPT !.blocked = TRUE, !.hold = TRUE]
    /\ landed' = landed \cup {drift.tip}
    /\ drift' = [drift EXCEPT !.at = "record"]
    /\ UNCHANGED <<issue, verdicts, latest, run, claim, round, reworks, cut, left, tip,
                   acted, notes, firm>>

DriftRecord ==
    /\ drift.at = "record"
    /\ acted' = Recorded(drift.tip, "act")
    /\ firm' = firm \cup {drift.tip}
    /\ drift' = Free
    /\ UNCHANGED <<pr, issue, verdicts, latest, run, claim, round, reworks, cut, left, tip,
                   notes, landed>>

\* A call fails, with or without its effect, or the Control Node dies.
DriftCut ==
    /\ drift.at \in {"comment", "note", "label", "record"}
    /\ Spend("cuts")
    /\ drift' = Free
    /\ UNCHANGED <<pr, issue, verdicts, latest, run, claim, round, reworks, cut, tip,
                   acted, notes, landed, firm>>

Quiet == Over /\ ~issue.ready /\ (Patient => \A r \in Reviewer : round[r] = Idle)

\* The human stamps what is approved and awaits a merge.
Merge ==
    /\ pr.open /\ pr.ready /\ pr.hold /\ ~pr.blocked
    /\ pr' = [pr EXCEPT !.open = FALSE]
    /\ UNCHANGED <<issue, verdicts, latest, run, claim, round, reworks, cut, left, tip,
                   lane>>

\* A held PR goes back to the Reviewer.
HandBack ==
    /\ pr.open /\ pr.hold /\ Quiet
    /\ Spend("decisions")
    /\ pr' = [pr EXCEPT !.hold = FALSE, !.blocked = FALSE, !.ready = TRUE]
    /\ latest' = [kind |-> "human"]
    /\ UNCHANGED <<issue, verdicts, run, claim, round, reworks, cut, tip, lane>>

\* Or the issue goes back to the pool, with a decision the next Run reads.
Decide ==
    /\ pr.open /\ Quiet /\ (pr.hold \/ issue.failed)
    /\ Spend("decisions")
    /\ pr' = [pr EXCEPT !.hold = FALSE, !.blocked = FALSE, !.ready = FALSE]
    /\ issue' = [ready |-> TRUE, assigned |-> FALSE, progress |-> FALSE,
                 failed |-> FALSE]
    /\ latest' = [kind |-> "human"]
    /\ UNCHANGED <<verdicts, run, claim, round, reworks, cut, tip, lane>>

\* The first Run has shipped, its last event is still to come.
Init ==
    /\ pr = [open |-> TRUE, ready |-> TRUE, hold |-> FALSE, blocked |-> FALSE,
             attempts |-> 0, head |-> 1]
    /\ issue = [ready |-> FALSE, assigned |-> TRUE, progress |-> TRUE, failed |-> FALSE]
    /\ verdicts = {}
    /\ latest = [kind |-> "none"]
    /\ run = "shipped"
    /\ claim = Claim("live")
    /\ round = [r \in Reviewer |-> Idle]
    /\ reworks = 0
    /\ cut = FALSE
    /\ left = [decisions |-> MaxDecisions, deaths |-> MaxDeaths,
               cuts |-> MaxCuts, drifts |-> MaxDrifts]
    /\ tip = 0
    /\ drift = Free
    /\ acted = {} /\ notes = {} /\ landed = {} /\ firm = {}

Review(r) == Discover(r) \/ Take(r) \/ (\E kind \in Kind : Judge(r, kind)) \/ Write(r)
Drift ==
    \/ DriftList \/ DriftRead \/ DriftComment \/ DriftNote
    \/ DriftLabel \/ DriftRecord \/ DriftCut
Implement == Resume \/ Push \/ MarkReady \/ Conclude

Next ==
    \/ \E r \in Reviewer : Review(r) \/ NoVerdict(r) \/ CutShort(r)
    \/ Implement \/ EventLost \/ RunFails \/ RunDies
    \/ Silence \/ BundleLands \/ Janitor \/ Drift \/ BlockerMoves
    \/ Merge \/ HandBack \/ Decide

\* A driver that lives goes on, and so does the janitor; nobody else must:
\* neither does a node have to fall silent, nor evidence to land.
Fairness ==
    /\ \A r \in Reviewer : WF_vars(Review(r))
    /\ WF_vars(Implement)
    /\ WF_vars(Janitor)

Spec == Init /\ [][Next]_vars /\ Fairness

-----------------------------------------------------------------------------

\* What a round has with it; what is to be written is what is left of the
\* verdict's writes.
RoundType(r) ==
    \/ round[r] \in {Idle, [at |-> "listed"]}
    \/ round[r] \in [at : {"session"}, round : 1 .. RoundBudget, head : Nat]
    \/ /\ round[r].at = "publish" /\ round[r].verdict \in Verdict
       /\ round[r].todo # <<>> /\ IsSuffix(round[r].todo, Writes(round[r].verdict.kind))

\* The types of what is on GitHub and of the Run, and those of the drift lane.
PullTypes ==
    /\ pr \in [open : BOOLEAN, ready : BOOLEAN, hold : BOOLEAN, blocked : BOOLEAN,
               attempts : 0 .. RoundBudget, head : Nat]
    /\ issue \in [ready : BOOLEAN, assigned : BOOLEAN, progress : BOOLEAN,
                  failed : BOOLEAN]
    /\ verdicts \subseteq Verdict
    /\ latest \in Verdict \cup {[kind |-> "none"], [kind |-> "human"]}
    /\ run \in {"none", "working", "pushed", "shipped", "dead"}
    /\ claim \in [known : {"live", "handled", "ended"}, silent : BOOLEAN,
                  bundle : BOOLEAN]
    /\ reworks \in Nat /\ cut \in BOOLEAN

LaneTypes ==
    /\ tip \in 0 .. MaxDrifts
    /\ \/ drift \in {Free} \cup [at : {"listed"}, blocked : BOOLEAN]
       \/ drift \in [at : {"comment", "note", "label", "record"}, tip : 1 .. MaxDrifts]
    /\ acted \subseteq [tip : 1 .. MaxDrifts, part : {"comment", "act"}]
    /\ firm \subseteq landed /\ landed \subseteq 1 .. MaxDrifts /\ notes \subseteq 1 .. MaxDrifts

\* The type invariant: every variable, whoever acts on the PR.
TypeOK ==
    /\ PullTypes /\ LaneTypes
    /\ \A r \in Reviewer : RoundType(r)
    /\ left \in [Budget -> Nat]

\* The label state dispatch takes for an approval, and on which it starts the
\* dependents of the issue, is only on a PR whose very head a verdict approved.
GoAheadIsApproved ==
    pr.open /\ pr.ready /\ pr.hold /\ ~pr.blocked =>
        \E v \in verdicts : v.kind = "approve" /\ v.head = pr.head

\* However verdicts are cut short, the Reviewer sends an issue back less often
\* than it has rounds, and no Run starts whose work no round is left to judge.
ReworkBounded ==
    /\ reworks < RoundBudget
    /\ issue.ready \/ run = "working" => pr.attempts < RoundBudget

\* An issue is claimable again only once the latest word on its PR is the plan
\* of the next Run: a revise of the head it resumes, counted by its attempt
\* label, or the decision of the human.
PlanOnPR ==
    issue.ready =>
        \/ latest.kind = "human"
        \/ /\ latest.kind = "revise"
           /\ latest.head = pr.head /\ latest.round = pr.attempts

\* The labels other actors go by are backed by what is on the PR
\* (reviewer.py _publish, deps.py).
LabelsAreEarned == TypeOK /\ GoAheadIsApproved /\ PlanOnPR

\* At any time a PR has one writer: while the Reviewer may judge it the issue
\* is not in the pool and no Run works on the branch, and what a round judges
\* is what is there.
OneActor ==
    /\ Reviewable => ~issue.ready /\ run \notin {"working", "pushed"}
    /\ \A r \in Reviewer :
         /\ round[r].at = "session" => round[r].head = pr.head
         /\ round[r].at = "publish" => round[r].verdict.head = pr.head

\* The Reviewer and the Runs take turns on a PR, and boundedly often.
BoundedTurns == OneActor /\ ReworkBounded

\* Nobody will ever act on the PR: no label tells an actor or the human to.
Stranded ==
    /\ pr.open /\ ~Reviewable /\ ~pr.hold
    /\ ~issue.ready /\ ~issue.failed /\ run = "none"
    /\ \A r \in Reviewer : round[r].at \in {"idle", "listed"}

\* A PR falls out of every pool only by a verdict cut between the write that
\* takes it from the Reviewer's and the one that hands it on.
OnlyCutsStrand == Stranded => cut

\* Whatever fails in between, no PR is blocked without the comment that says
\* why: the Reviewer's escalation, or the forensics of the very drift.
BlockIsExplained ==
    /\ landed \subseteq notes
    /\ pr.blocked => landed # {} \/ \E v \in verdicts : v.kind = "escalate"

\* Once a pass of the janitor has ended with its hold on the PR, the human who
\* lifts it has the last word: the same drift never holds the PR again, lost
\* records included.
DriftRuledOnce ==
    drift.at \in {"comment", "note", "label"} => drift.tip \notin firm

\* The holds of the janitor are explained, and a human's answer to one is final
\* (janitor.py _drift_one).
DriftInvariant == BlockIsExplained /\ DriftRuledOnce

\* A Run died and the janitor has nothing to go by: its node or its driver is
\* heard of, or no evidence has landed.
Unswept == run = "dead" /\ ~pr.ready /\ ~(claim.silent /\ claim.bundle)

\* The issue is back in the pool and dispatch passes it over, because no event
\* ended the claim before.
Shadowed == Over /\ issue.ready /\ claim.known # "ended"

\* Rounds and Runs end: a PR always gets to a merge, to the human, out of every
\* pool by a cut verdict, or to a claim that Control takes for live
\* (reviewer.py _publish, janitor.py _sweep_one, dispatch.py).
ReachesHuman ==
    []<>(~pr.open \/ pr.hold \/ issue.failed \/ Stranded \/ Unswept \/ Shadowed)

\* "Restart picks up cleanly (all state on GitHub)": a PR is never left in a
\* state no pass of any actor takes up.
RestartPicksUp == ~Stranded
=============================================================================
