------------------------ MODULE ClaimProtocol_proofs ------------------------
(***************************************************************************)
(* Machine-checked theorems about ClaimProtocol, for every set of issues   *)
(* and drivers and every bound: its type invariant, single ownership, that *)
(* nothing falls through, what GitHub shows until the first fault, and     *)
(* that the protocol implements ClaimOwner.                                *)
(***************************************************************************)
EXTENDS ClaimProtocol, TLAPS

----------------------------------------------------------------------------
(* The type invariant. The lemmas say what the helpers of the actions do   *)
(* to the variables they write; the actions then follow one by one.        *)

(* A spent budget is still a budget.                                       *)
LEMMA SpendType ==
  ASSUME left \in [Budget -> Nat], NEW b \in Budget, Spend(b)
  PROVE  left' \in [Budget -> Nat]
BY DEF Spend, Budget

(* Recording an event keeps the tables it writes well typed.               *)
LEMMA RecordEventType ==
  ASSUME TypeOK, NEW i \in Issue \cup {None}, NEW w \in Worker, NEW r \in Run \cup {0},
         NEW p \in Phase,
         RecordEvent(i, [run |-> r, worker |-> w, phase |-> p])
  PROVE  /\ latest' \in [Issue -> Event]
         /\ grants' \in [Issue -> Worker \cup {None}]
         /\ expired' \subseteq Issue
         /\ health' \in [Worker -> 0 .. QuarantineAfterFailures]
<1>1. /\ latest' \in [Issue -> Event] /\ grants' \in [Issue -> Worker \cup {None}]
      /\ expired' \subseteq Issue
  BY DEF TypeOK, RecordEvent, Event
<1>2. health' \in [Worker -> 0 .. QuarantineAfterFailures]
  BY DEF TypeOK, RecordEvent, QuarantineAfterFailures
<1> QED BY <1>1, <1>2

(* One POST of an event keeps the cache and the fault budgets well typed.  *)
LEMMA EmitType ==
  ASSUME TypeOK, NEW i \in Issue \cup {None}, NEW w \in Worker, NEW r \in Run \cup {0},
         NEW p \in Phase, NEW landed \in BOOLEAN, NEW acked \in BOOLEAN,
         Emit(w, i, r, p, landed, acked)
  PROVE  /\ latest' \in [Issue -> Event]
         /\ grants' \in [Issue -> Worker \cup {None}]
         /\ expired' \subseteq Issue
         /\ health' \in [Worker -> 0 .. QuarantineAfterFailures]
         /\ acted' = acted /\ flagged' = flagged
         /\ left' \in [Budget -> Nat]
<1>1. left' \in [Budget -> Nat]
  BY SpendType DEF TypeOK, Emit, Budget
<1>2. CASE landed
  BY <1>1, <1>2, RecordEventType DEF Emit, RecordEvent
<1>3. CASE ~landed
  BY <1>1, <1>3 DEF Emit, control, TypeOK
<1> QED BY <1>2, <1>3

(* What EmitType promises, for the event of a driver about its own Run.     *)
EmitTyped ==
  /\ latest' \in [Issue -> Event] /\ grants' \in [Issue -> Worker \cup {None}]
  /\ expired' \subseteq Issue /\ health' \in [Worker -> 0 .. QuarantineAfterFailures]
  /\ acted' = acted /\ flagged' = flagged /\ left' \in [Budget -> Nat]

LEMMA OwnEmitType ==
  ASSUME TypeOK, NEW w \in Worker, NEW p \in Phase, NEW landed \in BOOLEAN, NEW acked \in BOOLEAN,
         Emit(w, wk[w].issue, wk[w].run, p, landed, acked)
  PROVE  EmitTyped
<1>1. wk[w].issue \in Issue \cup {None} /\ wk[w].run \in Run \cup {0}
  BY DEF TypeOK, WkState
<1> QED BY <1>1, EmitType DEF EmitTyped

LEMMA DspGotoType ==
  ASSUME TypeOK, NEW loc \in DspPcs, dsp.pc # "free", DspGoto(loc)
  PROVE  /\ dsp' \in DspState /\ (dsp'.pc # "free" => dsp'.worker # None)
         /\ wk' \in [Worker -> WkState]
<1>1. [dsp EXCEPT !.pc = loc] \in DspState
  BY DEF TypeOK, DspState
<1> QED BY <1>1 DEF TypeOK, DspGoto, DspState

LEMMA IdleWkType == IdleWk \in WkState /\ DownWk \in WkState
<1>1. IdleWk \in WkState
  BY DEF IdleWk, WkState, WkPcs, ActivationAttempts, ClaimRunBudget
<1>2. [IdleWk EXCEPT !.pc = "down"] \in WkState
  BY <1>1 DEF WkState, WkPcs
<1> QED BY <1>1, <1>2 DEF DownWk

(* The state in which a driver starts on a granted issue.                  *)
LEMMA ClaimingWkType ==
  ASSUME NEW i \in Issue \cup {None}, NEW r \in Run
  PROVE  ClaimingWk(i, r) \in WkState
BY DEF ClaimingWk, WkState, WkPcs, ActivationAttempts, ClaimRunBudget

LEMMA FreeDspType == FreeDsp \in DspState /\ FreeDsp.pc = "free"
BY DEF FreeDsp, DspState, DspPcs

LEMMA IdleJanType == IdleJan \in JanState /\ IdleJan.pc = "idle"
BY DEF IdleJan, JanState, JanPcs

LEMMA DspAnswerNoneType ==
  ASSUME TypeOK, DspAnswerNone
  PROVE  /\ dsp' \in DspState /\ (dsp'.pc # "free" => dsp'.worker # None)
         /\ wk' \in [Worker -> WkState]
BY FreeDspType, IdleWkType DEF TypeOK, DspAnswerNone

(* A driver moves on, or returns to its loop.                              *)
LEMMA GotoType ==
  ASSUME TypeOK, NEW w \in Worker, NEW loc \in WkPcs, Goto(w, loc)
  PROVE  wk' \in [Worker -> WkState]
<1>1. wk[w] \in WkState
  BY DEF TypeOK
<1>2. [wk[w] EXCEPT !.pc = loc] \in WkState
  BY <1>1 DEF WkState
<1> QED BY <1>2 DEF TypeOK, Goto

LEMMA GoIdleType ==
  ASSUME TypeOK, NEW w \in Worker, GoIdle(w)
  PROVE  wk' \in [Worker -> WkState]
BY IdleWkType DEF TypeOK, GoIdle

LEMMA BreaksType ==
  ASSUME TypeOK, NEW w \in Worker, Breaks(w)
  PROVE  wk' \in [Worker -> WkState]
<1>1. wk[w] \in WkState
  BY DEF TypeOK
<1>2. [wk[w] EXCEPT !.pc = "broken", !.class = "infra"] \in WkState
  BY <1>1 DEF WkState, WkPcs
<1> QED BY <1>2 DEF TypeOK, Breaks

(* The driver's counters after a post, a failed Run.                       *)
LEMMA WkTriesType ==
  ASSUME NEW x \in WkState, NEW p \in WkPcs, NEW t \in 0 .. ActivationAttempts,
         NEW f \in 0 .. ClaimRunBudget
  PROVE  /\ [x EXCEPT !.tries = t] \in WkState
         /\ [x EXCEPT !.pc = p, !.tries = t, !.full = f] \in WkState
BY DEF WkState

LEMMA WkRetryType ==
  ASSUME NEW x \in WkState, NEW p \in WkPcs, NEW r \in Run, NEW c \in BOOLEAN,
         NEW f \in 0 .. ClaimRunBudget
  PROVE  [x EXCEPT !.pc = p, !.run = r, !.completion = c, !.full = f] \in WkState
BY DEF WkState

LEMMA JanGotoType ==
  ASSUME TypeOK, NEW loc \in JanPcs, jan.issue # None, JanGoto(loc)
  PROVE  jan' \in JanState /\ (jan'.pc # "idle" => jan'.issue # None)
<1>1. [jan EXCEPT !.pc = loc] \in JanState
  BY DEF TypeOK, JanState
<1> QED BY <1>1 DEF TypeOK, JanGoto, JanState

LEMMA InitType == Init => TypeOK
<1> SUFFICES ASSUME Init PROVE TypeOK
  OBVIOUS
<1>1. left \in [Budget -> Nat]
  BY ConstantsAssumption DEF Init, Budget
<1> QED BY <1>1, ConstantsAssumption, FreeDspType, IdleJanType, IdleWkType
        DEF Init, TypeOK, Label, Run, Phase, Event, NoEvent, QuarantineAfterFailures

(* A step of the grant pass keeps every variable well typed.               *)
LEMMA DispatchType == TypeOK /\ DispatchStep => TypeOK'
<1> SUFFICES ASSUME TypeOK, DispatchStep PROVE TypeOK'
  OBVIOUS
<1> USE ConstantsAssumption DEF TypeOK, github, control
<1>0. "fault" \in Budget /\ {"reading", "picked", "recorded", "assigned", "labelled", "granted"} \subseteq DspPcs
  BY DEF Budget, DspPcs
<1>1. ASSUME NEW w \in Worker, DispatchRead(w) PROVE TypeOK'
  BY <1>1 DEF DispatchRead, DspState, DspPcs
<1>2. ASSUME NEW w \in Worker, DispatchRefuse(w) PROVE TypeOK'
  BY <1>2, IdleWkType DEF DispatchRefuse
<1>3. ASSUME NEW i \in Issue, DispatchPick(i) PROVE TypeOK'
  BY <1>3 DEF DispatchPick, DspState, DspPcs
<1>4. CASE DispatchNone
  BY <1>0, <1>4, DspAnswerNoneType, SpendType DEF DispatchNone
<1>5. CASE DispatchRecord
  BY <1>0, <1>5, DspGotoType DEF DispatchRecord, RecordGrant, DspState
<1>6. CASE DispatchAssign
  <2>1. assignees' \in [Issue -> SUBSET Worker]
    BY <1>6 DEF DispatchAssign, GitHubCall, DspState
  <2> QED BY <1>0, <1>6, <2>1, DspGotoType, DspAnswerNoneType, SpendType DEF DispatchAssign, GitHubCall
<1>7. CASE DispatchClaim
  <2>1. labels' \in [Issue -> SUBSET Label]
    BY <1>7 DEF DispatchClaim, GitHubCall, Label
  <2> QED BY <1>0, <1>7, <2>1, DspGotoType, DspAnswerNoneType, SpendType DEF DispatchClaim, GitHubCall
<1>8. CASE DispatchUnlabel
  <2>1. labels' \in [Issue -> SUBSET Label]
    BY <1>8 DEF DispatchUnlabel, GitHubCall, Label
  <2> QED BY <1>0, <1>8, <2>1, DspGotoType, DspAnswerNoneType, SpendType DEF DispatchUnlabel, GitHubCall
<1>9. CASE DispatchReply
  <2>1. nextRun' \in 1 .. MaxRun + 1
    BY <1>9 DEF DispatchReply, RoomForClaim, ClaimRunBudget
  <2>2. wk' \in [Worker -> WkState]
    <3>1. CASE ~(dsp.waiting /\ RoomForClaim)
      BY <1>9, <3>1, IdleWkType DEF DispatchReply
    <3>2. CASE dsp.waiting /\ RoomForClaim
      <4>1. nextRun \in Run /\ dsp.issue \in Issue \cup {None}
        BY <3>2 DEF RoomForClaim, ClaimRunBudget, Run, DspState
      <4>2. ClaimingWk(dsp.issue, nextRun) \in WkState
        BY <4>1, ClaimingWkType
      <4> QED BY <1>9, <3>2, <4>2 DEF DispatchReply
    <3> QED BY <3>1, <3>2
  <2> QED BY <1>9, <2>1, <2>2, FreeDspType DEF DispatchReply
<1> QED BY <1>1, <1>2, <1>3, <1>4, <1>5, <1>6, <1>7, <1>8, <1>9 DEF DispatchStep

(* The attempts of a claim: a retry is a Run of its own.                    *)
LEMMA NextAttemptType ==
  ASSUME TypeOK, NEW w \in Worker, NextAttempt(w)
  PROVE  wk' \in [Worker -> WkState] /\ nextRun' \in 1 .. MaxRun + 1
<1>1. wk[w] \in WkState /\ wk[w].full \in 0 .. ClaimRunBudget /\ nextRun \in 1 .. MaxRun + 1
      /\ "escalating" \in WkPcs /\ "relaunching" \in WkPcs
  BY DEF TypeOK, WkState, WkPcs
<1>2. CASE Goto(w, "escalating") /\ UNCHANGED nextRun
  BY <1>1, <1>2, GotoType
<1>3. ASSUME nextRun <= MaxRun, nextRun' = nextRun + 1
      PROVE  nextRun \in Run /\ nextRun' \in 1 .. MaxRun + 1
  BY <1>1, <1>3, ConstantsAssumption DEF Run
<1>4. ASSUME nextRun <= MaxRun, nextRun' = nextRun + 1,
             wk' = [wk EXCEPT ![w].pc = "relaunching", ![w].run = nextRun,
                              ![w].completion = TRUE, ![w].full = @]
      PROVE  wk' \in [Worker -> WkState] /\ nextRun' \in 1 .. MaxRun + 1
  <2>1. [wk[w] EXCEPT !.pc = "relaunching", !.run = nextRun, !.completion = TRUE,
                      !.full = wk[w].full] \in WkState
    BY <1>1, <1>3, <1>4, WkRetryType
  <2> QED BY <1>3, <1>4, <2>1 DEF TypeOK
<1>5. ASSUME nextRun <= MaxRun, nextRun' = nextRun + 1, ~(wk[w].full >= ClaimRunBudget),
             wk' = [wk EXCEPT ![w].pc = "relaunching", ![w].run = nextRun,
                              ![w].completion = FALSE, ![w].full = @ + 1]
      PROVE  wk' \in [Worker -> WkState] /\ nextRun' \in 1 .. MaxRun + 1
  <2>1. wk[w].full + 1 \in 0 .. ClaimRunBudget
    BY <1>1, <1>5 DEF ClaimRunBudget
  <2>2. [wk[w] EXCEPT !.pc = "relaunching", !.run = nextRun, !.completion = FALSE,
                      !.full = wk[w].full + 1] \in WkState
    BY <1>1, <1>3, <1>5, <2>1, WkRetryType
  <2> QED BY <1>3, <1>5, <2>2 DEF TypeOK
<1> QED BY <1>2, <1>4, <1>5, Zenon DEF NextAttempt

(* A step of a driver executing its claim keeps every variable well typed. *)
LEMMA ClaimStepType == TypeOK /\ (\E w \in Worker : ClaimStep(w)) => TypeOK'
<1> SUFFICES ASSUME TypeOK, NEW w \in Worker, ClaimStep(w) PROVE TypeOK'
  OBVIOUS
<1> USE ConstantsAssumption DEF TypeOK, github, control
<1>0. /\ wk[w] \in WkState /\ wk[w].issue \in Issue \cup {None} /\ wk[w].run \in Run \cup {0}
      /\ "fault" \in Budget
      /\ {"running", "relaunching", "shipping", "shipped", "closing", "broken", "failing",
          "escalating", "unassigning", "unlabelling", "announcing"} \subseteq WkPcs
      /\ "claimed" \in Phase /\ "failed" \in Phase /\ "pr-open" \in Phase /\ "escalated" \in Phase
  BY DEF WkState, WkPcs, Budget, Phase
<1>1. CASE EmitClaimed(w)
  <2>1. PICK landed \in BOOLEAN, acked \in BOOLEAN :
          /\ Emit(w, wk[w].issue, wk[w].run, "claimed", landed, acked)
          /\ IF acked THEN wk' = [wk EXCEPT ![w].pc = "running", ![w].tries = 0, ![w].full = 1]
             ELSE IF wk[w].tries > 1 THEN wk' = [wk EXCEPT ![w].tries = @ - 1]
             ELSE GoIdle(w)
    BY <1>1 DEF EmitClaimed
  <2>2. EmitTyped
    BY <1>0, <2>1, OwnEmitType
  <2>3. \A t \in 0 .. ActivationAttempts, f \in 0 .. ClaimRunBudget :
          /\ [wk[w] EXCEPT !.tries = t] \in WkState
          /\ [wk[w] EXCEPT !.pc = "running", !.tries = t, !.full = f] \in WkState
    BY <1>0, WkTriesType
  <2>4. 0 \in 0 .. ActivationAttempts /\ 1 \in 0 .. ClaimRunBudget
        /\ (wk[w].tries > 1 => wk[w].tries - 1 \in 0 .. ActivationAttempts)
    BY <1>0 DEF WkState, ActivationAttempts, ClaimRunBudget
  <2>5. CASE acked
    <3>1. wk' = [wk EXCEPT ![w] = [wk[w] EXCEPT !.pc = "running", !.tries = 0, !.full = 1]]
      BY <2>1, <2>5
    <3> QED BY <1>1, <2>2, <2>3, <2>4, <3>1 DEF EmitClaimed, EmitTyped
  <2>6. CASE ~acked /\ wk[w].tries > 1
    <3>1. wk' = [wk EXCEPT ![w] = [wk[w] EXCEPT !.tries = wk[w].tries - 1]]
      BY <2>1, <2>6
    <3> QED BY <1>1, <2>2, <2>3, <2>4, <2>6, <3>1 DEF EmitClaimed, EmitTyped
  <2>7. CASE ~acked /\ ~(wk[w].tries > 1)
    BY <1>1, <2>1, <2>2, <2>7, GoIdleType DEF EmitClaimed, EmitTyped
  <2> QED BY <2>5, <2>6, <2>7
<1>2. CASE EmitRelaunched(w)
  <2>1. EmitTyped
    BY <1>0, <1>2, OwnEmitType DEF EmitRelaunched
  <2> QED BY <1>0, <1>2, <2>1, GotoType DEF EmitRelaunched, EmitTyped
<1>3. CASE RunFails(w)
  <2>1. \A class \in {"infra", "completion"} :
          [wk[w] EXCEPT !.pc = "broken", !.class = class] \in WkState
    BY <1>0 DEF WkState
  <2>2. PICK class \in {"infra", "completion"} :
          wk' = [wk EXCEPT ![w].pc = "broken", ![w].class = class]
    BY <1>3 DEF RunFails
  <2>3. wk' \in [Worker -> WkState]
    BY <2>1, <2>2
  <2> QED BY <1>3, <2>3 DEF RunFails
<1>4. CASE OpenPr(w)
  <2>1. pr' \in [Issue -> {"none", "open", "pr_ready"}]
    BY <1>4 DEF OpenPr, GitHubCall
  <2> QED BY <1>0, <1>4, <2>1, GotoType, BreaksType, SpendType DEF OpenPr, GitHubCall
<1>5. CASE LabelPr(w)
  <2>1. pr' \in [Issue -> {"none", "open", "pr_ready"}]
    BY <1>5 DEF LabelPr, GitHubCall
  <2> QED BY <1>0, <1>5, <2>1, GotoType, BreaksType, SpendType DEF LabelPr, GitHubCall
<1>6. CASE EmitPrOpen(w)
  <2>1. EmitTyped
    BY <1>0, <1>6, OwnEmitType DEF EmitPrOpen
  <2> QED BY <1>0, <1>6, <2>1, GotoType DEF EmitPrOpen, EmitTyped
<1>7. CASE PushRunEvidence(w)
  <2>1. /\ evidence' \subseteq Run \cup {0} /\ parked' \in [Worker -> SUBSET (Run \cup {0})]
        /\ left' \in [Budget -> Nat]
    BY <1>0, <1>7, SpendType DEF PushRunEvidence, PushBundle
  <2>2. wk' \in [Worker -> WkState]
    BY <1>0, <1>7, GotoType, GoIdleType DEF PushRunEvidence
  <2> QED BY <1>7, <2>1, <2>2 DEF PushRunEvidence
<1>8. CASE EmitFailed(w)
  <2>1. EmitTyped
    BY <1>0, <1>8, OwnEmitType DEF EmitFailed
  <2>2. NextAttempt(w)
    BY <1>8 DEF EmitFailed
  <2>3. wk' \in [Worker -> WkState] /\ nextRun' \in 1 .. MaxRun + 1
    BY <2>2, NextAttemptType
  <2> QED BY <1>8, <2>1, <2>3 DEF EmitFailed, EmitTyped
<1>9. CASE EscalateLabel(w)
  <2>1. labels' \in [Issue -> SUBSET Label]
    BY <1>9 DEF EscalateLabel, GitHubCall, Label
  <2> QED BY <1>0, <1>9, <2>1, GotoType, GoIdleType, SpendType DEF EscalateLabel, GitHubCall
<1>10. CASE EscalateUnassign(w)
  <2>1. assignees' \in [Issue -> SUBSET Worker]
    BY <1>10 DEF EscalateUnassign, GitHubCall, Label
  <2> QED BY <1>0, <1>10, <2>1, GotoType, GoIdleType, SpendType DEF EscalateUnassign, GitHubCall
<1>11. CASE EscalateUnclaim(w)
  <2>1. labels' \in [Issue -> SUBSET Label]
    BY <1>11 DEF EscalateUnclaim, GitHubCall, Label
  <2> QED BY <1>0, <1>11, <2>1, GotoType, GoIdleType, SpendType DEF EscalateUnclaim, GitHubCall
<1>12. CASE EmitEscalated(w)
  <2>1. EmitTyped
    BY <1>0, <1>12, OwnEmitType DEF EmitEscalated
  <2> QED BY <1>0, <1>12, <2>1, GoIdleType DEF EmitEscalated, EmitTyped
<1> QED BY <1>1, <1>2, <1>3, <1>4, <1>5, <1>6, <1>7, <1>8, <1>9, <1>10, <1>11, <1>12
        DEF ClaimStep

(* So does any other step of a driver: its request, its timeout, its boot  *)
(* and its idle sweep.                                                     *)
LEMMA DriverType == TypeOK /\ (\E w \in Worker : DriverStep(w)) => TypeOK'
<1> SUFFICES ASSUME TypeOK, NEW w \in Worker, DriverStep(w) PROVE TypeOK'
  OBVIOUS
<1> USE ConstantsAssumption DEF TypeOK, github, control
<1>0. wk[w] \in WkState /\ "asking" \in WkPcs /\ "fault" \in Budget /\ "lost" \in Budget
  BY DEF WkPcs, Budget
<1>1. CASE ClaimStep(w)
  BY <1>1, ClaimStepType
<1>2. CASE AskWork(w)
  <2>1. Goto(w, "asking")
    BY <1>2 DEF AskWork, Goto
  <2>2. wk' \in [Worker -> WkState]
    BY <1>0, <2>1, GotoType
  <2> QED BY <1>2, <2>2 DEF AskWork
<1>3. CASE AskTimesOut(w)
  <2>1. dsp' \in DspState /\ (dsp'.pc # "free" => dsp'.worker # None)
    BY <1>3 DEF AskTimesOut, DspState
  <2>2. left' \in [Budget -> Nat]
    BY <1>0, <1>3, SpendType DEF AskTimesOut
  <2> QED BY <1>3, <2>1, <2>2, IdleWkType DEF AskTimesOut
<1>4. ASSUME SweepOrphans(w)
      PROVE  /\ evidence' \subseteq Run \cup {0} /\ parked' \in [Worker -> SUBSET (Run \cup {0})]
             /\ left' \in [Budget -> Nat]
  BY <1>0, <1>4, SpendType DEF SweepOrphans
<1>5. CASE IdleSweep(w)
  BY <1>4, <1>5 DEF IdleSweep
<1>6. CASE Boot(w)
  BY <1>4, <1>6, GoIdleType DEF Boot
<1> QED BY <1>1, <1>2, <1>3, <1>5, <1>6 DEF DriverStep

(* The janitor goes to its next write, or ends its pass over the row.      *)
LEMMA JanDoneType ==
  ASSUME JanDone
  PROVE  jan' \in JanState /\ (jan'.pc # "idle" => jan'.issue # None)
BY IdleJanType DEF JanDone

LEMMA JanitorType == TypeOK /\ JanitorStep => TypeOK'
<1> SUFFICES ASSUME TypeOK, JanitorStep PROVE TypeOK'
  OBVIOUS
<1> USE ConstantsAssumption DEF TypeOK, github, control
<1>0. /\ "fault" \in Budget
      /\ {"verify", "evidence", "escalate", "strip", "unlabel", "ledger", "expired", "unassign",
          "unclaim", "requeue", "rerecord"} \subseteq JanPcs
      /\ \A i \in Issue : latest[i].run \in Run \cup {0} /\ latest[i].worker \in Worker \cup {None}
  BY DEF Budget, JanPcs, SweepPcs, UnwindPcs, Event
<1>1. jan.pc # "idle" => jan.issue \in Issue /\ jan.run \in Run \cup {0}
                         /\ jan.worker \in Worker \cup {None}
  BY DEF JanState
<1>2. ASSUME NEW i \in Issue, SweepClear(i) PROVE TypeOK'
  BY <1>2 DEF SweepClear, Unflag
<1>3. ASSUME NEW i \in Issue, SweepFlag(i) PROVE TypeOK'
  <2>1. [IdleJan EXCEPT !.pc = "verify", !.issue = i, !.run = LiveRun(i),
                        !.worker = latest[i].worker] \in JanState
    BY <1>0 DEF IdleJan, JanState, LiveRun
  <2>2. jan' \in JanState /\ jan'.issue = i
    BY <1>3, <2>1 DEF SweepFlag, IdleJan
  <2>3. flagged' \subseteq Issue \X (Run \cup {0})
    BY <1>0, <1>3 DEF SweepFlag, LiveRun
  <2> QED BY <1>3, <2>2, <2>3 DEF SweepFlag
<1>4. ASSUME NEW i \in Issue, ReleaseLook(i) PROVE TypeOK'
  <2>1. Live(i) \in BOOLEAN
    BY DEF Live
  <2>2. [IdleJan EXCEPT !.pc = "expired", !.issue = i, !.worker = grants[i],
                        !.live = Live(i)] \in JanState
    BY <1>0, <2>1 DEF IdleJan, JanState
  <2>3. jan' \in JanState /\ jan'.issue = i
    BY <1>4, <2>2 DEF ReleaseLook, IdleJan
  <2> QED BY <1>4, <2>3 DEF ReleaseLook
<1>5. CASE SweepVerify
  <2>1. ASSUME jan' = [jan EXCEPT !.pc = "evidence", !.logins = assignees[jan.issue]],
               jan.pc # "idle"
        PROVE  jan' \in JanState /\ jan'.issue # None
    <3>1. [jan EXCEPT !.pc = "evidence", !.logins = assignees[jan.issue]] \in JanState
      BY <1>0, <1>1, <2>1 DEF JanState
    <3> QED BY <2>1, <3>1 DEF JanState
  <2>2. left' \in [Budget -> Nat]
    BY <1>0, <1>5, SpendType DEF SweepVerify
  <2>3. jan' \in JanState /\ (jan'.pc # "idle" => jan'.issue # None)
    BY <1>5, <2>1, JanDoneType DEF SweepVerify
  <2>4. acted' \subseteq Issue \X (Run \cup {0}) /\ flagged' \subseteq Issue \X (Run \cup {0})
    BY <1>1, <1>5 DEF SweepVerify, Acted, Unflag
  <2> QED BY <1>5, <2>2, <2>3, <2>4 DEF SweepVerify
<1>6. CASE SweepEvidence
  BY <1>0, <1>6, JanGotoType, JanDoneType, SpendType DEF SweepEvidence
<1>7. CASE SweepLabel
  <2>1. labels' \in [Issue -> SUBSET Label]
    BY <1>7 DEF SweepLabel, GitHubCall, Label
  <2> QED BY <1>0, <1>7, <2>1, JanGotoType, JanDoneType, SpendType DEF SweepLabel, GitHubCall
<1>9. CASE SweepStrip
  <2>1. assignees' \in [Issue -> SUBSET Worker] /\ left' \in [Budget -> Nat]
    BY <1>0, <1>9, SpendType DEF SweepStrip, StripAssignees
  <2>2. jan' \in JanState /\ (jan'.pc # "idle" => jan'.issue # None)
    BY <1>0, <1>9, JanGotoType, JanDoneType DEF SweepStrip, StripAssignees
  <2> QED BY <1>9, <2>1, <2>2 DEF SweepStrip
<1>10. CASE SweepUnlabel
  <2>1. labels' \in [Issue -> SUBSET Label]
    BY <1>10 DEF SweepUnlabel, GitHubCall, Label
  <2> QED BY <1>0, <1>10, <2>1, JanGotoType, JanDoneType, SpendType DEF SweepUnlabel, GitHubCall
<1>11. CASE SweepLedger
  <2>1. acted' \subseteq Issue \X (Run \cup {0}) /\ flagged' \subseteq Issue \X (Run \cup {0})
    BY <1>1, <1>11 DEF SweepLedger, Acted, Unflag
  <2> QED BY <1>11, <2>1, JanDoneType DEF SweepLedger
<1>12. CASE ReleaseRow
  <2>1. jan' \in JanState /\ (jan'.pc # "idle" => jan'.issue # None)
    BY <1>0, <1>12, JanGotoType, JanDoneType DEF ReleaseRow
  <2> QED BY <1>12, <2>1 DEF ReleaseRow, ReleaseGrant
<1>13. CASE UnwindAssignees
  <2>1. assignees' \in [Issue -> SUBSET Worker] /\ left' \in [Budget -> Nat]
    BY <1>0, <1>1, <1>13, SpendType DEF UnwindAssignees, StripAssignees
  <2>2. jan' \in JanState /\ (jan'.pc # "idle" => jan'.issue # None)
    BY <1>0, <1>13, JanGotoType DEF UnwindAssignees, StripAssignees
  <2> QED BY <1>13, <2>1, <2>2 DEF UnwindAssignees
<1>14. CASE UnwindInProgress
  <2>1. labels' \in [Issue -> SUBSET Label]
    BY <1>14 DEF UnwindInProgress, GitHubCall, Label
  <2> QED BY <1>0, <1>14, <2>1, JanGotoType, SpendType DEF UnwindInProgress, GitHubCall
<1>15. CASE UnwindRequeue
  <2>1. labels' \in [Issue -> SUBSET Label]
    BY <1>15 DEF UnwindRequeue, GitHubCall, Label
  <2> QED BY <1>0, <1>15, <2>1, JanGotoType, JanDoneType, SpendType DEF UnwindRequeue, GitHubCall
<1>16. CASE Rerecord
  BY <1>1, <1>16, JanDoneType DEF Rerecord, RecordGrant
<1> QED BY <1>2, <1>3, <1>4, <1>5, <1>6, <1>7, <1>9, <1>10, <1>11, <1>12, <1>13, <1>14, <1>15,
           <1>16 DEF JanitorStep, SweepStep, ReleaseStep

(* And so does everything that surrounds the protocol.                     *)
LEMMA EnvironmentType == TypeOK /\ Environment => TypeOK'
<1> SUFFICES ASSUME TypeOK, Environment PROVE TypeOK'
  OBVIOUS
<1> USE ConstantsAssumption DEF TypeOK, github, control
<1>0. {"crash", "control", "cut"} \subseteq Budget
  BY DEF Budget
<1>1. ASSUME NEW w \in Worker, DriverDies(w) PROVE TypeOK'
  <2>1. parked' \in [Worker -> SUBSET (Run \cup {0})]
    BY <1>1 DEF DriverDies, WkState
  <2>2. dsp' \in DspState /\ (dsp'.pc # "free" => dsp'.worker # None)
    BY <1>1 DEF DriverDies, DspState
  <2>3. left' \in [Budget -> Nat] /\ link' \in [Worker -> BOOLEAN]
    BY <1>0, <1>1, SpendType DEF DriverDies
  <2> QED BY <1>1, <2>1, <2>2, <2>3, IdleWkType DEF DriverDies
<1>2. ASSUME NEW w \in Worker, CutLink(w) PROVE TypeOK'
  BY <1>0, <1>2, SpendType DEF CutLink
<1>3. ASSUME NEW w \in Worker, GraceElapses(w) PROVE TypeOK'
  BY <1>3 DEF GraceElapses
<1>4. ASSUME NEW w \in Worker, Heal(w) PROVE TypeOK'
  BY <1>4 DEF Heal
<1>5. ASSUME NEW w \in Worker, Unquarantine(w) PROVE TypeOK'
  BY <1>5 DEF Unquarantine, QuarantineAfterFailures
<1>6. ASSUME NEW i \in Issue, WindowElapses(i) PROVE TypeOK'
  BY <1>6 DEF WindowElapses
<1>7. ASSUME NEW i \in Issue, HumanRequeue(i) PROVE TypeOK'
  BY <1>7 DEF HumanRequeue, Label
<1>8. ASSUME NEW i \in Issue, Revise(i) PROVE TypeOK'
  BY <1>8 DEF Revise, Label
<1>9. CASE ControlCrash
  <2>1. wk' \in [Worker -> WkState]
    BY <1>9, IdleWkType DEF ControlCrash
  <2> QED BY <1>0, <1>9, <2>1, SpendType, FreeDspType, IdleJanType DEF ControlCrash
<1> QED BY <1>1, <1>2, <1>3, <1>4, <1>5, <1>6, <1>7, <1>8, <1>9 DEF Environment

(* Every variable stays in its type: a Run never exceeds its attempts, a   *)
(* claim never more than CLAIM_RUN_BUDGET full Runs (execute_claim), a     *)
(* node never counts past the quarantine latch (_bump_failures).           *)
THEOREM TypeCorrect == Spec => []TypeOK
<1>1. TypeOK /\ UNCHANGED vars => TypeOK'
  BY DEF TypeOK, vars
<1>2. TypeOK /\ [Next]_vars => TypeOK'
  BY <1>1, DispatchType, DriverType, JanitorType, EnvironmentType DEF Next
<1> QED BY InitType, <1>2, PTL DEF Spec

----------------------------------------------------------------------------
(* Single ownership. Most steps are quiet: they change neither the cache's *)
(* rows and events, nor who holds what but to let go. KeepsOrLetsGo,       *)
(* PassYields and JanitorYields say so of the three kinds of threads.      *)

Granting == {"recorded", "assigned", "labelled", "granted"}

KeepsOrLetsGo(v) ==
  /\ wk'[v].pc = "claiming" => wk[v].pc = "claiming" /\ wk'[v].issue = wk[v].issue
  /\ wk'[v].pc \in ActivatedPcs =>
       /\ wk[v].pc \in ActivatedPcs /\ wk'[v].issue = wk[v].issue
       /\ jan.pc = "expired" /\ jan.issue = wk[v].issue /\ wk[v].pc = "running"
            => wk'[v].pc = "running"

PassYields ==
  /\ dsp'.open \subseteq dsp.open
  /\ dsp'.waiting => dsp.waiting
  /\ dsp'.pc \notin {"free", "reading"} =>
       dsp.pc \notin {"free", "reading"} /\ dsp'.issue = dsp.issue /\ dsp'.open = dsp.open
  /\ dsp'.pc \in Granting => dsp.pc \in Granting

JanitorYields ==
  /\ jan'.pc = "expired" => jan' = jan
  /\ jan'.pc \in UnwindPcs => jan.pc \in UnwindPcs /\ jan'.worker = jan.worker

(* A step after which everyone holds what it held, or less.                *)
LEMMA QuietStep ==
  ASSUME TypeOK, OwnershipInvariant, UNCHANGED <<grants, expired, latest>>,
         PassYields, JanitorYields, \A v \in Worker : KeepsOrLetsGo(v)
  PROVE  OwnershipInvariant'
<1> USE DEF OwnershipInvariant
<1>1. \A i \in Issue, v \in Worker :
        /\ Claiming(v, i)' => Claiming(v, i)
        /\ Activated(v, i)' => Activated(v, i)
        /\ Holds(v, i)' => Holds(v, i)
        /\ Live(i)' = Live(i)
  BY DEF KeepsOrLetsGo, Claiming, Activated, Holds, Live
<1>2. ExpiredRowsAreStale'
  BY <1>1 DEF ExpiredRowsAreStale, PassYields, TypeOK
<1>3. HoldersAreKnown'
  BY <1>1 DEF HoldersAreKnown
<1>4. PassIsExclusive'
  <2>1. dsp'.open \subseteq Issue
    BY DEF PassYields, TypeOK, DspState
  <2> QED BY <1>1, <2>1 DEF PassIsExclusive, PassYields, Granting
<1>5. LookIsStale'
  <2> SUFFICES ASSUME jan'.pc = "expired" PROVE LookIsStale'
    BY DEF LookIsStale
  <2>1. jan' = jan /\ jan.issue \in Issue
    BY DEF JanitorYields, TypeOK, JanState
  <2>2. \A v \in Worker : grants[jan.issue] = None /\ Activated(v, jan.issue)'
          => wk'[v].pc = "running"
    BY <2>1 DEF LookIsStale, KeepsOrLetsGo, Activated
  <2>3. \A v \in Worker : ~Claiming(v, jan.issue)'
    BY <2>1 DEF LookIsStale, KeepsOrLetsGo, Claiming
  <2> QED BY <2>1, <2>2, <2>3 DEF LookIsStale, PassYields, Live, Activated, Claiming
<1>6. ReleasedRowIsKnown'
  BY DEF ReleasedRowIsKnown, JanitorYields
<1>7. SingleOwner'
  BY <1>1 DEF SingleOwner
<1> QED BY <1>2, <1>3, <1>4, <1>5, <1>6, <1>7

(* Steps that leave the drivers alone, or send one back to its loop.       *)
LEMMA AllKeep ==
  ASSUME TypeOK, UNCHANGED wk
  PROVE  \A v \in Worker : KeepsOrLetsGo(v)
BY DEF KeepsOrLetsGo

LEMMA OneGoesIdle ==
  ASSUME TypeOK, NEW w, NEW x \in {IdleWk, DownWk}, wk' = [wk EXCEPT ![w] = x]
  PROVE  \A v \in Worker : KeepsOrLetsGo(v)
<1>1. IdleWk.pc = "idle" /\ DownWk.pc = "down"
  BY DEF IdleWk, DownWk
<1>2. \A v \in Worker : wk'[v] = wk[v] \/ wk'[v].pc \in {"idle", "down"}
  BY <1>1 DEF TypeOK
<1> QED BY <1>2 DEF KeepsOrLetsGo, ActivatedPcs

LEMMA JanitorStays == UNCHANGED jan => JanitorYields
BY DEF JanitorYields

LEMMA PassStays == UNCHANGED dsp => PassYields
BY DEF PassYields

LEMMA PassEnds == dsp' = FreeDsp => PassYields
BY DEF PassYields, FreeDsp, Granting

LEMMA PassGoesOn ==
  ASSUME TypeOK, dsp.pc \in Granting, NEW loc \in Granting, DspGoto(loc)
  PROVE  PassYields
BY DEF PassYields, DspGoto, TypeOK, DspState, Granting

LEMMA PassAnswersNone ==
  ASSUME TypeOK, DspAnswerNone
  PROVE  PassYields /\ \A v \in Worker : KeepsOrLetsGo(v)
BY AllKeep, OneGoesIdle, PassEnds DEF DspAnswerNone

(* The pass reads the issues without a row and without a live claim: those *)
(* nobody holds, by HoldersAreKnown.                                       *)
LEMMA ReadOwnership ==
  ASSUME TypeOK, OwnershipInvariant, NEW w \in Worker, DispatchRead(w)
  PROVE  OwnershipInvariant'
<1> USE DEF OwnershipInvariant, DispatchRead, control
<1>1. /\ dsp'.open = {i \in Issue : grants[i] = None /\ ~Live(i)} /\ dsp'.pc = "reading"
      /\ UNCHANGED <<grants, expired, latest, wk, jan>>
  OBVIOUS
<1>2. \A i \in Issue, v \in Worker :
        /\ Claiming(v, i)' = Claiming(v, i) /\ Activated(v, i)' = Activated(v, i)
        /\ Holds(v, i)' = Holds(v, i) /\ Live(i)' = Live(i)
  BY <1>1 DEF Claiming, Activated, Holds, Live
<1>3. ExpiredRowsAreStale'
  BY <1>1, <1>2 DEF ExpiredRowsAreStale, TypeOK
<1>4. HoldersAreKnown'
  BY <1>1, <1>2 DEF HoldersAreKnown
<1>5. PassIsExclusive'
  BY <1>1, <1>2 DEF PassIsExclusive, HoldersAreKnown, Holds
<1>6. LookIsStale'
  BY <1>1 DEF LookIsStale, Live, Activated, Claiming
<1>7. ReleasedRowIsKnown'
  BY <1>1 DEF ReleasedRowIsKnown
<1>8. SingleOwner'
  BY <1>2 DEF SingleOwner
<1> QED BY <1>3, <1>4, <1>5, <1>6, <1>7, <1>8

LEMMA PickOwnership ==
  ASSUME TypeOK, OwnershipInvariant, NEW i \in Issue, DispatchPick(i)
  PROVE  OwnershipInvariant'
<1> USE DEF OwnershipInvariant, DispatchPick, control
<1>1. /\ dsp' = [dsp EXCEPT !.pc = "picked", !.issue = i, !.open = {i}] /\ i \in dsp.open
      /\ UNCHANGED <<grants, expired, latest, wk, jan>>
  BY DEF Grantable
<1>2. dsp'.pc = "picked" /\ dsp'.issue = i /\ dsp'.open = {i} /\ dsp'.waiting = dsp.waiting
  BY <1>1 DEF TypeOK, DspState
<1>3. \A j \in Issue, v \in Worker :
        /\ Claiming(v, j)' = Claiming(v, j) /\ Activated(v, j)' = Activated(v, j)
        /\ Holds(v, j)' = Holds(v, j) /\ Live(j)' = Live(j)
  BY <1>1 DEF Claiming, Activated, Holds, Live
<1>4. ExpiredRowsAreStale'
  BY <1>1, <1>2, <1>3 DEF ExpiredRowsAreStale, TypeOK
<1>5. HoldersAreKnown'
  BY <1>1, <1>3 DEF HoldersAreKnown
<1>6. PassIsExclusive'
  BY <1>1, <1>2, <1>3 DEF PassIsExclusive
<1>7. LookIsStale'
  BY <1>1, <1>2 DEF LookIsStale, Live, Activated, Claiming
<1>8. ReleasedRowIsKnown'
  BY <1>1 DEF ReleasedRowIsKnown
<1>9. SingleOwner'
  BY <1>3 DEF SingleOwner
<1> QED BY <1>4, <1>5, <1>6, <1>7, <1>8, <1>9

(* The row lands while the issue is nobody's.                              *)
LEMMA RecordOwnership ==
  ASSUME TypeOK, OwnershipInvariant, DispatchRecord
  PROVE  OwnershipInvariant'
<1> USE DEF OwnershipInvariant, DispatchRecord, RecordGrant, DspGoto
<1>1. /\ dsp.pc = "picked" /\ dsp.issue \in Issue /\ dsp.open = {dsp.issue}
      /\ dsp.worker # None /\ UNCHANGED <<latest, wk, jan>>
  BY DEF PassIsExclusive, TypeOK
<1>2. dsp'.issue = dsp.issue /\ dsp'.open = dsp.open /\ dsp'.waiting = dsp.waiting
  BY DEF TypeOK, DspState
<1>3. /\ grants'[dsp.issue] # None /\ \A i \in Issue : grants[i] # None => grants'[i] # None
      /\ expired' = expired \ {dsp.issue}
  BY <1>1 DEF TypeOK
<1>4. \A j \in Issue, v \in Worker :
        /\ Claiming(v, j)' = Claiming(v, j) /\ Activated(v, j)' = Activated(v, j)
        /\ Holds(v, j)' = Holds(v, j) /\ Live(j)' = Live(j)
  BY <1>1 DEF Claiming, Activated, Holds, Live
<1>5. ExpiredRowsAreStale'
  BY <1>2, <1>3, <1>4 DEF ExpiredRowsAreStale, TypeOK
<1>6. HoldersAreKnown'
  BY <1>3, <1>4 DEF HoldersAreKnown
<1>7. PassIsExclusive'
  BY <1>1, <1>2, <1>3, <1>4 DEF PassIsExclusive
<1>8. LookIsStale'
  BY <1>1, <1>2, <1>3 DEF LookIsStale, Live, Activated, Claiming, TypeOK, JanState
<1>9. ReleasedRowIsKnown'
  BY <1>1 DEF ReleasedRowIsKnown
<1>10. SingleOwner'
  BY <1>4 DEF SingleOwner
<1> QED BY <1>5, <1>6, <1>7, <1>8, <1>9, <1>10

(* A driver that still listens takes an issue that has its row and that    *)
(* nobody holds.                                                           *)
LEMMA ReplyOwnership ==
  ASSUME TypeOK, OwnershipInvariant, DispatchReply
  PROVE  OwnershipInvariant'
<1>1. CASE ~(dsp.waiting /\ RoomForClaim)
  <2>1. \A v \in Worker : KeepsOrLetsGo(v)
    BY <1>1, AllKeep, OneGoesIdle DEF DispatchReply
  <2> QED BY <2>1, PassEnds, JanitorStays, QuietStep DEF DispatchReply, control
<1>2. CASE dsp.waiting /\ RoomForClaim
  <2> DEFINE i == dsp.issue
             w == dsp.worker
  <2> USE DEF OwnershipInvariant
  <2>1. /\ i \in Issue /\ w \in Worker /\ i \in dsp.open /\ grants[i] # None
        /\ \A v \in Worker : ~Holds(v, i)
    BY <1>2 DEF DispatchReply, PassIsExclusive, TypeOK, DspState
  <2>2. /\ UNCHANGED <<grants, expired, latest, jan>> /\ dsp' = FreeDsp
        /\ wk' = [wk EXCEPT ![w] = ClaimingWk(i, nextRun)]
    BY <1>2 DEF DispatchReply, control
  <2>3. /\ wk'[w].pc = "claiming" /\ wk'[w].issue = i
        /\ \A v \in Worker \ {w} : wk'[v] = wk[v]
    BY <2>1, <2>2 DEF ClaimingWk, TypeOK
  <2>4. \A j \in Issue, v \in Worker :
          /\ Claiming(v, j)' => Claiming(v, j) \/ (v = w /\ j = i)
          /\ Activated(v, j)' => Activated(v, j)
          /\ Live(j)' = Live(j)
    BY <2>2, <2>3 DEF Claiming, Activated, Live, ActivatedPcs
  <2>5. ExpiredRowsAreStale'
    BY <1>2, <2>1, <2>2, <2>4 DEF ExpiredRowsAreStale, TypeOK, FreeDsp
  <2>6. HoldersAreKnown'
    BY <2>1, <2>2, <2>4 DEF HoldersAreKnown
  <2>7. PassIsExclusive'
    BY <2>2 DEF PassIsExclusive, FreeDsp
  <2>8. LookIsStale'
    <3>1. jan.pc = "expired" => jan.issue \in Issue /\ jan.issue # i
      BY <1>2, <2>1 DEF LookIsStale, TypeOK, JanState
    <3>2. \A v \in Worker : jan.pc = "expired" /\ Activated(v, jan.issue)'
            => wk'[v].pc = wk[v].pc /\ Activated(v, jan.issue)
      BY <2>2, <2>3, <3>1 DEF Activated, ActivatedPcs
    <3>3. \A v \in Worker : jan.pc = "expired" => ~Claiming(v, jan.issue)'
      BY <2>2, <2>3, <3>1 DEF LookIsStale, Claiming
    <3> QED BY <2>2, <3>1, <3>2, <3>3 DEF LookIsStale, FreeDsp, Live, Activated, Claiming
  <2>9. ReleasedRowIsKnown'
    BY <2>2 DEF ReleasedRowIsKnown
  <2>10. SingleOwner'
    BY <2>1, <2>4 DEF SingleOwner, Holds
  <2> QED BY <2>5, <2>6, <2>7, <2>8, <2>9, <2>10
<1> QED BY <1>1, <1>2

LEMMA DispatchOwnership == TypeOK /\ OwnershipInvariant /\ DispatchStep => OwnershipInvariant'
<1> SUFFICES ASSUME TypeOK, OwnershipInvariant, DispatchStep PROVE OwnershipInvariant'
  OBVIOUS
<1> USE DEF control
<1>1. ASSUME NEW w \in Worker, DispatchRefuse(w) PROVE OwnershipInvariant'
  BY <1>1, QuietStep, OneGoesIdle, PassStays, JanitorStays DEF DispatchRefuse
<1>2. CASE DispatchNone
  BY <1>2, QuietStep, PassAnswersNone, JanitorStays DEF DispatchNone
<1>3. ASSUME dsp.pc \in Granting, UNCHANGED <<control, jan>>,
             DspAnswerNone \/ \E loc \in Granting : DspGoto(loc)
      PROVE  OwnershipInvariant'
  <2>1. CASE DspAnswerNone
    BY <1>3, <2>1, QuietStep, PassAnswersNone, JanitorStays
  <2>2. ASSUME NEW loc \in Granting, DspGoto(loc) PROVE OwnershipInvariant'
    BY <1>3, <2>2, QuietStep, PassGoesOn, AllKeep, JanitorStays DEF DspGoto
  <2> QED BY <1>3, <2>1, <2>2
<1>4. CASE DispatchAssign
  BY <1>3, <1>4 DEF DispatchAssign, GitHubCall, Granting
<1>5. CASE DispatchClaim
  BY <1>3, <1>5 DEF DispatchClaim, GitHubCall, Granting
<1>6. CASE DispatchUnlabel
  BY <1>3, <1>6 DEF DispatchUnlabel, GitHubCall, Granting
<1> QED BY <1>1, <1>2, <1>4, <1>5, <1>6, ReadOwnership, PickOwnership, RecordOwnership,
           ReplyOwnership DEF DispatchStep

(* What one POST of an event does to the rows and the events, issue by     *)
(* issue.                                                                  *)
LEMMA ClaimedEffect ==
  ASSUME TypeOK, NEW w \in Worker, NEW i \in Issue \cup {None}, NEW r,
         NEW landed \in BOOLEAN, NEW acked \in BOOLEAN, Emit(w, i, r, "claimed", landed, acked)
  PROVE  /\ acked => landed
         /\ \A j \in Issue :
              /\ ~(landed /\ j = i) => latest'[j] = latest[j] /\ grants'[j] = grants[j]
              /\ landed /\ j = i => latest'[j].phase = "claimed" /\ grants'[j] = None
         /\ expired' \subseteq expired
         /\ landed => i \notin expired'
<1>1. CASE landed
  BY <1>1 DEF Emit, RecordEvent, TypeOK
<1>2. CASE ~landed
  BY <1>2 DEF Emit, control
<1> QED BY <1>1, <1>2

LEMMA OtherEffect ==
  ASSUME TypeOK, NEW w \in Worker, NEW i \in Issue \cup {None}, NEW r, NEW p, p # "claimed",
         NEW landed \in BOOLEAN, NEW acked \in BOOLEAN, Emit(w, i, r, p, landed, acked)
  PROVE  /\ \A j \in Issue :
              /\ ~(landed /\ j = i) => latest'[j] = latest[j]
              /\ landed /\ j = i => latest'[j].phase = p
              /\ grants'[j] = grants[j]
         /\ expired' \subseteq expired
<1>1. CASE landed
  BY <1>1 DEF Emit, RecordEvent, TypeOK
<1>2. CASE ~landed
  BY <1>2 DEF Emit, control
<1> QED BY <1>1, <1>2

(* A claimed event retires the row of the claim it makes live, and nobody  *)
(* else holds that issue.                                                  *)
LEMMA ClaimedEventOwnership ==
  ASSUME TypeOK, OwnershipInvariant, NEW w \in Worker, NEW landed \in BOOLEAN,
         NEW acked \in BOOLEAN,
         Emit(w, wk[w].issue, wk[w].run, "claimed", landed, acked),
         wk[w].pc \in {"claiming", "relaunching"}, UNCHANGED <<dsp, jan>>,
         \A v \in Worker \ {w} : wk'[v] = wk[v],
         wk'[w].pc \in {"claiming", "running", "idle"},
         wk'[w].pc = "claiming" => wk[w].pc = "claiming" /\ wk'[w].issue = wk[w].issue,
         wk'[w].pc = "running" => (landed \/ wk[w].pc = "relaunching") /\ wk'[w].issue = wk[w].issue
  PROVE  OwnershipInvariant'
<1> USE DEF OwnershipInvariant
<1> DEFINE i == wk[w].issue
<1>0. i \in Issue \cup {None} /\ wk[w].run \in Run \cup {0} /\ (wk[w].pc = "relaunching" => wk[w].pc \in ActivatedPcs)
  BY DEF TypeOK, WkState, ActivatedPcs
<1>1. /\ acked => landed
      /\ \A j \in Issue :
           /\ ~(landed /\ j = i) => latest'[j] = latest[j] /\ grants'[j] = grants[j]
           /\ landed /\ j = i => latest'[j].phase = "claimed" /\ grants'[j] = None
      /\ expired' \subseteq expired
      /\ landed => i \notin expired'
  BY <1>0, ClaimedEffect
<1>2. \A j \in Issue : Holds(w, j) <=> j = i
  BY <1>0 DEF Holds, Activated, Claiming
<1>3. \A j \in Issue, v \in Worker :
        /\ Claiming(v, j)' => Claiming(v, j)
        /\ Activated(v, j)' => Activated(v, j) \/ (v = w /\ j = i /\ landed)
        /\ Holds(v, j)' => Holds(v, j)
  BY <1>0 DEF Claiming, Activated, Holds, ActivatedPcs
<1>4. \A j \in Issue : /\ ~(landed /\ j = i) => Live(j)' = Live(j)
                       /\ landed /\ j = i => Live(j)'
  BY <1>1 DEF Live, LiveRunPhases
<1>5. ExpiredRowsAreStale'
  BY <1>1, <1>3 DEF ExpiredRowsAreStale, TypeOK
<1>6. HoldersAreKnown'
  BY <1>1, <1>2, <1>3, <1>4 DEF HoldersAreKnown
<1>7. PassIsExclusive'
  <2>1. dsp.open \subseteq Issue
    BY DEF TypeOK, DspState
  <2> QED BY <1>1, <1>2, <1>3, <2>1 DEF PassIsExclusive
<1>8. LookIsStale'
  <2> SUFFICES ASSUME jan.pc = "expired" PROVE LookIsStale'
    BY DEF LookIsStale
  <2> DEFINE k == jan.issue
  <2>1. k \in Issue
    BY DEF TypeOK, JanState
  <2>2. \A v \in Worker : ~Claiming(v, k)' /\ ~(dsp.waiting /\ k \in dsp.open)
    BY <1>3, <2>1 DEF LookIsStale, Claiming
  <2>3. ASSUME grants'[k] = None
        PROVE  Live(k)' /\ \A v \in Worker : Activated(v, k)' => wk'[v].pc = "running"
    <3>1. CASE landed /\ k = i
      <4>1. \A v \in Worker : Activated(v, k)' => v = w
        BY <1>2, <1>3, <2>1, <3>1 DEF SingleOwner, Holds
      <4>2. \A v \in Worker : Activated(v, k)' => wk'[v].pc = "running"
        BY <4>1 DEF Activated, ActivatedPcs
      <4> QED BY <1>4, <2>1, <3>1, <4>2
    <3>2. CASE ~(landed /\ k = i)
      <4>1. grants[k] = None /\ Live(k)'
        BY <1>1, <1>4, <2>1, <2>3, <3>2 DEF LookIsStale
      <4>2. k # i
        BY <1>0, <2>1, <4>1 DEF LookIsStale, Activated, Claiming
      <4> QED BY <1>2, <1>3, <2>1, <4>1, <4>2 DEF LookIsStale, Activated, Holds
    <3> QED BY <3>1, <3>2
  <2> QED BY <2>2, <2>3 DEF LookIsStale, Live, Claiming, Activated
<1>9. ReleasedRowIsKnown'
  BY DEF ReleasedRowIsKnown
<1>10. SingleOwner'
  BY <1>3 DEF SingleOwner
<1> QED BY <1>5, <1>6, <1>7, <1>8, <1>9, <1>10

(* Any other event leaves the rows alone; it comes from the one holder of  *)
(* its issue, who lets go of it if the event is terminal.                  *)
LEMMA OtherEventOwnership ==
  ASSUME TypeOK, OwnershipInvariant, NEW w \in Worker, NEW landed \in BOOLEAN,
         NEW acked \in BOOLEAN, NEW p \in {"failed", "pr-open", "escalated"},
         Emit(w, wk[w].issue, wk[w].run, p, landed, acked),
         wk[w].pc \in {"failing", "shipped", "announcing"}, UNCHANGED <<dsp, jan>>,
         \A v \in Worker \ {w} : wk'[v] = wk[v],
         wk'[w].pc # "claiming",
         wk'[w].pc \in ActivatedPcs => p = "failed" /\ wk'[w].issue = wk[w].issue
  PROVE  OwnershipInvariant'
<1> USE DEF OwnershipInvariant
<1> DEFINE i == wk[w].issue
<1>0. i \in Issue \cup {None} /\ wk[w].run \in Run \cup {0} /\ wk[w].pc \in ActivatedPcs
  BY DEF TypeOK, WkState, ActivatedPcs
<1>1. /\ \A j \in Issue :
           /\ ~(landed /\ j = i) => latest'[j] = latest[j]
           /\ landed /\ j = i => latest'[j].phase = p
           /\ grants'[j] = grants[j]
      /\ expired' \subseteq expired
  <2>1. p # "claimed"
    OBVIOUS
  <2> QED BY <1>0, <2>1, OtherEffect
<1>2. \A j \in Issue : Activated(w, j) <=> j = i
  BY <1>0 DEF Activated
<1>3. \A j \in Issue, v \in Worker :
        /\ Claiming(v, j)' => Claiming(v, j)
        /\ Activated(v, j)' => Activated(v, j) /\ (v = w => p = "failed")
        /\ Holds(v, j)' => Holds(v, j)
  BY <1>0 DEF Claiming, Activated, Holds
<1>4. \A j \in Issue : /\ j # i => Live(j)' = Live(j)
                       /\ p = "failed" /\ Live(j) => Live(j)'
  BY <1>1 DEF Live, LiveRunPhases
<1>5. ExpiredRowsAreStale'
  BY <1>1, <1>3 DEF ExpiredRowsAreStale, TypeOK
<1>6. HoldersAreKnown'
  <2>1. ASSUME NEW j \in Issue, NEW v \in Worker, Holds(v, j)' PROVE Live(j) => Live(j)'
    <3>1. CASE j = i
      BY <1>2, <1>3, <1>4, <2>1, <3>1 DEF SingleOwner, Holds, Claiming
    <3>2. CASE j # i
      BY <1>4, <3>2
    <3> QED BY <3>1, <3>2
  <2> QED BY <1>1, <1>3, <2>1 DEF HoldersAreKnown, Holds
<1>7. PassIsExclusive'
  <2>1. dsp.open \subseteq Issue
    BY DEF TypeOK, DspState
  <2> QED BY <1>1, <1>3, <2>1 DEF PassIsExclusive
<1>8. LookIsStale'
  <2> SUFFICES ASSUME jan.pc = "expired" PROVE LookIsStale'
    BY DEF LookIsStale
  <2> DEFINE k == jan.issue
  <2>1. k \in Issue
    BY DEF TypeOK, JanState
  <2>2. \A v \in Worker : ~Claiming(v, k)' /\ ~(dsp.waiting /\ k \in dsp.open)
    BY <1>3, <2>1 DEF LookIsStale, Claiming
  <2>3. ASSUME grants'[k] = None
        PROVE  Live(k)' /\ \A v \in Worker : Activated(v, k)' => wk'[v].pc = "running"
    <3>1. grants[k] = None
      BY <1>1, <2>1, <2>3
    <3>2. k # i
      BY <1>2, <2>1, <3>1 DEF LookIsStale
    <3> QED BY <1>2, <1>3, <1>4, <2>1, <3>1, <3>2 DEF LookIsStale, Activated
  <2> QED BY <2>2, <2>3 DEF LookIsStale, Live, Claiming, Activated
<1>9. ReleasedRowIsKnown'
  BY DEF ReleasedRowIsKnown
<1>10. SingleOwner'
  BY <1>3 DEF SingleOwner
<1> QED BY <1>5, <1>6, <1>7, <1>8, <1>9, <1>10

(* The steps of a driver. Goto moves one driver and keeps its issue.       *)
LEMMA GotoKeeps ==
  ASSUME TypeOK, NEW w \in Worker, NEW loc \in WkPcs, Goto(w, loc)
  PROVE  /\ \A v \in Worker \ {w} : wk'[v] = wk[v]
         /\ wk'[w].pc = loc /\ wk'[w].issue = wk[w].issue
BY DEF Goto, TypeOK, WkState

LEMMA RetryKeeps ==
  ASSUME TypeOK, NEW w \in Worker, NextAttempt(w)
  PROVE  /\ \A v \in Worker \ {w} : wk'[v] = wk[v]
         /\ wk'[w].pc \in {"relaunching", "escalating"} /\ wk'[w].issue = wk[w].issue
BY DEF NextAttempt, Goto, TypeOK, WkState

LEMMA BreaksKeeps ==
  ASSUME TypeOK, NEW w \in Worker, NEW class, wk' = [wk EXCEPT ![w].pc = "broken", ![w].class = class]
  PROVE  /\ \A v \in Worker \ {w} : wk'[v] = wk[v]
         /\ wk'[w].pc = "broken" /\ wk'[w].issue = wk[w].issue
BY DEF TypeOK, WkState

(* A move of a driver that touches nothing of Control's.                   *)
LEMMA MoveOwnership ==
  ASSUME TypeOK, OwnershipInvariant, NEW w \in Worker, UNCHANGED <<control, dsp, jan>>,
         \A v \in Worker \ {w} : wk'[v] = wk[v],
         wk'[w].pc # "claiming",
         wk'[w].pc \in ActivatedPcs => wk[w].pc \in ActivatedPcs /\ wk'[w].issue = wk[w].issue,
         wk[w].pc = "running" => ~(jan.pc = "expired" /\ jan.issue = wk[w].issue)
  PROVE  OwnershipInvariant'
<1>1. \A v \in Worker : KeepsOrLetsGo(v)
  BY DEF KeepsOrLetsGo
<1> QED BY <1>1, QuietStep, PassStays, JanitorStays DEF control

LEMMA ClaimStepOwnership ==
  ASSUME Timely, TypeOK, OwnershipInvariant, NEW w \in Worker, ClaimStep(w)
  PROVE  OwnershipInvariant'
<1>0. /\ {"running", "relaunching", "shipping", "shipped", "closing", "broken", "failing",
          "escalating", "unassigning", "unlabelling", "announcing"} \subseteq WkPcs
      /\ "closing" \notin ActivatedPcs /\ "idle" \notin ActivatedPcs /\ IdleWk.pc = "idle"
  BY DEF WkPcs, ActivatedPcs, IdleWk
<1>1. GoIdle(w) => wk'[w].pc = "idle" /\ \A v \in Worker \ {w} : wk'[v] = wk[v]
  BY <1>0 DEF GoIdle, TypeOK
<1>2. CASE EmitClaimed(w)
  <2>1. PICK landed \in BOOLEAN, acked \in BOOLEAN :
          /\ Emit(w, wk[w].issue, wk[w].run, "claimed", landed, acked)
          /\ IF acked THEN wk' = [wk EXCEPT ![w].pc = "running", ![w].tries = 0, ![w].full = 1]
             ELSE IF wk[w].tries > 1 THEN wk' = [wk EXCEPT ![w].tries = @ - 1]
             ELSE GoIdle(w)
    BY <1>2 DEF EmitClaimed
  <2>2. acked => landed
    BY <2>1 DEF Emit
  <2>3. \A v \in Worker \ {w} : wk'[v] = wk[v]
    BY <1>1, <2>1 DEF TypeOK
  <2>4. \/ wk'[w].pc = "claiming" /\ wk'[w].issue = wk[w].issue
        \/ wk'[w].pc = "running" /\ landed /\ wk'[w].issue = wk[w].issue
        \/ wk'[w].pc = "idle"
    BY <1>1, <1>2, <2>1, <2>2 DEF EmitClaimed, TypeOK, WkState
  <2> QED BY <1>2, <2>1, <2>3, <2>4, ClaimedEventOwnership DEF EmitClaimed
<1>3. CASE EmitRelaunched(w)
  BY <1>0, <1>3, GotoKeeps, ClaimedEventOwnership DEF EmitRelaunched
<1>4. CASE RunFails(w)
  BY <1>4, BreaksKeeps, MoveOwnership DEF RunFails, SessionEnds, ActivatedPcs
<1>5. CASE OpenPr(w)
  BY <1>0, <1>5, GotoKeeps, BreaksKeeps, MoveOwnership
     DEF OpenPr, SessionEnds, GitHubCall, Breaks, ActivatedPcs
<1>6. CASE LabelPr(w)
  BY <1>0, <1>6, GotoKeeps, BreaksKeeps, MoveOwnership DEF LabelPr, GitHubCall, Breaks, ActivatedPcs
<1>7. CASE EmitPrOpen(w)
  BY <1>0, <1>7, GotoKeeps, OtherEventOwnership DEF EmitPrOpen
<1>8. CASE PushRunEvidence(w)
  BY <1>0, <1>1, <1>8, GotoKeeps, MoveOwnership DEF PushRunEvidence, ActivatedPcs
<1>9. CASE EmitFailed(w)
  BY <1>9, RetryKeeps, OtherEventOwnership DEF EmitFailed
<1>10. CASE EscalateLabel(w)
  BY <1>0, <1>1, <1>10, GotoKeeps, MoveOwnership DEF EscalateLabel, GitHubCall, ActivatedPcs
<1>11. CASE EscalateUnassign(w)
  BY <1>0, <1>1, <1>11, GotoKeeps, MoveOwnership DEF EscalateUnassign, GitHubCall, ActivatedPcs
<1>12. CASE EscalateUnclaim(w)
  BY <1>0, <1>1, <1>12, GotoKeeps, MoveOwnership DEF EscalateUnclaim, GitHubCall, ActivatedPcs
<1>13. CASE EmitEscalated(w)
  BY <1>0, <1>1, <1>13, OtherEventOwnership DEF EmitEscalated
<1> QED BY <1>2, <1>3, <1>4, <1>5, <1>6, <1>7, <1>8, <1>9, <1>10, <1>11, <1>12, <1>13
        DEF ClaimStep

LEMMA DriverOwnership ==
  ASSUME Timely, TypeOK, OwnershipInvariant, NEW w \in Worker, DriverStep(w)
  PROVE  OwnershipInvariant'
<1>1. CASE AskWork(w)
  <2>1. Goto(w, "asking") /\ "asking" \in WkPcs
    BY <1>1 DEF AskWork, Goto, WkPcs
  <2> QED BY <1>1, <2>1, GotoKeeps, MoveOwnership DEF AskWork, ActivatedPcs
<1>2. CASE AskTimesOut(w)
  <2>1. PassYields
    BY <1>2 DEF AskTimesOut, PassYields, TypeOK, DspState
  <2> QED BY <1>2, <2>1, QuietStep, OneGoesIdle, JanitorStays DEF AskTimesOut, control
<1>3. CASE IdleSweep(w)
  BY <1>3, QuietStep, AllKeep, PassStays, JanitorStays DEF IdleSweep, control
<1>4. CASE Boot(w)
  BY <1>4, QuietStep, OneGoesIdle, PassStays, JanitorStays DEF Boot, GoIdle, control
<1> QED BY <1>1, <1>2, <1>3, <1>4, ClaimStepOwnership DEF DriverStep

(* The janitor: a sweep never comes near a row, and an unwinding follows   *)
(* the deletion of one.                                                    *)
LEMMA JanitorSweeps ==
  ASSUME TypeOK, JanDone \/ \E loc \in SweepPcs : JanGoto(loc)
  PROVE  JanitorYields
<1>1. CASE JanDone
  BY <1>1 DEF JanDone, IdleJan, JanitorYields, UnwindPcs
<1>2. ASSUME NEW loc \in SweepPcs, JanGoto(loc) PROVE JanitorYields
  <2>1. jan'.pc = loc
    BY <1>2 DEF JanGoto, TypeOK, JanState
  <2> QED BY <2>1 DEF JanitorYields, SweepPcs, UnwindPcs
<1> QED BY <1>1, <1>2

LEMMA JanitorUnwinds ==
  ASSUME TypeOK, jan.pc \in UnwindPcs, JanDone \/ \E loc \in UnwindPcs : JanGoto(loc)
  PROVE  JanitorYields
<1>1. CASE JanDone
  BY <1>1 DEF JanDone, IdleJan, JanitorYields, UnwindPcs
<1>2. ASSUME NEW loc \in UnwindPcs, JanGoto(loc) PROVE JanitorYields
  <2>1. jan'.pc = loc /\ jan'.worker = jan.worker
    BY <1>2 DEF JanGoto, TypeOK, JanState
  <2> QED BY <2>1 DEF JanitorYields, UnwindPcs
<1> QED BY <1>1, <1>2

(* A row the janitor looks at has expired, so it waits for nobody.         *)
LEMMA LookOwnership ==
  ASSUME TypeOK, OwnershipInvariant, NEW i \in Issue, ReleaseLook(i)
  PROVE  OwnershipInvariant'
<1> USE DEF OwnershipInvariant
<1>1. /\ UNCHANGED <<grants, expired, latest, dsp, wk>> /\ i \in expired
      /\ jan'.pc = "expired" /\ jan'.issue = i /\ jan'.worker = grants[i]
  BY DEF ReleaseLook, control, IdleJan
<1>2. \A j \in Issue, v \in Worker :
        /\ Claiming(v, j)' = Claiming(v, j) /\ Activated(v, j)' = Activated(v, j)
        /\ Holds(v, j)' = Holds(v, j) /\ Live(j)' = Live(j)
  BY <1>1 DEF Claiming, Activated, Holds, Live
<1>3. ExpiredRowsAreStale'
  BY <1>1, <1>2 DEF ExpiredRowsAreStale, TypeOK
<1>4. HoldersAreKnown'
  BY <1>1, <1>2 DEF HoldersAreKnown
<1>5. PassIsExclusive'
  BY <1>1, <1>2 DEF PassIsExclusive, TypeOK, DspState
<1>6. LookIsStale'
  BY <1>1 DEF LookIsStale, ExpiredRowsAreStale, Claiming
<1>7. ReleasedRowIsKnown'
  BY <1>1 DEF ReleasedRowIsKnown, ExpiredRowsAreStale
<1>8. SingleOwner'
  BY <1>2 DEF SingleOwner
<1> QED BY <1>3, <1>4, <1>5, <1>6, <1>7, <1>8

(* Deleting it costs nobody its claim.                                     *)
LEMMA RowOwnership ==
  ASSUME TypeOK, OwnershipInvariant, ReleaseRow
  PROVE  OwnershipInvariant'
<1> USE DEF OwnershipInvariant
<1> DEFINE i == jan.issue
<1>1. /\ UNCHANGED <<latest, dsp, wk>> /\ jan.pc = "expired" /\ i \in Issue
      /\ grants' = [grants EXCEPT ![i] = None] /\ expired' = expired \ {i}
  BY DEF ReleaseRow, ReleaseGrant, TypeOK, JanState
<1>2. jan'.pc # "expired" /\ (jan'.pc \in UnwindPcs => jan'.worker = jan.worker)
  BY DEF ReleaseRow, JanDone, JanGoto, IdleJan, UnwindPcs, TypeOK, JanState
<1>3. \A j \in Issue, v \in Worker :
        /\ Claiming(v, j)' = Claiming(v, j) /\ Activated(v, j)' = Activated(v, j)
        /\ Holds(v, j)' = Holds(v, j) /\ Live(j)' = Live(j)
  BY <1>1 DEF Claiming, Activated, Holds, Live
<1>4. \A j \in Issue : j # i => grants'[j] = grants[j]
  BY <1>1 DEF TypeOK
<1>5. ExpiredRowsAreStale'
  BY <1>1, <1>3, <1>4 DEF ExpiredRowsAreStale, TypeOK
<1>6. HoldersAreKnown'
  BY <1>1, <1>3, <1>4 DEF HoldersAreKnown, LookIsStale
<1>7. PassIsExclusive'
  BY <1>1, <1>3, <1>4 DEF PassIsExclusive, LookIsStale, TypeOK, DspState
<1>8. LookIsStale'
  BY <1>2 DEF LookIsStale
<1>9. ReleasedRowIsKnown'
  BY <1>1, <1>2 DEF ReleasedRowIsKnown
<1>10. SingleOwner'
  BY <1>3 DEF SingleOwner
<1> QED BY <1>5, <1>6, <1>7, <1>8, <1>9, <1>10

(* A row put back is one more row.                                         *)
LEMMA RerecordOwnership ==
  ASSUME TypeOK, OwnershipInvariant, Rerecord
  PROVE  OwnershipInvariant'
<1> USE DEF OwnershipInvariant
<1> DEFINE i == jan.issue
<1>1. /\ UNCHANGED <<latest, dsp, wk>> /\ i \in Issue /\ jan.worker # None
      /\ grants' = [grants EXCEPT ![i] = jan.worker] /\ expired' = expired \ {i}
  BY DEF Rerecord, RecordGrant, ReleasedRowIsKnown, UnwindPcs, TypeOK, JanState
<1>2. jan'.pc = "idle"
  BY DEF Rerecord, JanDone, IdleJan
<1>3. \A j \in Issue, v \in Worker :
        /\ Claiming(v, j)' = Claiming(v, j) /\ Activated(v, j)' = Activated(v, j)
        /\ Holds(v, j)' = Holds(v, j) /\ Live(j)' = Live(j)
  BY <1>1 DEF Claiming, Activated, Holds, Live
<1>4. \A j \in Issue : grants[j] # None => grants'[j] # None
  BY <1>1 DEF TypeOK
<1>5. ExpiredRowsAreStale'
  BY <1>1, <1>3, <1>4 DEF ExpiredRowsAreStale, TypeOK
<1>6. HoldersAreKnown'
  BY <1>1, <1>3, <1>4 DEF HoldersAreKnown
<1>7. PassIsExclusive'
  BY <1>1, <1>3, <1>4 DEF PassIsExclusive, TypeOK, DspState
<1>8. LookIsStale'
  BY <1>2 DEF LookIsStale
<1>9. ReleasedRowIsKnown'
  BY <1>2 DEF ReleasedRowIsKnown, UnwindPcs
<1>10. SingleOwner'
  BY <1>3 DEF SingleOwner
<1> QED BY <1>5, <1>6, <1>7, <1>8, <1>9, <1>10

LEMMA JanitorOwnership == TypeOK /\ OwnershipInvariant /\ JanitorStep => OwnershipInvariant'
<1> SUFFICES ASSUME TypeOK, OwnershipInvariant, JanitorStep PROVE OwnershipInvariant'
  OBVIOUS
<1> USE DEF control
<1>1. ASSUME NEW i \in Issue, SweepClear(i) PROVE OwnershipInvariant'
  BY <1>1, QuietStep, AllKeep, PassStays, JanitorStays DEF SweepClear
<1>2. ASSUME NEW i \in Issue, SweepFlag(i) PROVE OwnershipInvariant'
  <2>1. jan'.pc = "verify"
    BY <1>2 DEF SweepFlag, IdleJan
  <2>2. JanitorYields
    BY <2>1 DEF JanitorYields, UnwindPcs
  <2> QED BY <1>2, <2>2, QuietStep, AllKeep, PassStays DEF SweepFlag
<1>3. CASE SweepVerify
  <2>1. ASSUME jan' = [jan EXCEPT !.pc = "evidence", !.logins = assignees[jan.issue]]
        PROVE  JanitorYields
    <3>1. jan'.pc = "evidence"
      BY <2>1 DEF TypeOK, JanState
    <3> QED BY <3>1 DEF JanitorYields, UnwindPcs
  <2>2. JanitorYields
    BY <1>3, <2>1, JanitorSweeps DEF SweepVerify
  <2> QED BY <1>3, <2>2, QuietStep, AllKeep, PassStays DEF SweepVerify
<1>4. ASSUME UNCHANGED <<grants, expired, latest, dsp, wk>>,
             JanDone \/ \E loc \in SweepPcs : JanGoto(loc)
      PROVE  OwnershipInvariant'
  BY <1>4, QuietStep, AllKeep, PassStays, JanitorSweeps
<1>5. CASE SweepEvidence
  BY <1>4, <1>5 DEF SweepEvidence, SweepPcs
<1>6. CASE SweepLabel
  BY <1>4, <1>6 DEF SweepLabel, GitHubCall, SweepPcs
<1>7. CASE SweepStrip
  BY <1>4, <1>7 DEF SweepStrip, StripAssignees, SweepPcs
<1>8. CASE SweepUnlabel
  BY <1>4, <1>8 DEF SweepUnlabel, GitHubCall, SweepPcs
<1>9. CASE SweepLedger
  BY <1>4, <1>9 DEF SweepLedger
<1>10. ASSUME UNCHANGED <<grants, expired, latest, dsp, wk>>, jan.pc \in UnwindPcs,
              JanDone \/ \E loc \in UnwindPcs : JanGoto(loc)
       PROVE  OwnershipInvariant'
  BY <1>10, QuietStep, AllKeep, PassStays, JanitorUnwinds
<1>11. CASE UnwindAssignees
  BY <1>10, <1>11 DEF UnwindAssignees, StripAssignees, UnwindPcs
<1>12. CASE UnwindInProgress
  BY <1>10, <1>12 DEF UnwindInProgress, GitHubCall, UnwindPcs
<1>13. CASE UnwindRequeue
  BY <1>10, <1>13 DEF UnwindRequeue, GitHubCall, UnwindPcs
<1> QED BY <1>1, <1>2, <1>3, <1>5, <1>6, <1>7, <1>8, <1>9, <1>11, <1>12, <1>13, LookOwnership,
           RowOwnership, RerecordOwnership DEF JanitorStep, SweepStep, ReleaseStep

(* The window elapses over a row only once its driver has given up.        *)
LEMMA WindowOwnership ==
  ASSUME Timely, TypeOK, OwnershipInvariant, NEW i \in Issue, WindowElapses(i)
  PROVE  OwnershipInvariant'
<1> USE DEF OwnershipInvariant
<1>1. /\ UNCHANGED <<grants, latest, dsp, wk, jan>> /\ expired' = expired \cup {i}
      /\ grants[i] # None /\ ~(dsp.waiting /\ i \in dsp.open)
      /\ \A v \in Worker : ~Claiming(v, i)
  BY DEF WindowElapses, Claiming
<1>2. \A j \in Issue, v \in Worker :
        /\ Claiming(v, j)' = Claiming(v, j) /\ Activated(v, j)' = Activated(v, j)
        /\ Holds(v, j)' = Holds(v, j) /\ Live(j)' = Live(j)
  BY <1>1 DEF Claiming, Activated, Holds, Live
<1>3. ExpiredRowsAreStale'
  BY <1>1, <1>2 DEF ExpiredRowsAreStale, TypeOK
<1>4. HoldersAreKnown'
  BY <1>1, <1>2 DEF HoldersAreKnown
<1>5. PassIsExclusive'
  BY <1>1, <1>2 DEF PassIsExclusive, TypeOK, DspState
<1>6. LookIsStale'
  BY <1>1 DEF LookIsStale, Live, Activated, Claiming
<1>7. ReleasedRowIsKnown'
  BY <1>1 DEF ReleasedRowIsKnown
<1>8. SingleOwner'
  BY <1>2 DEF SingleOwner
<1> QED BY <1>3, <1>4, <1>5, <1>6, <1>7, <1>8

LEMMA EnvironmentOwnership ==
  ASSUME Timely, TypeOK, OwnershipInvariant, Environment
  PROVE  OwnershipInvariant'
<1> USE DEF control
<1>1. ASSUME NEW w \in Worker, DriverDies(w) PROVE OwnershipInvariant'
  <2>1. PassYields
    BY <1>1 DEF DriverDies, PassYields, TypeOK, DspState
  <2> QED BY <1>1, <2>1, QuietStep, OneGoesIdle, JanitorStays DEF DriverDies
<1>2. ASSUME UNCHANGED <<grants, expired, latest, dsp, jan, wk>> PROVE OwnershipInvariant'
  BY <1>2, QuietStep, AllKeep, PassStays, JanitorStays
<1>3. CASE ControlCrash
  <2>1. \A v \in Worker : wk'[v] = wk[v] \/ wk'[v].pc = "idle"
    BY <1>3 DEF ControlCrash, IdleWk
  <2>2. \A v \in Worker : KeepsOrLetsGo(v)
    BY <2>1 DEF KeepsOrLetsGo, ActivatedPcs
  <2>3. JanitorYields
    BY <1>3 DEF ControlCrash, JanitorYields, IdleJan, UnwindPcs
  <2> QED BY <1>3, <2>2, <2>3, QuietStep, PassEnds DEF ControlCrash
<1>4. ASSUME NEW w \in Worker, CutLink(w) \/ GraceElapses(w) \/ Heal(w) \/ Unquarantine(w)
      PROVE  OwnershipInvariant'
  BY <1>2, <1>4 DEF CutLink, GraceElapses, Heal, Unquarantine
<1>5. ASSUME NEW i \in Issue, HumanRequeue(i) \/ Revise(i) PROVE OwnershipInvariant'
  BY <1>2, <1>5 DEF HumanRequeue, Revise
<1> QED BY <1>1, <1>3, <1>4, <1>5, WindowOwnership DEF Environment

LEMMA InitOwnership == Init => OwnershipInvariant
BY DEF Init, OwnershipInvariant, ExpiredRowsAreStale, HoldersAreKnown, PassIsExclusive, LookIsStale,
       ReleasedRowIsKnown, SingleOwner, Holds, Activated, Claiming, ActivatedPcs, IdleWk, FreeDsp,
       IdleJan, UnwindPcs

(* As long as the activation window exceeds a driver's dispatch timeout    *)
(* plus its handshake, rows that expire wait for nobody (WindowElapses,    *)
(* release_never_activated): the invariant behind single ownership holds,  *)
(* whatever dies, is lost or raises, at any bound and any number of issues *)
(* and drivers.                                                            *)
THEOREM OwnershipIsInvariant == ASSUME Timely PROVE Spec => []OwnershipInvariant
<1>1. TypeOK /\ OwnershipInvariant /\ UNCHANGED vars => OwnershipInvariant'
  BY QuietStep, AllKeep, PassStays, JanitorStays DEF vars
<1>2. TypeOK /\ OwnershipInvariant /\ [Next]_vars => OwnershipInvariant'
  BY <1>1, DispatchOwnership, DriverOwnership, JanitorOwnership, EnvironmentOwnership DEF Next
<1> QED BY InitOwnership, <1>2, TypeCorrect, PTL DEF Spec

(* Two drivers never hold the same issue (grant_work, execute_claim).      *)
THEOREM SingleOwnership == ASSUME Timely PROVE Spec => []SingleOwner
<1>1. OwnershipInvariant => SingleOwner
  BY DEF OwnershipInvariant
<1> QED BY <1>1, OwnershipIsInvariant, PTL

----------------------------------------------------------------------------
(* Nothing falls through. The state of an issue on GitHub and in the cache *)
(* is in somebody's sight; a claim that ends leaves it failed, under a     *)
(* pr_ready PR or back in the pool.                                        *)

Marked(i) == "failed" \in labels[i] \/ pr[i] = "pr_ready"
Tracked(i) == grants[i] # None \/ Live(i) \/ Marked(i)
Released(i) == Marked(i) \/ (~Claimed(i) /\ "plan_ready" \in labels[i])

(* A pass that ends within the window keeps its row for as long as it      *)
(* writes: neither the window nor the janitor gets at it.                  *)
PassKeepsRow ==
  /\ dsp.open \cap expired = {}
  /\ jan.pc = "expired" => jan.issue \notin dsp.open
  /\ dsp.pc \in Granting => grants[dsp.issue] # None

(* A driver about to end its claim, and the claim a row outlived, leave the*)
(* issue visible.                                                          *)
LastPcs == {"shipped", "unassigning", "unlabelling", "announcing"}
EndsVisibly ==
  /\ \A w \in Worker, i \in Issue : wk[w].issue = i /\ wk[w].pc \in LastPcs => Released(i)
  /\ jan.pc = "expired" /\ jan.live => Live(jan.issue) \/ Released(jan.issue)

(* What an unwinding has taken away stays away, or somebody tracks it.     *)
UnwindsInOrder ==
  /\ jan.pc = "unclaim" => assignees[jan.issue] = {} \/ Tracked(jan.issue)
  /\ jan.pc = "requeue" => ~Claimed(jan.issue) \/ Tracked(jan.issue)

InSight ==
  ~CrashInUnwind =>
    \A i \in Issue : /\ Claimed(i) => Tracked(i) \/ Unwinding(i)
                     /\ "plan_ready" \in labels[i] \/ Tracked(i) \/ Unwinding(i)

SightInvariant == PassKeepsRow /\ EndsVisibly /\ UnwindsInOrder /\ InSight

(* A write of anybody but the pass: no claim appears, nothing leaves the   *)
(* pool, and a mark that goes leaves the issue released.                   *)
NoWorse(i) ==
  /\ assignees'[i] \subseteq assignees[i]
  /\ "in_progress" \in labels'[i] => "in_progress" \in labels[i]
  /\ "plan_ready" \in labels[i] => "plan_ready" \in labels'[i]
  /\ Marked(i) => Released(i)'

CacheNoWorse(i) ==
  /\ grants[i] # None \/ Live(i) => grants'[i] # None \/ Live(i)' \/ Released(i)'
  /\ Live(i) => Live(i)' \/ Released(i)'

PassLosesNoRow ==
  /\ \A i \in dsp.open : i \in expired' => i \in expired
  /\ dsp.pc \in Granting /\ grants[dsp.issue] # None => grants'[dsp.issue] # None

EndsLikeBefore(v) ==
  wk'[v].pc \in LastPcs =>
    \/ wk[v].pc \in LastPcs /\ wk'[v].issue = wk[v].issue
    \/ \A i \in Issue : i = wk'[v].issue => Released(i)'

LEMMA SightStep ==
  ASSUME TypeOK, SightInvariant,
         \A i \in Issue : NoWorse(i) /\ CacheNoWorse(i),
         PassYields, PassLosesNoRow,
         jan' = jan \/ (jan.pc \notin UnwindPcs /\ jan'.pc \notin UnwindPcs \cup {"expired"}),
         \A v \in Worker : EndsLikeBefore(v)
  PROVE  SightInvariant'
<1> USE DEF SightInvariant
<1>1. \A i \in Issue : /\ Claimed(i)' => Claimed(i)
                       /\ Released(i) => Released(i)'
                       /\ Tracked(i) => Tracked(i)' \/ Released(i)'
                       /\ Released(i)' => Tracked(i)' \/ (~Claimed(i)' /\ "plan_ready" \in labels'[i])
  BY DEF NoWorse, CacheNoWorse, Claimed, Released, Tracked, Marked
<1>2. PassKeepsRow'
  <2>1. dsp'.open \cap expired' = {}
    BY DEF PassKeepsRow, PassYields, PassLosesNoRow
  <2>2. jan'.pc = "expired" => jan'.issue \notin dsp'.open
    BY DEF PassKeepsRow, PassYields
  <2>3. dsp'.pc \in Granting => grants'[dsp'.issue] # None
    <3>1. dsp'.pc \in Granting => dsp'.issue = dsp.issue /\ dsp.pc \in Granting
      BY DEF PassYields, Granting
    <3> QED BY <3>1 DEF PassKeepsRow, PassLosesNoRow
  <2> QED BY <2>1, <2>2, <2>3 DEF PassKeepsRow
<1>3. EndsVisibly'
  <2>1. \A w \in Worker, i \in Issue : wk'[w].issue = i /\ wk'[w].pc \in LastPcs => Released(i)'
    BY <1>1 DEF EndsVisibly, EndsLikeBefore
  <2>2. jan'.pc = "expired" /\ jan'.live => (Live(jan.issue) \/ Released(jan.issue))'
    <3> SUFFICES ASSUME jan'.pc = "expired", jan'.live
                 PROVE  (Live(jan.issue) \/ Released(jan.issue))'
      OBVIOUS
    <3>1. jan' = jan /\ jan.issue \in Issue
      BY DEF TypeOK, JanState
    <3> QED BY <1>1, <3>1 DEF EndsVisibly, CacheNoWorse
  <2> QED BY <2>1, <2>2 DEF EndsVisibly, Live, Released, Marked, Claimed
<1>4. UnwindsInOrder'
  <2> SUFFICES ASSUME jan'.pc \in UnwindPcs PROVE UnwindsInOrder'
    BY DEF UnwindsInOrder, UnwindPcs
  <2>1. jan' = jan /\ jan.issue \in Issue
    BY DEF TypeOK, JanState, UnwindPcs
  <2> DEFINE k == jan.issue
  <2>2. k \in Issue /\ (Tracked(k) => Tracked(k)' \/ ~Claimed(k)')
    BY <1>1, <2>1
  <2>3. assignees[k] = {} => assignees'[k] = {}
    BY <2>1 DEF NoWorse
  <2>4. ~Claimed(k) => ~Claimed(k)'
    BY <1>1, <2>1
  <2>5. ~Claimed(k)' => assignees'[k] = {}
    BY DEF Claimed
  <2>6. jan.pc = "unclaim" => assignees'[k] = {} \/ Tracked(k)'
    BY <2>2, <2>3, <2>5 DEF UnwindsInOrder
  <2>7. jan.pc = "requeue" => ~Claimed(k)' \/ Tracked(k)'
    BY <2>2, <2>4 DEF UnwindsInOrder
  <2> QED BY <2>1, <2>6, <2>7 DEF UnwindsInOrder, Tracked, Claimed, Live, Marked
<1>5. InSight'
  <2>1. \A i \in Issue : Unwinding(i) => Unwinding(i)'
    BY DEF Unwinding
  <2> SUFFICES ASSUME ~CrashInUnwind, NEW i \in Issue
               PROVE  /\ Claimed(i)' => Tracked(i)' \/ Unwinding(i)'
                      /\ "plan_ready" \in labels'[i] \/ Tracked(i)' \/ Unwinding(i)'
    BY DEF InSight
  <2> QED BY <1>1, <2>1 DEF InSight, NoWorse
<1> QED BY <1>2, <1>3, <1>4, <1>5

(* Nothing that is visible on GitHub changes.                              *)
LEMMA GitHubStays ==
  ASSUME UNCHANGED <<labels, assignees, pr>>
  PROVE  \A i \in Issue : NoWorse(i)
BY DEF NoWorse, Released, Marked, Claimed

LEMMA CacheStays ==
  ASSUME UNCHANGED <<grants, latest>>
  PROVE  \A i \in Issue : CacheNoWorse(i)
BY DEF CacheNoWorse, Live

LEMMA RowsStay ==
  ASSUME UNCHANGED grants, expired' \subseteq expired
  PROVE  PassLosesNoRow
BY DEF PassLosesNoRow

LEMMA AllEndLike ==
  ASSUME UNCHANGED wk
  PROVE  \A v \in Worker : EndsLikeBefore(v)
BY DEF EndsLikeBefore

LEMMA OneEndsLike ==
  ASSUME TypeOK, NEW w \in Worker, \A v \in Worker \ {w} : wk'[v] = wk[v],
         wk'[w].pc \in LastPcs => wk[w].pc \in LastPcs /\ wk'[w].issue = wk[w].issue
  PROVE  \A v \in Worker : EndsLikeBefore(v)
<1>1. EndsLikeBefore(w)
  BY DEF EndsLikeBefore
<1>2. \A v \in Worker \ {w} : EndsLikeBefore(v)
  BY DEF EndsLikeBefore
<1> QED BY <1>1, <1>2

(* The pass.                                                               *)
LEMMA ReadSight ==
  ASSUME TypeOK, OwnershipInvariant, SightInvariant, NEW w \in Worker, DispatchRead(w)
  PROVE  SightInvariant'
<1>1. /\ dsp'.open = {i \in Issue : grants[i] = None /\ ~Live(i)} /\ dsp'.pc = "reading"
      /\ UNCHANGED <<labels, assignees, pr, grants, expired, latest, wk, jan>>
  BY DEF DispatchRead, control, github
<1>2. PassKeepsRow'
  <2>1. dsp'.open \cap expired' = {}
    BY <1>1 DEF OwnershipInvariant, ExpiredRowsAreStale
  <2>2. jan'.pc = "expired" => jan'.issue \notin dsp'.open
    BY <1>1 DEF OwnershipInvariant, LookIsStale
  <2> QED BY <1>1, <2>1, <2>2 DEF PassKeepsRow, Granting
<1>3. EndsVisibly' /\ UnwindsInOrder' /\ InSight'
  BY <1>1 DEF SightInvariant, EndsVisibly, UnwindsInOrder, InSight, Released, Tracked, Marked,
              Claimed, Live, Unwinding
<1> QED BY <1>2, <1>3 DEF SightInvariant

(* The row lands, and with it the issue is tracked.                        *)
LEMMA RecordSight ==
  ASSUME TypeOK, OwnershipInvariant, SightInvariant, DispatchRecord
  PROVE  SightInvariant'
<1> DEFINE d == dsp.issue
<1>1. /\ dsp.pc = "picked" /\ d \in Issue /\ dsp.open = {d} /\ dsp.worker \in Worker
      /\ UNCHANGED <<labels, assignees, pr, latest, wk, jan>>
      /\ grants' = [grants EXCEPT ![d] = dsp.worker] /\ expired' = expired \ {d}
      /\ dsp' = [dsp EXCEPT !.pc = "recorded"]
  BY DEF DispatchRecord, RecordGrant, DspGoto, OwnershipInvariant, PassIsExclusive, TypeOK,
         DspState, github
<1>2. dsp'.open = dsp.open /\ dsp'.issue = d /\ dsp'.pc = "recorded"
  BY <1>1 DEF TypeOK, DspState
<1>3. grants'[d] # None /\ \A i \in Issue : grants[i] # None => grants'[i] # None
  BY <1>1, ConstantsAssumption DEF TypeOK
<1>4. PassKeepsRow'
  BY <1>1, <1>2, <1>3 DEF SightInvariant, PassKeepsRow
<1>5. /\ \A i \in Issue : Claimed(i)' = Claimed(i) /\ Released(i)' = Released(i)
                          /\ Live(i)' = Live(i) /\ Unwinding(i)' = Unwinding(i)
      /\ \A i \in Issue : Tracked(i) => Tracked(i)'
  BY <1>1, <1>3 DEF Claimed, Released, Marked, Tracked, Live, Unwinding
<1>6. EndsVisibly'
  BY <1>1 DEF SightInvariant, EndsVisibly, Released, Marked, Claimed, Live
<1>7. UnwindsInOrder'
  <2>1. jan.pc \in {"unclaim", "requeue"} => jan.issue \in Issue
    BY DEF TypeOK, JanState
  <2> QED BY <1>1, <1>3, <2>1 DEF SightInvariant, UnwindsInOrder, Tracked, Marked, Claimed, Live
<1>8. InSight'
  BY <1>1, <1>5 DEF SightInvariant, InSight
<1> QED BY <1>4, <1>6, <1>7, <1>8 DEF SightInvariant

(* A write of the claim: the row is there, and nobody else holds or looks  *)
(* at the issue.                                                           *)
LEMMA WriteSight ==
  ASSUME TypeOK, OwnershipInvariant, SightInvariant, dsp.pc \in Granting, PassYields,
         UNCHANGED <<pr, grants, expired, latest, jan>>,
         \A i \in Issue \ {dsp.issue} : labels'[i] = labels[i] /\ assignees'[i] = assignees[i],
         "failed" \in labels[dsp.issue] => "failed" \in labels'[dsp.issue],
         \A v \in Worker : EndsLikeBefore(v)
  PROVE  SightInvariant'
<1>0. PICK d \in Issue : d = dsp.issue
  BY DEF OwnershipInvariant, PassIsExclusive, Granting
<1>1. dsp.open = {d} /\ grants[d] # None /\ \A v \in Worker : ~Holds(v, d)
  BY <1>0 DEF OwnershipInvariant, PassIsExclusive, SightInvariant, PassKeepsRow, Granting
<1>2. \A i \in Issue \ {d} : /\ Claimed(i)' = Claimed(i) /\ Released(i)' = Released(i)
                             /\ Tracked(i)' = Tracked(i) /\ Live(i)' = Live(i)
  BY <1>0 DEF Claimed, Released, Marked, Tracked, Live
<1>3. Tracked(d)' /\ \A i \in Issue : Unwinding(i)' = Unwinding(i)
  BY <1>1 DEF Tracked, Unwinding
<1>4. PassKeepsRow'
  BY DEF SightInvariant, PassKeepsRow, PassYields, Granting
<1>5. EndsVisibly'
  <2>1. ASSUME NEW w \in Worker, NEW i \in Issue, wk'[w].issue = i, wk'[w].pc \in LastPcs
        PROVE  Released(i)'
    <3>1. CASE wk[w].pc \in LastPcs /\ wk'[w].issue = wk[w].issue
      <4>1. Holds(w, i)
        BY <2>1, <3>1 DEF Holds, Activated, ActivatedPcs, LastPcs
      <4> QED BY <1>1, <1>2, <2>1, <3>1, <4>1 DEF SightInvariant, EndsVisibly
    <3> QED BY <2>1, <3>1 DEF EndsLikeBefore
  <2>2. jan.pc = "expired" /\ jan.live => (Live(jan.issue) \/ Released(jan.issue))'
    <3>1. jan.pc = "expired" => jan.issue \in Issue \ {d}
      BY <1>1 DEF SightInvariant, PassKeepsRow, TypeOK, JanState
    <3> QED BY <1>2, <3>1 DEF SightInvariant, EndsVisibly
  <2> QED BY <2>1, <2>2 DEF EndsVisibly, Live, Released, Marked, Claimed
<1>6. UnwindsInOrder'
  <2> SUFFICES ASSUME jan.pc \in {"unclaim", "requeue"} PROVE UnwindsInOrder'
    BY DEF UnwindsInOrder
  <2>1. jan.issue \in Issue
    BY DEF TypeOK, JanState
  <2>2. jan.issue = d \/ assignees'[jan.issue] = assignees[jan.issue]
    BY <1>0, <2>1
  <2> QED BY <1>2, <1>3, <2>1, <2>2 DEF SightInvariant, UnwindsInOrder, Tracked, Marked, Claimed, Live
<1>7. InSight'
  <2>1. InSight
    BY DEF SightInvariant
  <2>2. \A i \in Issue \ {d} : "plan_ready" \in labels'[i] <=> "plan_ready" \in labels[i]
    BY <1>0
  <2> QED BY <1>2, <1>3, <2>1, <2>2 DEF InSight
<1> QED BY <1>4, <1>5, <1>6, <1>7 DEF SightInvariant

LEMMA DispatchSight ==
  ASSUME TypeOK, OwnershipInvariant, SightInvariant, DispatchStep
  PROVE  SightInvariant'
<1> USE DEF control, github
<1>1. ASSUME UNCHANGED <<labels, assignees, pr, grants, expired, latest, jan>>, PassYields,
             \A v \in Worker : EndsLikeBefore(v)
      PROVE  SightInvariant'
  BY <1>1, GitHubStays, CacheStays, RowsStay, SightStep
<1>2. ASSUME NEW w \in Worker, NEW x \in {IdleWk, ClaimingWk(dsp.issue, nextRun)},
             wk' = [wk EXCEPT ![w] = x]
      PROVE  \A v \in Worker : EndsLikeBefore(v)
  <2>1. x.pc \notin LastPcs
    BY DEF IdleWk, ClaimingWk, LastPcs
  <2> QED BY <1>2, <2>1, OneEndsLike DEF TypeOK
<1>3. ASSUME dsp.pc # "free", DspAnswerNone
      PROVE  PassYields /\ \A v \in Worker : EndsLikeBefore(v)
  <2>1. dsp.worker \in Worker
    BY <1>3 DEF TypeOK, DspState
  <2> QED BY <1>2, <1>3, <2>1, PassAnswersNone, AllEndLike DEF DspAnswerNone
<1>4. ASSUME NEW w \in Worker, DispatchRefuse(w) PROVE SightInvariant'
  BY <1>1, <1>2, <1>4, PassStays DEF DispatchRefuse
<1>5. ASSUME NEW i \in Issue, DispatchPick(i) PROVE SightInvariant'
  <2>1. /\ dsp'.open = {i} /\ i \in dsp.open /\ dsp'.pc = "picked"
        /\ UNCHANGED <<labels, assignees, pr, grants, expired, latest, wk, jan>>
    BY <1>5 DEF DispatchPick, Grantable, TypeOK, DspState
  <2>2. PassKeepsRow'
    BY <2>1 DEF SightInvariant, PassKeepsRow, Granting
  <2>3. EndsVisibly' /\ UnwindsInOrder' /\ InSight'
    BY <2>1 DEF SightInvariant, EndsVisibly, UnwindsInOrder, InSight, Released, Tracked, Marked,
                Claimed, Live, Unwinding
  <2> QED BY <2>2, <2>3 DEF SightInvariant
<1>6. CASE DispatchNone
  BY <1>1, <1>3, <1>6 DEF DispatchNone
<1>7. ASSUME dsp.pc \in Granting, UNCHANGED <<pr, control, jan>>,
             DspAnswerNone \/ \E loc \in Granting : DspGoto(loc),
             \A i \in Issue \ {dsp.issue} : labels'[i] = labels[i] /\ assignees'[i] = assignees[i],
             "failed" \in labels[dsp.issue] => "failed" \in labels'[dsp.issue]
      PROVE  SightInvariant'
  <2>1. CASE DspAnswerNone
    BY <1>3, <1>7, <2>1, WriteSight DEF Granting
  <2>2. ASSUME NEW loc \in Granting, DspGoto(loc) PROVE SightInvariant'
    <3>1. PassYields /\ wk' = wk
      BY <1>7, <2>2, PassGoesOn DEF DspGoto
    <3> QED BY <1>7, <3>1, AllEndLike, WriteSight
  <2> QED BY <1>7, <2>1, <2>2
<1>8. CASE DispatchAssign
  <2>1. /\ dsp.pc \in Granting /\ UNCHANGED <<pr, control, jan, labels>>
        /\ DspAnswerNone \/ \E loc \in Granting : DspGoto(loc)
        /\ \A i \in Issue \ {dsp.issue} : assignees'[i] = assignees[i]
    BY <1>8 DEF DispatchAssign, GitHubCall, Granting, TypeOK
  <2> QED BY <1>7, <2>1
<1>9. CASE DispatchClaim
  <2>1. /\ dsp.pc \in Granting /\ UNCHANGED <<pr, control, jan, assignees>>
        /\ DspAnswerNone \/ \E loc \in Granting : DspGoto(loc)
    BY <1>9 DEF DispatchClaim, GitHubCall, Granting
  <2>2. /\ \A i \in Issue \ {dsp.issue} : labels'[i] = labels[i]
        /\ "failed" \in labels[dsp.issue] => "failed" \in labels'[dsp.issue]
    BY <1>9 DEF DispatchClaim, GitHubCall, TypeOK
  <2> QED BY <1>7, <2>1, <2>2
<1>10. CASE DispatchUnlabel
  <2>1. /\ dsp.pc \in Granting /\ UNCHANGED <<pr, control, jan, assignees>>
        /\ DspAnswerNone \/ \E loc \in Granting : DspGoto(loc)
    BY <1>10 DEF DispatchUnlabel, GitHubCall, Granting
  <2>2. /\ \A i \in Issue \ {dsp.issue} : labels'[i] = labels[i]
        /\ "failed" \in labels[dsp.issue] => "failed" \in labels'[dsp.issue]
    BY <1>10 DEF DispatchUnlabel, GitHubCall, TypeOK
  <2> QED BY <1>7, <2>1, <2>2
<1>11. CASE DispatchReply
  <2>1. PassYields
    BY <1>11, PassEnds DEF DispatchReply
  <2>2. dsp.worker \in Worker
    BY <1>11 DEF DispatchReply, TypeOK, DspState
  <2>3. \A v \in Worker : EndsLikeBefore(v)
    BY <1>2, <1>11, <2>2, AllEndLike DEF DispatchReply
  <2> QED BY <1>1, <1>11, <2>1, <2>3 DEF DispatchReply
<1> QED BY <1>4, <1>5, <1>6, <1>8, <1>9, <1>10, <1>11, ReadSight, RecordSight DEF DispatchStep

(* A driver's write about the issue it holds, and its events.              *)
LEMMA DriverWrites ==
  ASSUME TypeOK, NEW w \in Worker,
         \/ /\ UNCHANGED <<pr, assignees>>
            /\ \/ UNCHANGED labels
               \/ labels' = [labels EXCEPT ![wk[w].issue] = @ \cup {"failed", "needs_human"}]
               \/ labels' = [labels EXCEPT ![wk[w].issue] = @ \ {"in_progress"}]
         \/ UNCHANGED <<labels, assignees>> /\ pr' = [pr EXCEPT ![wk[w].issue] = "pr_ready"]
         \/ /\ UNCHANGED <<labels, assignees>>
            /\ pr' = [pr EXCEPT ![wk[w].issue] = IF @ = "none" THEN "open" ELSE @]
         \/ UNCHANGED <<labels, pr>> /\ assignees' = [assignees EXCEPT ![wk[w].issue] = @ \ {w}]
  PROVE  \A i \in Issue : NoWorse(i)
<1>1. ASSUME UNCHANGED <<labels, assignees>>, \A i \in Issue : pr'[i] # pr[i] => pr[i] # "pr_ready"
      PROVE  \A i \in Issue : NoWorse(i)
  BY <1>1 DEF NoWorse, Released, Marked
<1>2. ASSUME UNCHANGED <<pr, assignees>>, NEW i \in Issue,
             "in_progress" \in labels'[i] => "in_progress" \in labels[i],
             labels[i] \ {"in_progress"} \subseteq labels'[i]
      PROVE  NoWorse(i)
  BY <1>2 DEF NoWorse, Released, Marked
<1>3. ASSUME UNCHANGED <<labels, pr>>, \A i \in Issue : assignees'[i] \subseteq assignees[i]
      PROVE  \A i \in Issue : NoWorse(i)
  BY <1>3 DEF NoWorse, Released, Marked
<1> QED BY <1>1, <1>2, <1>3, GitHubStays DEF TypeOK

(* A claimed or failed event keeps what is tracked tracked.                *)
LEMMA LiveEvent ==
  ASSUME TypeOK, PassIsExclusive, NEW w \in Worker, NEW p \in {"claimed", "failed"},
         NEW landed \in BOOLEAN, NEW acked \in BOOLEAN,
         Emit(w, wk[w].issue, wk[w].run, p, landed, acked),
         wk[w].pc \in ActivatedPcs \cup {"claiming"}
  PROVE  PassLosesNoRow /\ \A i \in Issue : CacheNoWorse(i)
<1>1. wk[w].issue \in Issue \cup {None}
  BY DEF TypeOK, WkState
<1>2. /\ expired' \subseteq expired
      /\ \A j \in Issue : /\ Live(j) => Live(j)'
                          /\ grants'[j] # grants[j] => Live(j)' /\ j = wk[w].issue
  <2>1. CASE p = "claimed"
    <3> DEFINE i == wk[w].issue
    <3>1. Emit(w, i, wk[w].run, "claimed", landed, acked)
      BY <2>1
    <3>2. /\ \A j \in Issue :
               /\ ~(landed /\ j = i) => latest'[j] = latest[j] /\ grants'[j] = grants[j]
               /\ landed /\ j = i => latest'[j].phase = "claimed" /\ grants'[j] = None
          /\ expired' \subseteq expired
      BY <1>1, <3>1, ClaimedEffect
    <3> QED BY <3>2 DEF Live, LiveRunPhases
  <2>2. CASE p = "failed"
    <3> DEFINE i == wk[w].issue
    <3>1. p # "claimed"
      BY <2>2
    <3>2. /\ \A j \in Issue :
               /\ ~(landed /\ j = i) => latest'[j] = latest[j]
               /\ landed /\ j = i => latest'[j].phase = p
               /\ grants'[j] = grants[j]
          /\ expired' \subseteq expired
      BY <1>1, <3>1, OtherEffect, SMTT(60)
    <3> QED BY <2>2, <3>2 DEF Live, LiveRunPhases
  <2> QED BY <2>1, <2>2
<1>3. dsp.pc \in Granting => dsp.issue \in Issue /\ dsp.issue # wk[w].issue
  BY DEF PassIsExclusive, Granting, Holds, Activated, Claiming, TypeOK, DspState
<1> QED BY <1>2, <1>3 DEF CacheNoWorse, PassLosesNoRow

(* The event that ends a claim finds its issue released.                   *)
LEMMA LastEvent ==
  ASSUME TypeOK, SightInvariant, NEW w \in Worker, NEW p \in {"pr-open", "escalated"},
         NEW landed \in BOOLEAN, NEW acked \in BOOLEAN,
         Emit(w, wk[w].issue, wk[w].run, p, landed, acked), wk[w].pc \in LastPcs,
         UNCHANGED <<labels, assignees, pr>>
  PROVE  PassLosesNoRow /\ \A i \in Issue : CacheNoWorse(i)
<1>1. wk[w].issue \in Issue \cup {None}
  BY DEF TypeOK, WkState
<1>2. /\ expired' \subseteq expired
      /\ \A j \in Issue : /\ j # wk[w].issue => latest'[j] = latest[j]
                          /\ grants'[j] = grants[j]
  BY <1>1, OtherEffect
<1>3. \A j \in Issue : j = wk[w].issue => Released(j)'
  BY DEF SightInvariant, EndsVisibly, Released, Marked, Claimed
<1>4. dsp.pc \in Granting => dsp.issue \in Issue \cup {None}
  BY DEF TypeOK, DspState
<1>5. \A i \in Issue : CacheNoWorse(i)
  BY <1>2, <1>3 DEF CacheNoWorse, Live
<1>6. PassLosesNoRow
  <2>1. dsp.pc \in Granting => grants' = grants
    BY <1>2 DEF Emit, RecordEvent, control
  <2> QED BY <1>2, <2>1 DEF PassLosesNoRow
<1> QED BY <1>5, <1>6

LEMMA HolderSight ==
  ASSUME TypeOK, SightInvariant, NEW w \in Worker, UNCHANGED <<dsp, jan>>, PassLosesNoRow,
         \A i \in Issue : NoWorse(i) /\ CacheNoWorse(i),
         \A v \in Worker \ {w} : wk'[v] = wk[v],
         wk'[w].pc \in LastPcs =>
           /\ wk'[w].issue = wk[w].issue
           /\ wk[w].pc \in LastPcs \/ \A i \in Issue : i = wk[w].issue => Marked(i)'
  PROVE  SightInvariant'
<1>1. EndsLikeBefore(w)
  BY DEF EndsLikeBefore, Released, Marked
<1>2. \A v \in Worker \ {w} : EndsLikeBefore(v)
  BY DEF EndsLikeBefore
<1> QED BY <1>1, <1>2, PassStays, SightStep

LEMMA ClaimStepSight ==
  ASSUME TypeOK, OwnershipInvariant, SightInvariant, NEW w \in Worker, ClaimStep(w)
  PROVE  SightInvariant'
<1>0. /\ {"running", "relaunching", "shipping", "shipped", "closing", "broken", "failing",
          "escalating", "unassigning", "unlabelling", "announcing"} \subseteq WkPcs
      /\ IdleWk.pc \notin LastPcs
  BY DEF WkPcs, LastPcs, IdleWk
<1>1. GoIdle(w) => wk'[w].pc \notin LastPcs /\ \A v \in Worker \ {w} : wk'[v] = wk[v]
  BY <1>0 DEF GoIdle, TypeOK
<1>2. ASSUME UNCHANGED <<control, dsp, jan>>, \A i \in Issue : NoWorse(i),
             \A v \in Worker \ {w} : wk'[v] = wk[v],
             wk'[w].pc \in LastPcs =>
               /\ wk'[w].issue = wk[w].issue
               /\ wk[w].pc \in LastPcs \/ \A i \in Issue : i = wk[w].issue => Marked(i)'
      PROVE  SightInvariant'
  <2>1. UNCHANGED <<grants, latest, expired>>
    BY <1>2 DEF control
  <2> QED BY <1>2, <2>1, CacheStays, RowsStay, HolderSight
<1>3. PassIsExclusive
  BY DEF OwnershipInvariant
<1>4. CASE EmitClaimed(w)
  <2>1. PICK landed \in BOOLEAN, acked \in BOOLEAN :
          /\ Emit(w, wk[w].issue, wk[w].run, "claimed", landed, acked)
          /\ IF acked THEN wk' = [wk EXCEPT ![w].pc = "running", ![w].tries = 0, ![w].full = 1]
             ELSE IF wk[w].tries > 1 THEN wk' = [wk EXCEPT ![w].tries = @ - 1]
             ELSE GoIdle(w)
    BY <1>4 DEF EmitClaimed
  <2>2. wk'[w].pc \notin LastPcs /\ \A v \in Worker \ {w} : wk'[v] = wk[v]
    BY <1>1, <1>4, <2>1, SMTT(60) DEF EmitClaimed, TypeOK, WkState, LastPcs
  <2>3. PassLosesNoRow /\ \A i \in Issue : CacheNoWorse(i)
    BY <1>3, <1>4, <2>1, LiveEvent DEF EmitClaimed
  <2> QED BY <1>4, <2>2, <2>3, GitHubStays, HolderSight DEF EmitClaimed, github
<1>5. CASE EmitRelaunched(w)
  <2>1. PassLosesNoRow /\ \A i \in Issue : CacheNoWorse(i)
    BY <1>3, <1>5, LiveEvent DEF EmitRelaunched, ActivatedPcs
  <2>2. wk'[w].pc \notin LastPcs /\ \A v \in Worker \ {w} : wk'[v] = wk[v]
    BY <1>0, <1>5, GotoKeeps DEF EmitRelaunched, LastPcs
  <2> QED BY <1>5, <2>1, <2>2, GitHubStays, HolderSight DEF EmitRelaunched, github
<1>6. CASE EmitFailed(w)
  <2>1. PassLosesNoRow /\ \A i \in Issue : CacheNoWorse(i)
    BY <1>3, <1>6, LiveEvent DEF EmitFailed, ActivatedPcs
  <2>2. wk'[w].pc \notin LastPcs /\ \A v \in Worker \ {w} : wk'[v] = wk[v]
    BY <1>6, RetryKeeps DEF EmitFailed, LastPcs
  <2> QED BY <1>6, <2>1, <2>2, GitHubStays, HolderSight DEF EmitFailed, github
<1>7. CASE EmitPrOpen(w)
  <2>1. PassLosesNoRow /\ \A i \in Issue : CacheNoWorse(i)
    BY <1>7, LastEvent DEF EmitPrOpen, LastPcs, github
  <2>2. wk'[w].pc \notin LastPcs /\ \A v \in Worker \ {w} : wk'[v] = wk[v]
    BY <1>0, <1>7, GotoKeeps DEF EmitPrOpen, LastPcs
  <2> QED BY <1>7, <2>1, <2>2, GitHubStays, HolderSight DEF EmitPrOpen, github
<1>8. CASE EmitEscalated(w)
  <2>1. PassLosesNoRow /\ \A i \in Issue : CacheNoWorse(i)
    BY <1>8, LastEvent DEF EmitEscalated, LastPcs, github
  <2> QED BY <1>1, <1>8, <2>1, GitHubStays, HolderSight DEF EmitEscalated, github
<1>9. CASE RunFails(w)
  BY <1>2, <1>9, BreaksKeeps, GitHubStays DEF RunFails, LastPcs, github
<1>10. CASE OpenPr(w)
  <2>1. \A i \in Issue : NoWorse(i)
    BY <1>10, DriverWrites, GitHubStays DEF OpenPr, GitHubCall
  <2>2. wk'[w].pc \notin LastPcs /\ \A v \in Worker \ {w} : wk'[v] = wk[v]
    BY <1>0, <1>10, GotoKeeps, BreaksKeeps DEF OpenPr, GitHubCall, Breaks, LastPcs
  <2> QED BY <1>2, <1>10, <2>1, <2>2 DEF OpenPr
<1>11. CASE LabelPr(w)
  <2>1. \A i \in Issue : NoWorse(i)
    BY <1>11, DriverWrites, GitHubStays DEF LabelPr, GitHubCall
  <2>2. CASE Breaks(w)
    BY <1>2, <1>11, <2>1, <2>2, BreaksKeeps DEF LabelPr, Breaks, LastPcs
  <2>3. CASE Goto(w, "shipped") /\ pr' = [pr EXCEPT ![wk[w].issue] = "pr_ready"]
    <3>1. \A i \in Issue : i = wk[w].issue => Marked(i)'
      BY <2>3 DEF Marked, TypeOK
    <3> QED BY <1>0, <1>2, <1>11, <2>1, <2>3, <3>1, GotoKeeps DEF LabelPr
  <2> QED BY <1>11, <2>2, <2>3 DEF LabelPr, GitHubCall
<1>12. CASE PushRunEvidence(w)
  <2>1. wk'[w].pc \notin LastPcs /\ \A v \in Worker \ {w} : wk'[v] = wk[v]
    BY <1>0, <1>1, <1>12, GotoKeeps DEF PushRunEvidence, LastPcs
  <2> QED BY <1>2, <1>12, <2>1, GitHubStays DEF PushRunEvidence
<1>13. CASE EscalateLabel(w)
  <2>1. \A i \in Issue : NoWorse(i)
    BY <1>13, DriverWrites, GitHubStays DEF EscalateLabel, GitHubCall
  <2>2. CASE GoIdle(w)
    BY <1>1, <1>2, <1>13, <2>1, <2>2 DEF EscalateLabel
  <2>3. CASE /\ Goto(w, "unassigning")
             /\ labels' = [labels EXCEPT ![wk[w].issue] = @ \cup {"failed", "needs_human"}]
    <3>1. \A i \in Issue : i = wk[w].issue => Marked(i)'
      BY <2>3 DEF Marked, TypeOK
    <3> QED BY <1>0, <1>2, <1>13, <2>1, <2>3, <3>1, GotoKeeps DEF EscalateLabel
  <2> QED BY <1>13, <2>2, <2>3 DEF EscalateLabel, GitHubCall
<1>14. CASE EscalateUnassign(w)
  <2>1. \A i \in Issue : NoWorse(i)
    BY <1>14, DriverWrites, GitHubStays DEF EscalateUnassign, GitHubCall
  <2>2. CASE GoIdle(w)
    BY <1>1, <1>2, <1>14, <2>1, <2>2 DEF EscalateUnassign
  <2>3. CASE Goto(w, "unlabelling")
    BY <1>0, <1>2, <1>14, <2>1, <2>3, GotoKeeps DEF EscalateUnassign, LastPcs
  <2> QED BY <1>14, <2>2, <2>3 DEF EscalateUnassign, GitHubCall
<1>15. CASE EscalateUnclaim(w)
  <2>1. \A i \in Issue : NoWorse(i)
    BY <1>15, DriverWrites, GitHubStays DEF EscalateUnclaim, GitHubCall
  <2>2. CASE GoIdle(w)
    BY <1>1, <1>2, <1>15, <2>1, <2>2 DEF EscalateUnclaim
  <2>3. CASE Goto(w, "announcing")
    BY <1>0, <1>2, <1>15, <2>1, <2>3, GotoKeeps DEF EscalateUnclaim, LastPcs
  <2> QED BY <1>15, <2>2, <2>3 DEF EscalateUnclaim, GitHubCall
<1> QED BY <1>4, <1>5, <1>6, <1>7, <1>8, <1>9, <1>10, <1>11, <1>12, <1>13, <1>14, <1>15
        DEF ClaimStep

LEMMA DriverSight ==
  ASSUME TypeOK, OwnershipInvariant, SightInvariant, NEW w \in Worker, DriverStep(w)
  PROVE  SightInvariant'
<1>1. ASSUME UNCHANGED <<labels, assignees, pr, control, jan>>, PassYields,
             \A v \in Worker \ {w} : wk'[v] = wk[v], wk'[w].pc \notin LastPcs
      PROVE  SightInvariant'
  <2>1. UNCHANGED <<grants, latest, expired>>
    BY <1>1 DEF control
  <2>2. \A v \in Worker : EndsLikeBefore(v)
    BY <1>1, OneEndsLike
  <2> QED BY <1>1, <2>1, <2>2, GitHubStays, CacheStays, RowsStay, SightStep
<1>2. IdleWk.pc \notin LastPcs
  BY DEF IdleWk, LastPcs
<1>3. CASE AskWork(w)
  <2>1. Goto(w, "asking") /\ "asking" \in WkPcs /\ "asking" \notin LastPcs
    BY <1>3 DEF AskWork, Goto, WkPcs, LastPcs
  <2> QED BY <1>1, <1>3, <2>1, GotoKeeps, PassStays DEF AskWork, github
<1>4. CASE AskTimesOut(w)
  <2>1. PassYields
    BY <1>4 DEF AskTimesOut, PassYields, TypeOK, DspState
  <2> QED BY <1>1, <1>2, <1>4, <2>1 DEF AskTimesOut, TypeOK, github
<1>5. CASE IdleSweep(w)
  <2>1. UNCHANGED wk /\ wk[w].pc \notin LastPcs
    BY <1>5 DEF IdleSweep, LastPcs
  <2> QED BY <1>1, <1>5, <2>1, PassStays DEF IdleSweep
<1>6. CASE Boot(w)
  <2>1. wk'[w].pc \notin LastPcs /\ \A v \in Worker \ {w} : wk'[v] = wk[v]
    BY <1>2, <1>6 DEF Boot, GoIdle, TypeOK
  <2> QED BY <1>1, <1>6, <2>1, PassStays DEF Boot
<1> QED BY <1>3, <1>4, <1>5, <1>6, ClaimStepSight DEF DriverStep

(* The sweep of a claim writes on GitHub like a driver that escalates.     *)
LEMMA SweepSight ==
  ASSUME TypeOK, SightInvariant, UNCHANGED <<pr, grants, expired, latest, dsp, wk>>,
         jan.pc \notin UnwindPcs, jan'.pc \notin UnwindPcs \cup {"expired"},
         \A i \in Issue : /\ assignees'[i] \subseteq assignees[i]
                          /\ "in_progress" \in labels'[i] => "in_progress" \in labels[i]
                          /\ labels[i] \ {"in_progress"} \subseteq labels'[i]
  PROVE  SightInvariant'
<1>1. \A i \in Issue : NoWorse(i)
  BY DEF NoWorse, Released, Marked
<1> QED BY <1>1, CacheStays, RowsStay, PassStays, AllEndLike, SightStep

LEMMA SweepStepSight ==
  ASSUME TypeOK, SightInvariant, SweepStep
  PROVE  SightInvariant'
<1> USE DEF control, github
<1>0. /\ SweepPcs \cap (UnwindPcs \cup {"expired"}) = {} /\ SweepPcs \subseteq JanPcs
      /\ jan.pc \in SweepPcs
  BY DEF SweepPcs, UnwindPcs, JanPcs, SweepStep, SweepVerify, SweepEvidence, SweepLabel, SweepStrip,
         SweepUnlabel, SweepLedger
<1>1. jan.pc \notin UnwindPcs
  BY <1>0
<1>2. JanDone => jan'.pc \notin UnwindPcs \cup {"expired"}
  BY DEF JanDone, IdleJan, UnwindPcs
<1>3. ASSUME NEW loc \in SweepPcs, JanGoto(loc) PROVE jan'.pc \notin UnwindPcs \cup {"expired"}
  BY <1>0, <1>3 DEF JanGoto, TypeOK, JanState
<1>4. CASE SweepVerify
  <2>1. ASSUME jan' = [jan EXCEPT !.pc = "evidence", !.logins = assignees[jan.issue]]
        PROVE  jan'.pc \notin UnwindPcs \cup {"expired"}
    BY <2>1 DEF TypeOK, JanState, UnwindPcs
  <2>2. jan'.pc \notin UnwindPcs \cup {"expired"}
    BY <1>2, <1>4, <2>1 DEF SweepVerify
  <2> QED BY <1>1, <1>4, <2>2, SweepSight DEF SweepVerify
<1>5. CASE SweepEvidence
  <2>1. jan'.pc \notin UnwindPcs \cup {"expired"}
    BY <1>2, <1>3, <1>5 DEF SweepEvidence, SweepPcs
  <2> QED BY <1>1, <1>5, <2>1, SweepSight DEF SweepEvidence
<1>6. CASE SweepLabel
  <2>1. jan'.pc \notin UnwindPcs \cup {"expired"}
    BY <1>2, <1>3, <1>6 DEF SweepLabel, GitHubCall, SweepPcs
  <2>2. \A i \in Issue : /\ labels[i] \subseteq labels'[i]
                         /\ "in_progress" \in labels'[i] => "in_progress" \in labels[i]
    BY <1>6 DEF SweepLabel, GitHubCall, TypeOK
  <2> QED BY <1>1, <1>6, <2>1, <2>2, SweepSight DEF SweepLabel
<1>7. CASE SweepStrip
  <2>1. jan'.pc \notin UnwindPcs \cup {"expired"}
    BY <1>2, <1>3, <1>7 DEF SweepStrip, StripAssignees, SweepPcs
  <2>2. \A i \in Issue : assignees'[i] \subseteq assignees[i]
    BY <1>7 DEF SweepStrip, StripAssignees, TypeOK
  <2> QED BY <1>1, <1>7, <2>1, <2>2, SweepSight DEF SweepStrip
<1>8. CASE SweepUnlabel
  <2>1. jan'.pc \notin UnwindPcs \cup {"expired"}
    BY <1>2, <1>3, <1>8 DEF SweepUnlabel, GitHubCall, SweepPcs
  <2>2. \A i \in Issue : /\ labels'[i] \subseteq labels[i]
                         /\ labels[i] \ {"in_progress"} \subseteq labels'[i]
    BY <1>8 DEF SweepUnlabel, GitHubCall, TypeOK
  <2> QED BY <1>1, <1>8, <2>1, <2>2, SweepSight DEF SweepUnlabel
<1>9. CASE SweepLedger
  BY <1>1, <1>2, <1>9, SweepSight DEF SweepLedger
<1> QED BY <1>4, <1>5, <1>6, <1>7, <1>8, <1>9 DEF SweepStep

(* A janitor that takes a row keeps the issue in sight: it unwinds it, or  *)
(* the claim the row outlived is live or has ended visibly.                *)
LEMMA LookSight ==
  ASSUME TypeOK, SightInvariant, NEW i \in Issue, ReleaseLook(i)
  PROVE  SightInvariant'
<1>1. /\ UNCHANGED <<labels, assignees, pr, grants, expired, latest, dsp, wk>> /\ i \in expired
      /\ jan.pc = "idle" /\ jan'.pc = "expired" /\ jan'.issue = i /\ jan'.live = Live(i)
  BY DEF ReleaseLook, control, github, IdleJan
<1>2. PassKeepsRow'
  BY <1>1 DEF SightInvariant, PassKeepsRow
<1>3. \A j \in Issue : /\ Claimed(j)' = Claimed(j) /\ Released(j)' = Released(j)
                       /\ Tracked(j)' = Tracked(j) /\ ~Unwinding(j)
  BY <1>1 DEF Claimed, Released, Marked, Tracked, Live, Unwinding, UnwindPcs
<1>4. EndsVisibly'
  <2>1. \A w \in Worker, j \in Issue : wk'[w].issue = j /\ wk'[w].pc \in LastPcs => Released(j)'
    BY <1>1, <1>3 DEF SightInvariant, EndsVisibly
  <2>2. jan'.live => Live(i)'
    BY <1>1 DEF Live
  <2> QED BY <1>1, <2>1, <2>2 DEF EndsVisibly, Live, Released, Marked, Claimed
<1>5. UnwindsInOrder'
  BY <1>1 DEF UnwindsInOrder
<1>6. InSight'
  BY <1>1, <1>3 DEF SightInvariant, InSight
<1> QED BY <1>2, <1>4, <1>5, <1>6 DEF SightInvariant

LEMMA RowSight ==
  ASSUME TypeOK, PassIsExclusive, SightInvariant, ReleaseRow
  PROVE  SightInvariant'
<1>0. PICK k \in Issue : k = jan.issue
  BY DEF ReleaseRow, TypeOK, JanState
<1>1. /\ UNCHANGED <<labels, assignees, pr, latest, dsp, wk>> /\ jan.pc = "expired"
      /\ grants' = [grants EXCEPT ![k] = None] /\ expired' = expired \ {k}
  BY <1>0 DEF ReleaseRow, ReleaseGrant, github
<1>2. /\ jan'.pc \in {"idle", "unassign"}
      /\ jan'.pc = "unassign" => jan'.issue = k
      /\ jan'.pc = "idle" => jan.live \/ grants[k] = None
  BY <1>0 DEF ReleaseRow, JanDone, JanGoto, IdleJan, TypeOK, JanState
<1>3. \A i \in Issue : /\ Claimed(i)' = Claimed(i) /\ Released(i)' = Released(i)
                       /\ Live(i)' = Live(i) /\ ~Unwinding(i)
                       /\ i # k \/ grants[k] = None => Tracked(i)' = Tracked(i)
                       /\ Live(i) => Tracked(i)'
                       /\ Released(i) => Tracked(i)' \/ (~Claimed(i) /\ "plan_ready" \in labels[i])
  BY <1>1 DEF Claimed, Released, Marked, Tracked, Live, Unwinding, UnwindPcs, TypeOK
<1>4. PassKeepsRow'
  <2>1. dsp.pc \in Granting => dsp.issue # k /\ dsp.issue \in Issue \cup {None}
    <3>1. dsp.pc \in Granting /\ dsp.issue = k => jan.issue = dsp.issue
      BY <1>0
    <3> QED BY <1>0, <1>1, <3>1 DEF SightInvariant, PassKeepsRow, PassIsExclusive, Granting, TypeOK, DspState
  <2> QED BY <1>1, <1>2, <2>1 DEF SightInvariant, PassKeepsRow
<1>5. EndsVisibly'
  BY <1>1, <1>2, <1>3 DEF SightInvariant, EndsVisibly
<1>6. UnwindsInOrder'
  BY <1>2 DEF UnwindsInOrder
<1>7. InSight'
  <2>1. CASE jan'.pc = "unassign"
    <3>1. Unwinding(k)'
      BY <1>2, <2>1 DEF Unwinding, UnwindPcs
    <3> QED BY <1>1, <1>3, <3>1 DEF SightInvariant, InSight
  <2>2. CASE jan.live
    <3>1. Live(k) \/ Released(k)
      BY <1>0, <1>1, <2>2 DEF SightInvariant, EndsVisibly
    <3> QED BY <1>1, <1>3, <3>1 DEF SightInvariant, InSight
  <2>3. CASE grants[k] = None
    BY <1>1, <1>3, <2>3 DEF SightInvariant, InSight
  <2> QED BY <1>2, <2>1, <2>2, <2>3
<1> QED BY <1>4, <1>5, <1>6, <1>7 DEF SightInvariant

(* An unwinding is in sight as long as it runs, and returns the issue to   *)
(* the pool when it is through.                                            *)
LEMMA UnwindSight ==
  ASSUME TypeOK, SightInvariant, UNCHANGED <<pr, grants, expired, latest, dsp, wk>>,
         jan.pc \in UnwindPcs, \A i \in Issue : NoWorse(i), UnwindsInOrder',
         \/ jan'.pc \in UnwindPcs /\ jan'.issue = jan.issue
         \/ /\ jan'.pc = "idle" /\ UNCHANGED assignees
            /\ \A i \in Issue : i = jan.issue =>
                 (Claimed(i)' => Tracked(i)') /\ "plan_ready" \in labels'[i]
  PROVE  SightInvariant'
<1>0. "expired" \notin UnwindPcs /\ "idle" \notin UnwindPcs
  BY DEF UnwindPcs
<1>1. \A i \in Issue : /\ Claimed(i)' => Claimed(i)
                       /\ Released(i) => Released(i)'
                       /\ Tracked(i) => Tracked(i)' \/ (~Claimed(i)' /\ "plan_ready" \in labels'[i])
                       /\ Live(i)' = Live(i)
                       /\ i # jan.issue => ~Unwinding(i)
  BY DEF NoWorse, Claimed, Released, Tracked, Marked, Live, Unwinding
<1>2. PassKeepsRow'
  BY <1>0 DEF SightInvariant, PassKeepsRow
<1>3. EndsVisibly'
  <2>1. \A w \in Worker, i \in Issue : wk'[w].issue = i /\ wk'[w].pc \in LastPcs => Released(i)'
    BY <1>1 DEF SightInvariant, EndsVisibly
  <2> QED BY <1>0, <2>1 DEF EndsVisibly
<1>4. InSight'
  <2> SUFFICES ASSUME ~CrashInUnwind, NEW i \in Issue
               PROVE  /\ Claimed(i)' => Tracked(i)' \/ Unwinding(i)'
                      /\ "plan_ready" \in labels'[i] \/ Tracked(i)' \/ Unwinding(i)'
    BY DEF InSight
  <2>1. CASE i # jan.issue
    BY <1>1, <2>1 DEF SightInvariant, InSight, NoWorse
  <2>2. CASE i = jan.issue
    BY <1>1, <2>2 DEF Unwinding
  <2> QED BY <2>1, <2>2
<1> QED BY <1>2, <1>3, <1>4 DEF SightInvariant

LEMMA ReleaseStepSight ==
  ASSUME TypeOK, OwnershipInvariant, SightInvariant, ReleaseStep
  PROVE  SightInvariant'
<1> USE DEF control, github
<1>1. ASSUME NEW loc \in UnwindPcs, JanGoto(loc)
      PROVE  jan'.pc = loc /\ jan'.issue = jan.issue
  BY <1>1 DEF JanGoto, TypeOK, JanState
<1>2. JanDone => jan'.pc = "idle"
  BY DEF JanDone, IdleJan
<1>3. {"unassign", "unclaim", "requeue", "rerecord"} = UnwindPcs
  BY DEF UnwindPcs
<1>4. CASE UnwindAssignees
  <2>0. jan.pc = "unassign" /\ jan.issue \in Issue
    BY <1>4 DEF UnwindAssignees, TypeOK, JanState
  <2>1. \/ assignees' = [assignees EXCEPT ![jan.issue] = {}] /\ JanGoto("unclaim")
        \/ /\ \E done \in SUBSET assignees[jan.issue] :
                assignees' = [assignees EXCEPT ![jan.issue] = @ \ done]
           /\ JanGoto("rerecord")
    BY <1>4 DEF UnwindAssignees, StripAssignees, TypeOK
  <2>2. \A i \in Issue : assignees'[i] \subseteq assignees[i]
    BY <2>1 DEF TypeOK
  <2>3. \A i \in Issue : NoWorse(i)
    BY <1>4, <2>2 DEF UnwindAssignees, NoWorse, Released, Marked
  <2>4. jan'.pc \in {"unclaim", "rerecord"} /\ jan'.issue = jan.issue
    BY <1>1, <1>3, <2>1
  <2>5. jan'.pc = "unclaim" => assignees'[jan.issue] = {}
    BY <1>1, <1>3, <2>0, <2>1 DEF TypeOK
  <2>6. UnwindsInOrder'
    BY <2>4, <2>5 DEF UnwindsInOrder
  <2> QED BY <1>3, <1>4, <2>0, <2>3, <2>4, <2>6, UnwindSight DEF UnwindAssignees
<1>5. CASE UnwindInProgress
  <2>0. PICK k \in Issue : k = jan.issue
    BY <1>5 DEF UnwindInProgress, TypeOK, JanState
  <2>1. /\ jan.pc = "unclaim" /\ UNCHANGED <<assignees, pr, grants, expired, latest, dsp, wk>>
        /\ \/ labels' = [labels EXCEPT ![k] = @ \ {"in_progress"}] /\ JanGoto("requeue")
           \/ /\ \/ labels' = [labels EXCEPT ![k] = @ \ {"in_progress"}]
                 \/ UNCHANGED labels
              /\ JanGoto("rerecord")
    BY <1>5, <2>0 DEF UnwindInProgress, GitHubCall
  <2>2. \A i \in Issue : /\ labels'[i] \subseteq labels[i]
                         /\ labels[i] \ {"in_progress"} \subseteq labels'[i]
    BY <2>1 DEF TypeOK
  <2>3. \A i \in Issue : NoWorse(i) /\ (Tracked(i) => Tracked(i)')
    BY <2>1, <2>2 DEF NoWorse, Released, Tracked, Marked, Live
  <2>4. jan'.pc \in {"requeue", "rerecord"} /\ jan'.issue = k
    BY <1>1, <1>3, <2>0, <2>1
  <2>5. jan'.pc = "requeue" => ~Claimed(k)' \/ Tracked(k)'
    <3>1. jan'.pc = "requeue" => "in_progress" \notin labels'[k]
      BY <1>1, <1>3, <2>0, <2>1 DEF TypeOK
    <3>2. assignees[k] = {} \/ Tracked(k)
      BY <2>0, <2>1 DEF SightInvariant, UnwindsInOrder
    <3> QED BY <2>1, <2>3, <3>1, <3>2 DEF Claimed
  <2>6. UnwindsInOrder'
    BY <2>4, <2>5 DEF UnwindsInOrder, Claimed, Tracked, Marked, Live
  <2> QED BY <1>3, <2>0, <2>1, <2>3, <2>4, <2>6, UnwindSight
<1>6. CASE UnwindRequeue
  <2>0. PICK k \in Issue : k = jan.issue
    BY <1>6 DEF UnwindRequeue, TypeOK, JanState
  <2>1. /\ jan.pc = "requeue" /\ UNCHANGED <<assignees, pr, grants, expired, latest, dsp, wk>>
        /\ \/ labels' = [labels EXCEPT ![k] = @ \cup {"plan_ready"}] /\ JanDone
           \/ /\ \/ labels' = [labels EXCEPT ![k] = @ \cup {"plan_ready"}]
                 \/ UNCHANGED labels
              /\ JanGoto("rerecord")
    BY <1>6, <2>0 DEF UnwindRequeue, GitHubCall
  <2>2. \A i \in Issue : /\ labels[i] \subseteq labels'[i]
                         /\ "in_progress" \in labels'[i] => "in_progress" \in labels[i]
    BY <2>1 DEF TypeOK
  <2>3. \A i \in Issue : /\ NoWorse(i) /\ (Tracked(i) => Tracked(i)')
                         /\ Claimed(i)' => Claimed(i)
    BY <2>1, <2>2 DEF NoWorse, Released, Tracked, Marked, Live, Claimed
  <2>4. /\ jan'.pc \in {"idle", "rerecord"}
        /\ jan'.pc = "rerecord" => jan'.issue = jan.issue
        /\ jan'.pc = "idle" => "plan_ready" \in labels'[k]
    BY <1>1, <1>2, <1>3, <2>1 DEF TypeOK
  <2>5. Claimed(k)' => Tracked(k)'
    BY <2>0, <2>1, <2>3 DEF SightInvariant, UnwindsInOrder
  <2>6. UnwindsInOrder'
    BY <2>4 DEF UnwindsInOrder
  <2> QED BY <1>3, <2>0, <2>1, <2>3, <2>4, <2>5, <2>6, UnwindSight
<1>7. CASE Rerecord
  <2>0. PICK k \in Issue : k = jan.issue
    BY <1>7 DEF Rerecord, TypeOK, JanState
  <2>1. /\ UNCHANGED <<labels, assignees, pr, latest, dsp, wk>> /\ jan'.pc = "idle"
        /\ grants' = [grants EXCEPT ![k] = jan.worker] /\ expired' = expired \ {k}
        /\ jan.worker # None /\ jan.pc = "rerecord"
    BY <1>2, <1>7, <2>0 DEF Rerecord, RecordGrant, OwnershipInvariant, ReleasedRowIsKnown, UnwindPcs
  <2>2. \A i \in Issue : /\ Claimed(i)' = Claimed(i) /\ Released(i)' = Released(i)
                         /\ Tracked(i) \/ i = k => Tracked(i)'
                         /\ grants[i] # None => grants'[i] # None
                         /\ Unwinding(i) => i = k
    BY <2>0, <2>1 DEF Claimed, Released, Tracked, Marked, Live, Unwinding, TypeOK
  <2>3. PassKeepsRow'
    <3>1. dsp.pc \in Granting => dsp.issue \in Issue
      BY DEF OwnershipInvariant, PassIsExclusive, Granting
    <3> QED BY <2>1, <2>2, <3>1 DEF SightInvariant, PassKeepsRow
  <2>4. EndsVisibly'
    <3>1. \A w \in Worker, i \in Issue : wk'[w].issue = i /\ wk'[w].pc \in LastPcs => Released(i)'
      BY <2>1, <2>2 DEF SightInvariant, EndsVisibly
    <3> QED BY <2>1, <3>1 DEF EndsVisibly
  <2>5. UnwindsInOrder' /\ InSight'
    BY <2>1, <2>2 DEF UnwindsInOrder, SightInvariant, InSight
  <2> QED BY <2>3, <2>4, <2>5 DEF SightInvariant
<1>8. CASE ReleaseRow
  BY <1>8, RowSight DEF OwnershipInvariant
<1> QED BY <1>4, <1>5, <1>6, <1>7, <1>8 DEF ReleaseStep

LEMMA JanitorSight ==
  ASSUME TypeOK, OwnershipInvariant, SightInvariant, JanitorStep
  PROVE  SightInvariant'
<1>1. ASSUME NEW i \in Issue, SweepClear(i) PROVE SightInvariant'
  BY <1>1, GitHubStays, CacheStays, RowsStay, PassStays, AllEndLike, SightStep
     DEF SweepClear, github
<1>2. ASSUME NEW i \in Issue, SweepFlag(i) PROVE SightInvariant'
  <2>1. jan'.pc = "verify" /\ jan.pc = "idle"
    BY <1>2 DEF SweepFlag, IdleJan
  <2> QED BY <1>2, <2>1, SweepSight DEF SweepFlag, UnwindPcs, github
<1> QED BY <1>1, <1>2, SweepStepSight, ReleaseStepSight, LookSight DEF JanitorStep

(* What humans write releases the issue; the window spares the pass.       *)
LEMMA EnvironmentSight ==
  ASSUME PromptPass, TypeOK, SightInvariant, Environment
  PROVE  SightInvariant'
<1> USE DEF control, github
<1>1. ASSUME UNCHANGED <<grants, latest, dsp, jan, wk>>, PassLosesNoRow,
             \A i \in Issue : NoWorse(i)
      PROVE  SightInvariant'
  BY <1>1, CacheStays, PassStays, AllEndLike, SightStep
<1>2. ASSUME NEW w \in Worker, CutLink(w) \/ GraceElapses(w) \/ Heal(w) \/ Unquarantine(w)
      PROVE  SightInvariant'
  BY <1>1, <1>2, GitHubStays, RowsStay DEF CutLink, GraceElapses, Heal, Unquarantine
<1>3. ASSUME NEW w \in Worker, DriverDies(w) PROVE SightInvariant'
  <2>1. PassYields
    BY <1>3 DEF DriverDies, PassYields, TypeOK, DspState
  <2>2. \A v \in Worker : EndsLikeBefore(v)
    BY <1>3, OneEndsLike DEF DriverDies, DownWk, LastPcs, TypeOK
  <2> QED BY <1>3, <2>1, <2>2, GitHubStays, CacheStays, RowsStay, SightStep DEF DriverDies
<1>4. ASSUME NEW i \in Issue, WindowElapses(i) PROVE SightInvariant'
  <2>1. PassLosesNoRow
    BY <1>4 DEF WindowElapses, PassLosesNoRow
  <2> QED BY <1>1, <1>4, <2>1, GitHubStays DEF WindowElapses
<1>5. ASSUME NEW i \in Issue, HumanRequeue(i) PROVE SightInvariant'
  <2>1. PICK kept \in {{}, {"failed"}} : labels' = [labels EXCEPT ![i] = {"plan_ready"} \cup kept]
    BY <1>5 DEF HumanRequeue
  <2>2. UNCHANGED <<pr, grants, expired, latest, dsp, jan, wk>>
        /\ assignees' = [assignees EXCEPT ![i] = {}]
    BY <1>5 DEF HumanRequeue
  <2>3. \A j \in Issue : NoWorse(j)
    BY <2>1, <2>2 DEF NoWorse, Released, Marked, Claimed, TypeOK
  <2> QED BY <1>1, <2>2, <2>3, RowsStay
<1>6. ASSUME NEW i \in Issue, Revise(i) PROVE SightInvariant'
  <2>1. \A j \in Issue : NoWorse(j)
    BY <1>6 DEF Revise, NoWorse, Released, Marked, Claimed, TypeOK
  <2> QED BY <1>1, <1>6, <2>1, RowsStay DEF Revise
<1>7. CASE ControlCrash
  <2>1. \A v \in Worker : wk'[v] = wk[v] \/ wk'[v].pc = "idle"
    BY <1>7 DEF ControlCrash, IdleWk
  <2>2. \A v \in Worker : EndsLikeBefore(v)
    BY <2>1 DEF EndsLikeBefore, LastPcs
  <2>3. jan'.pc = "idle" /\ dsp'.pc = "free" /\ dsp'.open = {} /\ jan'.pc \notin UnwindPcs
    BY <1>7 DEF ControlCrash, IdleJan, FreeDsp, UnwindPcs
  <2>4. CASE jan.pc \notin UnwindPcs
    BY <1>7, <2>2, <2>3, <2>4, GitHubStays, CacheStays, RowsStay, PassEnds, SightStep
       DEF ControlCrash
  <2>5. CASE CrashInUnwind
    <3>1. UNCHANGED <<labels, assignees, pr, grants, expired, latest>>
      BY <1>7 DEF ControlCrash
    <3>2. \A i \in Issue : Released(i)' = Released(i)
      BY <3>1 DEF Released, Marked, Claimed
    <3>3. \A w \in Worker, i \in Issue : wk'[w].issue = i /\ wk'[w].pc \in LastPcs => Released(i)'
      BY <2>1, <3>2 DEF SightInvariant, EndsVisibly, LastPcs
    <3> QED BY <2>3, <2>5, <3>3
            DEF SightInvariant, PassKeepsRow, EndsVisibly, UnwindsInOrder, InSight, Granting
  <2> QED BY <1>7, <2>4, <2>5 DEF ControlCrash
<1> QED BY <1>2, <1>3, <1>4, <1>5, <1>6, <1>7 DEF Environment

(* As long as a pass ends within the activation window, its row outlives   *)
(* it and no claim ends out of sight (WindowElapses, _granting_pass).      *)
THEOREM SightIsInvariant == ASSUME Timely, PromptPass PROVE Spec => []SightInvariant
<1>1. Init => SightInvariant
  BY DEF Init, SightInvariant, PassKeepsRow, EndsVisibly, UnwindsInOrder, InSight, Claimed, FreeDsp,
         IdleJan, IdleWk, Granting, LastPcs
<1>2. TypeOK /\ SightInvariant /\ UNCHANGED vars => SightInvariant'
  BY GitHubStays, CacheStays, RowsStay, PassStays, AllEndLike, SightStep DEF vars
<1>3. TypeOK /\ OwnershipInvariant /\ SightInvariant /\ [Next]_vars => SightInvariant'
  BY <1>2, DispatchSight, DriverSight, JanitorSight, EnvironmentSight DEF Next
<1> QED BY <1>1, <1>3, TypeCorrect, OwnershipIsInvariant, PTL DEF Spec

(* If moreover the Control Node does not die inside                        *)
(* release_never_activated, no claim and no issue falls through, whatever  *)
(* raises, dies or is lost (_granting_pass, _sweep_one, _escalate_claim).  *)
THEOREM NothingIsLost ==
  ASSUME Timely, PromptPass, ~CrashInUnwind PROVE Spec => []NothingFallsThrough
<1>1. SightInvariant => NothingFallsThrough
  BY DEF SightInvariant, InSight, NothingFallsThrough, ClaimTracked, NeverInvisible, Tracked, Marked
<1> QED BY <1>1, SightIsInvariant, PTL

----------------------------------------------------------------------------
(* The claim on GitHub, until the first fault of GitHub, the links or the  *)
(* Control Node. Drivers may die and events may get lost.                  *)

(* Nobody holds a live claim of which the sweep takes hold: its driver died*)
(* or its last event was lost, and no pass grants it again.                *)
Dead(i) == Live(i) /\ \A w \in Worker : ~Holds(w, i)

(* A driver that is cut off or silent has died, and holds nothing.         *)
LinkedDrivers ==
  /\ \A w \in Worker : /\ silent[w] => ~link[w]
                       /\ ~link[w] => wk[w].pc \in {"idle", "down"}
  /\ dsp.waiting => dsp.worker \in Worker /\ link[dsp.worker]

(* Until its PR is ready, or its escalation marked, a driver works on an   *)
(* issue that is its own on GitHub.                                        *)
WorkPcs == {"claiming", "relaunching", "running", "broken", "failing", "escalating", "shipping"}
Works(w, i) == wk[w].issue = i /\ wk[w].pc \in WorkPcs
Owned(w, i) ==
  w \in assignees[i] /\ "in_progress" \in labels[i] /\ "plan_ready" \notin labels[i] /\ ~Marked(i)

Writing(i) == dsp.pc \notin {"free", "reading"} /\ dsp.issue = i
Sweeping(i) == jan.pc \in SweepPcs /\ jan.issue = i

(* Where the pass stands with the issue it grants.                         *)
PassClean(i) ==
  /\ i \in dsp.open => ~Live(i) /\ (grants[i] # None => dsp.pc \in Granting)
  /\ Writing(i) =>
       /\ ~Marked(i) /\ ~Unwinding(i)
       /\ dsp.pc \in {"assigned", "labelled", "granted"} => dsp.worker \in assignees[i]
       /\ dsp.pc \in {"labelled", "granted"} => "in_progress" \in labels[i]
       /\ dsp.pc = "granted" => "plan_ready" \notin labels[i]

(* A row is a grant that nobody has activated; only its pass leaves it in  *)
(* the pool for a moment.                                                  *)
RowClean(i) ==
  grants[i] # None =>
    ~Live(i) /\ ~Marked(i) /\ (i \notin dsp.open => "plan_ready" \notin labels[i])

UnwindClean(i) ==
  Unwinding(i) =>
    /\ grants[i] = None /\ ~Live(i) /\ ~Marked(i) /\ "plan_ready" \notin labels[i]
    /\ \A w \in Worker : ~Holds(w, i)

SweepClean(i) ==
  Sweeping(i) => Dead(i) /\ (jan.pc \in {"evidence", "escalate"} => pr[i] # "pr_ready")

HolderClean(i) ==
  \A w \in Worker : /\ Live(i) /\ Holds(w, i) => latest[i].worker = w
                    /\ Works(w, i) => Owned(w, i)

ReadyClean(i) == pr[i] = "pr_ready" => labels[i] \cap {"plan_ready", "failed"} = {}

IssueClean(i) ==
  PassClean(i) /\ RowClean(i) /\ UnwindClean(i) /\ SweepClean(i) /\ HolderClean(i) /\ ReadyClean(i)

CleanInvariant ==
  /\ LinkedDrivers /\ jan.pc # "rerecord"
  /\ dsp.pc = "reading" => dsp.issue = None
  /\ \A i \in Issue : IssueClean(i)

(* An issue that a step does not touch: its state is the same, and the     *)
(* threads go on with it or let go of it.                                  *)
SameIssue(i) ==
  /\ labels'[i] = labels[i] /\ assignees'[i] = assignees[i] /\ pr'[i] = pr[i]
  /\ grants'[i] = grants[i] /\ latest'[i] = latest[i]

PassLeaves(i) ==
  /\ i \in dsp'.open => i \in dsp.open /\ (dsp.pc \in Granting => dsp'.pc \in Granting)
  /\ i \in dsp.open /\ i \notin dsp'.open =>
       dsp.pc \notin Granting \/ "plan_ready" \notin labels[i]
  /\ dsp'.pc \notin {"free", "reading"} /\ dsp'.issue = i =>
       Writing(i) /\ dsp'.pc = dsp.pc /\ dsp'.worker = dsp.worker

JanitorLeaves(i) ==
  jan'.issue = i =>
    /\ jan'.pc \in UnwindPcs => Unwinding(i)
    /\ jan'.pc \in SweepPcs => Sweeping(i)
    /\ jan'.pc \in {"evidence", "escalate"} => jan.pc \in {"evidence", "escalate"}

DriversLeave(i) ==
  \A w \in Worker : (Holds(w, i)' => Holds(w, i)) /\ (Works(w, i)' => Works(w, i))

LEMMA Elsewhere ==
  ASSUME TypeOK, NEW i \in Issue, IssueClean(i), SameIssue(i), PassLeaves(i), JanitorLeaves(i),
         DriversLeave(i)
  PROVE  IssueClean(i)'
<1> USE DEF IssueClean, SameIssue
<1>1. /\ Live(i)' = Live(i) /\ Marked(i)' = Marked(i)
      /\ \A w \in Worker : Owned(w, i)' = Owned(w, i)
  BY DEF Live, Marked, Owned
<1>2. PassClean(i)'
  <2>1. Unwinding(i)' => Unwinding(i)
    BY DEF JanitorLeaves, Unwinding
  <2>2. Writing(i)' => Writing(i) /\ dsp'.pc = dsp.pc /\ dsp'.worker = dsp.worker
    BY DEF PassLeaves, Writing
  <2> QED BY <1>1, <2>1, <2>2 DEF PassClean, PassLeaves
<1>3. RowClean(i)'
  BY <1>1 DEF RowClean, PassClean, PassLeaves
<1>4. UnwindClean(i)'
  BY <1>1 DEF UnwindClean, JanitorLeaves, DriversLeave, Unwinding
<1>5. SweepClean(i)'
  <2>1. Sweeping(i)' => Sweeping(i) /\ (jan'.pc \in {"evidence", "escalate"} => jan.pc \in {"evidence", "escalate"})
    BY DEF JanitorLeaves, Sweeping
  <2>2. Dead(i) => Dead(i)'
    BY <1>1 DEF Dead, DriversLeave
  <2> QED BY <2>1, <2>2 DEF SweepClean
<1>6. HolderClean(i)'
  BY <1>1 DEF HolderClean, DriversLeave
<1>7. ReadyClean(i)'
  BY DEF ReadyClean
<1> QED BY <1>2, <1>3, <1>4, <1>5, <1>6, <1>7

(* A step that touches no issue but t.                                     *)
LEMMA TouchClean ==
  ASSUME TypeOK, CleanInvariant, NEW t \in Issue \cup {None}, LinkedDrivers', jan'.pc # "rerecord",
         dsp'.pc = "reading" => dsp'.issue = None,
         \A i \in Issue \ {t} : SameIssue(i) /\ PassLeaves(i) /\ JanitorLeaves(i) /\ DriversLeave(i),
         t \in Issue => IssueClean(t)'
  PROVE  CleanInvariant'
<1>1. \A i \in Issue \ {t} : IssueClean(i)'
  BY Elsewhere DEF CleanInvariant
<1>2. \A i \in Issue : IssueClean(i)'
  BY <1>1
<1> QED BY <1>2 DEF CleanInvariant

LEMMA TouchNone ==
  ASSUME TypeOK, CleanInvariant, LinkedDrivers', jan'.pc # "rerecord",
         dsp'.pc = "reading" => dsp'.issue = None,
         \A i \in Issue : SameIssue(i) /\ PassLeaves(i) /\ JanitorLeaves(i) /\ DriversLeave(i)
  PROVE  CleanInvariant'
BY TouchClean, ConstantsAssumption

LEMMA AllSame ==
  ASSUME UNCHANGED <<labels, assignees, pr, grants, latest>>
  PROVE  \A i \in Issue : SameIssue(i)
BY DEF SameIssue

LEMMA PassStill ==
  ASSUME UNCHANGED dsp
  PROVE  \A i \in Issue : PassLeaves(i)
BY DEF PassLeaves, Writing

LEMMA JanitorStill ==
  ASSUME UNCHANGED jan
  PROVE  \A i \in Issue : JanitorLeaves(i)
BY DEF JanitorLeaves, Unwinding, Sweeping

LEMMA DriversStill ==
  ASSUME UNCHANGED wk
  PROVE  \A i \in Issue : DriversLeave(i)
BY DEF DriversLeave, Holds, Activated, Claiming, Works

(* A driver that lets go, goes on, or changes its issue touches no other.  *)
LEMMA OneLeaves ==
  ASSUME TypeOK, NEW w \in Worker, \A v \in Worker \ {w} : wk'[v] = wk[v], NEW i \in Issue,
         \/ wk'[w].issue # i
         \/ wk'[w].pc \notin ActivatedPcs \cup {"claiming", "shipping"}
         \/ /\ wk'[w].issue = wk[w].issue
            /\ wk[w].pc \in ActivatedPcs \cup {"claiming"}
            /\ wk'[w].pc \in WorkPcs => wk[w].pc \in WorkPcs
  PROVE  DriversLeave(i)
<1>1. \A v \in Worker \ {w} : (Holds(v, i)' => Holds(v, i)) /\ (Works(v, i)' => Works(v, i))
  BY DEF Holds, Activated, Claiming, Works
<1>2. (Holds(w, i)' => Holds(w, i)) /\ (Works(w, i)' => Works(w, i))
  BY DEF Holds, Activated, Claiming, Works, ActivatedPcs, WorkPcs
<1> QED BY <1>1, <1>2 DEF DriversLeave

LEMMA LinksStay ==
  ASSUME TypeOK, LinkedDrivers, UNCHANGED <<link, silent>>,
         dsp'.waiting => dsp.waiting /\ dsp'.worker = dsp.worker,
         \A v \in Worker : \/ wk'[v].pc \in {"idle", "down"}
                           \/ wk[v].pc \notin {"idle", "down"}
                           \/ link[v]
  PROVE  LinkedDrivers'
BY DEF LinkedDrivers

(* The pass.                                                               *)
LEMMA DspMoves ==
  ASSUME TypeOK, NEW loc \in DspPcs, DspGoto(loc)
  PROVE  /\ dsp'.pc = loc /\ dsp'.issue = dsp.issue /\ dsp'.worker = dsp.worker
         /\ dsp'.open = dsp.open /\ dsp'.waiting = dsp.waiting /\ wk' = wk
BY DEF DspGoto, TypeOK, DspState

LEMMA ReadClean ==
  ASSUME TypeOK, CleanInvariant, NEW w \in Worker, DispatchRead(w)
  PROVE  CleanInvariant'
<1>1. /\ dsp.pc = "free" /\ dsp'.pc = "reading" /\ dsp'.issue = None /\ dsp'.worker = w
      /\ dsp'.open = {i \in Issue : grants[i] = None /\ ~Live(i)} /\ wk[w].pc = "asking"
      /\ UNCHANGED <<labels, assignees, pr, grants, latest, jan, wk, link, silent>>
  BY DEF DispatchRead, github, control
<1>2. LinkedDrivers'
  BY <1>1 DEF CleanInvariant, LinkedDrivers
<1>3. ASSUME NEW i \in Issue PROVE IssueClean(i)'
  <2>0. IssueClean(i)
    BY DEF CleanInvariant
  <2>1. /\ Live(i)' = Live(i) /\ Marked(i)' = Marked(i) /\ Unwinding(i)' = Unwinding(i)
        /\ Sweeping(i)' = Sweeping(i) /\ ~Writing(i)' /\ Dead(i)' = Dead(i)
        /\ \A v \in Worker : /\ Owned(v, i)' = Owned(v, i) /\ Holds(v, i)' = Holds(v, i)
                             /\ Works(v, i)' = Works(v, i)
    BY <1>1 DEF Live, Marked, Unwinding, Sweeping, Writing, Dead, Owned, Holds, Activated, Claiming,
                Works
  <2>2. PassClean(i)'
    BY <1>1, <2>1 DEF PassClean, Live
  <2>3. RowClean(i)'
    <3>1. i \in dsp.open => grants[i] = None
      BY <1>1, <2>0 DEF IssueClean, PassClean, Granting
    <3> QED BY <1>1, <2>0, <2>1, <3>1 DEF IssueClean, RowClean
  <2>4. UnwindClean(i)' /\ SweepClean(i)' /\ HolderClean(i)' /\ ReadyClean(i)'
    BY <1>1, <2>0, <2>1 DEF IssueClean, UnwindClean, SweepClean, HolderClean, ReadyClean
  <2> QED BY <2>2, <2>3, <2>4 DEF IssueClean
<1> QED BY <1>1, <1>2, <1>3 DEF CleanInvariant

LEMMA PickClean ==
  ASSUME TypeOK, CleanInvariant, NEW t \in Issue, DispatchPick(t)
  PROVE  CleanInvariant'
<1>1. /\ dsp.pc = "reading" /\ t \in dsp.open /\ dsp.issue = None
      /\ "plan_ready" \in labels[t] /\ "failed" \notin labels[t]
      /\ dsp'.pc = "picked" /\ dsp'.issue = t /\ dsp'.open = {t}
      /\ dsp'.worker = dsp.worker /\ dsp'.waiting = dsp.waiting
      /\ UNCHANGED <<labels, assignees, pr, grants, latest, jan, wk, link, silent>>
  BY DEF DispatchPick, Grantable, github, control, CleanInvariant, TypeOK, DspState
<1>2. LinkedDrivers'
  BY <1>1, LinksStay DEF CleanInvariant
<1>3. \A i \in Issue \ {t} : PassLeaves(i)
  BY <1>1 DEF PassLeaves, Granting
<1>4. IssueClean(t)'
  <2>0. IssueClean(t)
    BY DEF CleanInvariant
  <2>1. /\ Live(t)' = Live(t) /\ Marked(t)' = Marked(t) /\ Unwinding(t)' = Unwinding(t)
        /\ Sweeping(t)' = Sweeping(t) /\ Dead(t)' = Dead(t)
        /\ \A v \in Worker : /\ Owned(v, t)' = Owned(v, t) /\ Holds(v, t)' = Holds(v, t)
                             /\ Works(v, t)' = Works(v, t)
    BY <1>1 DEF Live, Marked, Unwinding, Sweeping, Dead, Owned, Holds, Activated, Claiming, Works
  <2>2. ~Marked(t) /\ ~Unwinding(t)
    BY <1>1, <2>0 DEF IssueClean, ReadyClean, UnwindClean, Marked
  <2>3. PassClean(t)' /\ RowClean(t)'
    BY <1>1, <2>0, <2>1, <2>2 DEF IssueClean, PassClean, RowClean, Granting
  <2>4. UnwindClean(t)' /\ SweepClean(t)' /\ HolderClean(t)' /\ ReadyClean(t)'
    BY <1>1, <2>0, <2>1 DEF IssueClean, UnwindClean, SweepClean, HolderClean, ReadyClean
  <2> QED BY <2>3, <2>4 DEF IssueClean
<1>5. /\ jan'.pc # "rerecord" /\ dsp'.pc # "reading"
      /\ \A i \in Issue : SameIssue(i) /\ JanitorLeaves(i) /\ DriversLeave(i)
  BY <1>1, AllSame, JanitorStill, DriversStill DEF CleanInvariant
<1> QED BY <1>2, <1>3, <1>4, <1>5, TouchClean

(* What the pass writes is about an issue that is its own: no row but its  *)
(* own, no mark, no holder, no unwinding and no sweep.                     *)
LEMMA WriteClean ==
  ASSUME TypeOK, OwnershipInvariant, CleanInvariant, NEW t \in Issue, Writing(t),
         NEW loc \in Granting, DspGoto(loc),
         UNCHANGED <<pr, latest, jan, link, silent>>,
         dsp.pc # "picked" => UNCHANGED grants,
         \A i \in Issue \ {t} : labels'[i] = labels[i] /\ assignees'[i] = assignees[i]
                                /\ grants'[i] = grants[i],
         "failed" \in labels'[t] => "failed" \in labels[t],
         loc \in {"assigned", "labelled", "granted"} => dsp.worker \in assignees'[t],
         loc \in {"labelled", "granted"} => "in_progress" \in labels'[t],
         loc = "granted" => "plan_ready" \notin labels'[t]
  PROVE  CleanInvariant'
<1>0. dsp.issue = t /\ dsp.open = {t} /\ (\A v \in Worker : ~Holds(v, t)) /\ IssueClean(t)
  BY DEF OwnershipInvariant, PassIsExclusive, Writing, CleanInvariant
<1>1. /\ dsp'.pc = loc /\ dsp'.issue = t /\ dsp'.worker = dsp.worker
      /\ dsp'.open = {t} /\ dsp'.waiting = dsp.waiting /\ wk' = wk
      /\ loc \notin {"free", "reading"}
  BY <1>0, DspMoves DEF Granting, DspPcs
<1>2. LinkedDrivers'
  BY <1>1, LinksStay DEF CleanInvariant
<1>3. \A i \in Issue \ {t} : PassLeaves(i) /\ SameIssue(i)
  BY <1>0, <1>1 DEF PassLeaves, SameIssue
<1>4. ~Live(t) /\ ~Marked(t) /\ ~Unwinding(t) /\ ~Sweeping(t)
  BY <1>0 DEF IssueClean, PassClean, SweepClean, Writing, Dead
<1>5. /\ ~Live(t)' /\ ~Marked(t)' /\ ~Unwinding(t)' /\ ~Sweeping(t)'
      /\ \A v \in Worker : ~Holds(v, t)'
  BY <1>0, <1>1, <1>4 DEF Live, Marked, Unwinding, Sweeping, Holds, Activated, Claiming
<1>6. PassClean(t)' /\ RowClean(t)' /\ UnwindClean(t)' /\ SweepClean(t)'
  BY <1>1, <1>5 DEF PassClean, RowClean, UnwindClean, SweepClean
<1>7. HolderClean(t)' /\ ReadyClean(t)'
  <2>1. \A v \in Worker : ~Works(v, t)'
    <3>1. WorkPcs \subseteq ActivatedPcs \cup {"claiming"}
      BY DEF WorkPcs, ActivatedPcs
    <3> QED BY <1>5, <3>1 DEF Works, Holds, Activated, Claiming
  <2> QED BY <1>5, <2>1 DEF HolderClean, ReadyClean, Marked
<1>8. IssueClean(t)'
  BY <1>6, <1>7 DEF IssueClean
<1> QED BY <1>1, <1>2, <1>3, <1>8, JanitorStill, DriversStill, TouchClean DEF CleanInvariant

(* The pass ends without having written.                                   *)
LEMMA EndsClean ==
  ASSUME TypeOK, CleanInvariant, dsp.pc \notin Granting,
         UNCHANGED <<labels, assignees, pr, grants, latest, jan, link, silent>>,
         dsp' = dsp \/ dsp' = FreeDsp, NEW w \in Worker,
         wk' = wk \/ wk' = [wk EXCEPT ![w] = IdleWk]
  PROVE  CleanInvariant'
<1>1. \A i \in Issue : PassLeaves(i)
  BY DEF PassLeaves, FreeDsp, Writing
<1>2. \A i \in Issue : DriversLeave(i)
  <2>1. CASE wk' = wk
    BY <2>1, DriversStill
  <2>2. CASE wk' = [wk EXCEPT ![w] = IdleWk]
    <3>1. /\ wk'[w].pc = "idle" /\ \A v \in Worker \ {w} : wk'[v] = wk[v]
      BY <2>2 DEF IdleWk, TypeOK
    <3> QED BY <3>1, OneLeaves DEF ActivatedPcs
  <2> QED BY <2>1, <2>2
<1>3. LinkedDrivers'
  <2>1. \A v \in Worker : wk'[v] = wk[v] \/ wk'[v].pc = "idle"
    BY DEF IdleWk, TypeOK
  <2>2. dsp'.waiting => dsp.waiting /\ dsp'.worker = dsp.worker
    BY DEF FreeDsp
  <2> QED BY <2>1, <2>2, LinksStay DEF CleanInvariant
<1>4. dsp'.pc = "reading" => dsp'.issue = None
  BY DEF CleanInvariant, FreeDsp
<1> QED BY <1>1, <1>2, <1>3, <1>4, AllSame, JanitorStill, TouchNone DEF CleanInvariant

(* The answer: the claim on GitHub is complete, and its driver listens on a*)
(* live link, or nobody listens and the row waits for the window.          *)
LEMMA ReplyClean ==
  ASSUME TypeOK, OwnershipInvariant, CleanInvariant, DispatchReply
  PROVE  CleanInvariant'
<1>0. PICK t \in Issue : t = dsp.issue
  BY DEF DispatchReply, OwnershipInvariant, PassIsExclusive
<1>1. /\ dsp.pc = "granted" /\ dsp' = FreeDsp /\ dsp.open = {t} /\ dsp.worker \in Worker
      /\ UNCHANGED <<labels, assignees, pr, grants, latest, jan, link, silent>>
      /\ (\A v \in Worker : ~Holds(v, t)) /\ IssueClean(t)
  BY <1>0 DEF DispatchReply, OwnershipInvariant, PassIsExclusive, CleanInvariant, TypeOK, DspState,
              github, control
<1>o. PICK o \in Worker : o = dsp.worker
  BY <1>1
<1>2. /\ ~Live(t) /\ ~Marked(t) /\ ~Unwinding(t) /\ ~Sweeping(t) /\ Owned(dsp.worker, t)
  BY <1>0, <1>1 DEF IssueClean, PassClean, SweepClean, Writing, Dead, Owned
<1>3. /\ dsp'.pc = "free" /\ dsp'.open = {} /\ ~dsp'.waiting
  BY <1>1 DEF FreeDsp
<1>4. \A i \in Issue : PassLeaves(i)
  BY <1>1, <1>2, <1>3 DEF PassLeaves, Owned, Granting
<1>5. LinkedDrivers'
  <2>1. \A v \in Worker : wk'[v] = wk[v] \/ wk'[v].pc = "idle" \/ (v = dsp.worker /\ dsp.waiting)
    BY DEF DispatchReply, IdleWk, TypeOK
  <2> QED BY <1>1, <1>3, <2>1 DEF CleanInvariant, LinkedDrivers
<1>6. \A v \in Worker \ {dsp.worker} : wk'[v] = wk[v]
  BY DEF DispatchReply, TypeOK
<1>7. \A i \in Issue \ {t} : DriversLeave(i)
  <2>1. wk'[dsp.worker] = wk[dsp.worker] \/ wk'[dsp.worker].pc = "idle" \/ wk'[dsp.worker].issue = t
    BY <1>0, <1>1 DEF DispatchReply, IdleWk, ClaimingWk, TypeOK
  <2>2. ASSUME NEW i \in Issue \ {t} PROVE DriversLeave(i)
    <3>1. CASE wk'[dsp.worker] = wk[dsp.worker]
      BY <1>6, <3>1 DEF DriversLeave, Holds, Activated, Claiming, Works
    <3>2. CASE wk'[dsp.worker].pc = "idle" \/ wk'[dsp.worker].issue = t
      BY <1>1, <1>6, <3>2, OneLeaves DEF ActivatedPcs
    <3> QED BY <2>1, <3>1, <3>2
  <2> QED BY <2>2
<1>8. IssueClean(t)'
  <2>1. /\ ~Live(t)' /\ ~Marked(t)' /\ ~Unwinding(t)' /\ ~Sweeping(t)' /\ ~Writing(t)'
        /\ Owned(o, t)' /\ "plan_ready" \notin labels'[t]
    <3>1. ~Live(t)' /\ ~Marked(t)' /\ Owned(o, t)'
      BY <1>1, <1>2, <1>o DEF Live, Marked, Owned
    <3>2. ~Unwinding(t)' /\ ~Sweeping(t)' /\ ~Writing(t)'
      BY <1>1, <1>2, <1>3 DEF Unwinding, Sweeping, Writing
    <3> QED BY <1>2, <3>1, <3>2 DEF Owned
  <2>2. \A v \in Worker \ {o} : ~Works(v, t)'
    <3>1. WorkPcs \subseteq ActivatedPcs \cup {"claiming"}
      BY DEF WorkPcs, ActivatedPcs
    <3> QED BY <1>1, <1>6, <1>o, <3>1 DEF Works, Holds, Activated, Claiming
  <2> QED BY <1>1, <1>3, <2>1, <2>2
          DEF IssueClean, PassClean, RowClean, UnwindClean, SweepClean, HolderClean, ReadyClean, Marked
<1> QED BY <1>1, <1>3, <1>4, <1>5, <1>7, <1>8, AllSame, JanitorStill, TouchClean DEF CleanInvariant

LEMMA DispatchClean ==
  ASSUME TypeOK, OwnershipInvariant, CleanInvariant, DispatchStep, ~Spend("fault")
  PROVE  CleanInvariant'
<1> USE DEF github, control
<1>1. ASSUME NEW w \in Worker, DispatchRefuse(w) PROVE CleanInvariant'
  BY <1>1, EndsClean DEF DispatchRefuse, Granting
<1>2. CASE DispatchNone
  <2>1. dsp.worker \in Worker
    BY <1>2 DEF DispatchNone, TypeOK, DspState
  <2> QED BY <1>2, <2>1, EndsClean DEF DispatchNone, DspAnswerNone, Granting
<1>3. ASSUME dsp.pc \in {"picked", "recorded", "assigned", "labelled"}
      PROVE  /\ dsp.issue \in Issue /\ Writing(dsp.issue) /\ IssueClean(dsp.issue)
             /\ dsp.worker \in Worker /\ dsp.issue \in dsp.open
  BY <1>3 DEF OwnershipInvariant, PassIsExclusive, Writing, CleanInvariant, TypeOK, DspState
<1>4. CASE DispatchRecord
  BY <1>3, <1>4, WriteClean DEF DispatchRecord, RecordGrant, Granting, TypeOK
<1>5. CASE DispatchAssign
  <2>1. /\ assignees' = [assignees EXCEPT ![dsp.issue] = @ \cup {dsp.worker}] /\ DspGoto("assigned")
        /\ UNCHANGED <<labels, pr, grants, latest, jan, link, silent>> /\ dsp.pc = "recorded"
    BY <1>5 DEF DispatchAssign, GitHubCall
  <2> QED BY <1>3, <2>1, WriteClean DEF Granting, TypeOK
<1>6. CASE DispatchClaim
  <2>1. /\ labels' = [labels EXCEPT ![dsp.issue] = @ \cup {"in_progress"}] /\ DspGoto("labelled")
        /\ UNCHANGED <<assignees, pr, grants, latest, jan, link, silent>> /\ dsp.pc = "assigned"
    BY <1>6 DEF DispatchClaim, GitHubCall
  <2> QED BY <1>3, <2>1, WriteClean DEF Granting, TypeOK, IssueClean, PassClean
<1>7. CASE DispatchUnlabel
  <2>1. /\ labels' = [labels EXCEPT ![dsp.issue] = @ \ {"plan_ready"}] /\ DspGoto("granted")
        /\ UNCHANGED <<assignees, pr, grants, latest, jan, link, silent>> /\ dsp.pc = "labelled"
    BY <1>7 DEF DispatchUnlabel, GitHubCall
  <2> QED BY <1>3, <2>1, WriteClean DEF Granting, TypeOK, IssueClean, PassClean
<1> QED BY <1>1, <1>2, <1>4, <1>5, <1>6, <1>7, ReadClean, PickClean, ReplyClean DEF DispatchStep

(* A driver that holds an issue has it for itself.                         *)
LEMMA HeldAlone ==
  ASSUME TypeOK, OwnershipInvariant, CleanInvariant, NEW w \in Worker, NEW t \in Issue, Holds(w, t)
  PROVE  /\ t \notin dsp.open /\ ~Writing(t) /\ ~Unwinding(t) /\ ~Sweeping(t)
         /\ \A v \in Worker : Holds(v, t) => v = w
         /\ Activated(w, t) => grants[t] = None /\ Live(t) /\ latest[t].worker = w
         /\ Works(w, t) => Owned(w, t)
         /\ IssueClean(t)
<1>1. IssueClean(t)
  BY DEF CleanInvariant
<1>2. t \notin dsp.open /\ ~Writing(t)
  BY DEF OwnershipInvariant, PassIsExclusive, Writing
<1>3. ~Unwinding(t) /\ ~Sweeping(t)
  BY <1>1 DEF IssueClean, UnwindClean, SweepClean, Dead
<1>4. \A v \in Worker : Holds(v, t) => v = w
  BY DEF OwnershipInvariant, SingleOwner
<1>5. Activated(w, t) => grants[t] = None /\ Live(t) /\ latest[t].worker = w
  BY <1>1 DEF OwnershipInvariant, HoldersAreKnown, IssueClean, RowClean, HolderClean
<1>6. Works(w, t) => Owned(w, t)
  BY <1>1 DEF IssueClean, HolderClean
<1> QED BY <1>1, <1>2, <1>3, <1>4, <1>5, <1>6

(* A step of the driver that holds t, about t: what is left to show of it  *)
(* are the row, the event, its ownership, and that a ready PR is no claim. *)
LEMMA HolderStepClean ==
  ASSUME TypeOK, OwnershipInvariant, CleanInvariant, NEW w \in Worker, NEW t, t = wk[w].issue,
         wk[w].pc \in ActivatedPcs \cup {"claiming"},
         UNCHANGED <<dsp, jan, link, silent>>,
         \A v \in Worker \ {w} : wk'[v] = wk[v],
         wk'[w].issue = t \/ wk'[w].pc \in {"idle", "closing"},
         \A i \in Issue \ {t} : SameIssue(i),
         t \in Issue => /\ grants'[t] # None => ~Live(t)' /\ ~Marked(t)' /\ "plan_ready" \notin labels'[t]
                        /\ Holds(w, t)' /\ Live(t)' => latest'[t].worker = w
                        /\ Works(w, t)' => Owned(w, t)'
                        /\ ReadyClean(t)'
  PROVE  CleanInvariant'
<1>1. t \in Issue \cup {None}
  BY DEF TypeOK, WkState
<1>2. LinkedDrivers'
  BY LinksStay DEF CleanInvariant, ActivatedPcs
<1>3. \A i \in Issue \ {t} : DriversLeave(i)
  BY OneLeaves DEF ActivatedPcs
<1>4. ASSUME t \in Issue PROVE IssueClean(t)'
  <2>1. Holds(w, t)
    BY <1>4 DEF Holds, Activated, Claiming
  <2>2. /\ t \notin dsp'.open /\ ~Writing(t)' /\ ~Unwinding(t)' /\ ~Sweeping(t)'
    BY <1>4, <2>1, HeldAlone DEF Writing, Unwinding, Sweeping
  <2>3. \A v \in Worker : Holds(v, t)' \/ Works(v, t)' => v = w
    <3>1. ASSUME NEW v \in Worker \ {w} PROVE ~Holds(v, t)' /\ ~Works(v, t)'
      <4>1. ~Holds(v, t)
        BY <1>4, <2>1, HeldAlone
      <4> QED BY <4>1 DEF Holds, Activated, Claiming, Works, WorkPcs, ActivatedPcs, TypeOK, WkState
    <3> QED BY <3>1
  <2>4. PassClean(t)' /\ UnwindClean(t)' /\ SweepClean(t)' /\ RowClean(t)'
    BY <1>4, <2>2 DEF PassClean, UnwindClean, SweepClean, RowClean
  <2>5. HolderClean(t)'
    BY <1>4, <2>3 DEF HolderClean
  <2> QED BY <1>4, <2>4, <2>5 DEF IssueClean
<1> QED BY <1>1, <1>2, <1>3, <1>4, PassStill, JanitorStill, TouchClean DEF CleanInvariant

(* One of its events. The claimed event is the one that retires a row.     *)
LEMMA EventClean ==
  ASSUME TypeOK, OwnershipInvariant, CleanInvariant, NEW w \in Worker,
         NEW p \in {"claimed", "failed", "pr-open", "escalated"},
         NEW landed \in BOOLEAN, NEW acked \in BOOLEAN,
         Emit(w, wk[w].issue, wk[w].run, p, landed, acked),
         UNCHANGED <<labels, assignees, pr, dsp, jan, link, silent>>,
         wk[w].pc \in ActivatedPcs \cup {"claiming"}, p # "claimed" => wk[w].pc # "claiming",
         \A v \in Worker \ {w} : wk'[v] = wk[v],
         wk'[w].issue = wk[w].issue \/ wk'[w].pc \in {"idle", "closing"},
         wk'[w].pc \in WorkPcs => wk[w].pc \in WorkPcs
  PROVE  CleanInvariant'
<1>0. PICK t \in Issue \cup {None} : t = wk[w].issue
  BY DEF TypeOK, WkState
<1>1. \A i \in Issue \ {t} : SameIssue(i)
  <2>1. CASE p = "claimed"
    BY <1>0, <2>1, ClaimedEffect DEF SameIssue
  <2>2. CASE p # "claimed"
    BY <1>0, <2>2, OtherEffect DEF SameIssue
  <2> QED BY <2>1, <2>2
<1>2. ASSUME t \in Issue
      PROVE  /\ grants'[t] # None => ~Live(t)' /\ ~Marked(t)' /\ "plan_ready" \notin labels'[t]
             /\ Holds(w, t)' /\ Live(t)' => latest'[t].worker = w
             /\ Works(w, t)' => Owned(w, t)'
             /\ ReadyClean(t)'
  <2>1. Holds(w, t) /\ (wk[w].pc # "claiming" => Activated(w, t))
    BY <1>0 DEF Holds, Activated, Claiming
  <2>2. /\ t \notin dsp.open /\ IssueClean(t)
        /\ Activated(w, t) => grants[t] = None
        /\ Works(w, t) => Owned(w, t)
        /\ Live(t) => latest[t].worker = w
    BY <1>2, <2>1, HeldAlone DEF IssueClean, HolderClean
  <2>3. CASE landed
    <3>1. latest'[t].worker = w
      BY <1>0, <1>2, <2>3 DEF Emit, RecordEvent, TypeOK
    <3>2. grants'[t] = None
      <4>1. CASE p = "claimed"
        BY <1>0, <1>2, <2>3, <4>1 DEF Emit, RecordEvent, TypeOK
      <4>2. CASE p # "claimed"
        BY <1>0, <1>2, <2>1, <2>2, <4>2, OtherEffect, SMTT(60)
      <4> QED BY <4>1, <4>2
    <3>3. Works(w, t)' => Owned(w, t)'
      BY <1>0, <2>2 DEF Works, Owned, Marked, WorkPcs
    <3> QED BY <2>2, <3>1, <3>2, <3>3 DEF IssueClean, ReadyClean
  <2>4. CASE ~landed
    <3>1. UNCHANGED <<grants, latest>>
      BY <2>4 DEF Emit, control
    <3>2. Works(w, t)' => Owned(w, t)'
      BY <1>0, <2>2 DEF Works, Owned, Marked, WorkPcs
    <3>3. Live(t)' => latest'[t].worker = w
      BY <2>2, <3>1 DEF Live
    <3>4. grants'[t] # None => ~Live(t)' /\ ~Marked(t)' /\ "plan_ready" \notin labels'[t]
      BY <2>2, <3>1 DEF IssueClean, RowClean, Live, Marked
    <3> QED BY <2>2, <3>2, <3>3, <3>4 DEF IssueClean, ReadyClean
  <2> QED BY <2>3, <2>4
<1> QED BY <1>0, <1>1, <1>2, HolderStepClean

(* What it does on GitHub, or on its own.                                  *)
LEMMA ActClean ==
  ASSUME TypeOK, OwnershipInvariant, CleanInvariant, NEW w \in Worker, NEW t, t = wk[w].issue,
         wk[w].pc \in ActivatedPcs, UNCHANGED <<control, dsp, jan, link, silent>>,
         \A v \in Worker \ {w} : wk'[v] = wk[v],
         wk'[w].issue = t \/ wk'[w].pc \in {"idle", "closing"},
         \A i \in Issue \ {t} : labels'[i] = labels[i] /\ assignees'[i] = assignees[i] /\ pr'[i] = pr[i],
         t \in Issue /\ wk'[w].pc \in WorkPcs =>
           /\ wk[w].pc \in WorkPcs /\ UNCHANGED <<labels, assignees>>
           /\ pr'[t] = "pr_ready" => pr[t] = "pr_ready",
         t \in Issue => ReadyClean(t)'
  PROVE  CleanInvariant'
<1>1. \A i \in Issue \ {t} : SameIssue(i)
  BY DEF SameIssue, control
<1>2. ASSUME t \in Issue
      PROVE  /\ grants'[t] # None => ~Live(t)' /\ ~Marked(t)' /\ "plan_ready" \notin labels'[t]
             /\ Holds(w, t)' /\ Live(t)' => latest'[t].worker = w
             /\ Works(w, t)' => Owned(w, t)'
  <2>1. grants[t] = None /\ latest[t].worker = w /\ (Works(w, t) => Owned(w, t))
    BY <1>2, HeldAlone DEF Holds, Activated
  <2>2. Works(w, t)' => Owned(w, t)'
    BY <1>2, <2>1 DEF Works, Owned, Marked
  <2> QED BY <2>1, <2>2 DEF control
<1> QED BY <1>1, <1>2, HolderStepClean

LEMMA ClaimStepClean ==
  ASSUME TypeOK, OwnershipInvariant, CleanInvariant, NEW w \in Worker, ClaimStep(w), ~Spend("fault")
  PROVE  CleanInvariant'
<1> USE DEF github
<1>0. /\ {"running", "relaunching", "shipping", "shipped", "closing", "broken", "failing",
          "escalating", "unassigning", "unlabelling", "announcing"} \subseteq WkPcs
      /\ IdleWk.pc = "idle"
  BY DEF WkPcs, IdleWk
<1>1. GoIdle(w) => wk'[w].pc = "idle" /\ \A v \in Worker \ {w} : wk'[v] = wk[v]
  BY <1>0 DEF GoIdle, TypeOK
<1>i. PICK t \in Issue \cup {None} : t = wk[w].issue
  BY DEF TypeOK, WkState
<1>t. ASSUME t \in Issue, wk[w].pc \in ActivatedPcs
      PROVE  IssueClean(t) /\ (wk[w].pc \in WorkPcs => Owned(w, t))
  BY <1>i, <1>t, HeldAlone DEF Holds, Activated, Works
<1>2. CASE EmitClaimed(w)
  <2>1. PICK landed \in BOOLEAN, acked \in BOOLEAN :
          /\ Emit(w, wk[w].issue, wk[w].run, "claimed", landed, acked)
          /\ IF acked THEN wk' = [wk EXCEPT ![w].pc = "running", ![w].tries = 0, ![w].full = 1]
             ELSE IF wk[w].tries > 1 THEN wk' = [wk EXCEPT ![w].tries = @ - 1]
             ELSE GoIdle(w)
    BY <1>2 DEF EmitClaimed
  <2>2. /\ wk[w].pc = "claiming" /\ UNCHANGED <<labels, assignees, pr, dsp, jan, link, silent>>
    BY <1>2 DEF EmitClaimed
  <2>3. \A v \in Worker \ {w} : wk'[v] = wk[v]
    BY <1>1, <2>1 DEF TypeOK
  <2>4. wk'[w].issue = wk[w].issue \/ wk'[w].pc = "idle"
    BY <1>1, <2>1 DEF TypeOK, WkState
  <2> QED BY <2>1, <2>2, <2>3, <2>4, EventClean DEF WorkPcs
<1>3. CASE EmitRelaunched(w)
  <2>1. PICK landed \in BOOLEAN, acked \in BOOLEAN :
          Emit(w, wk[w].issue, wk[w].run, "claimed", landed, acked)
    BY <1>3 DEF EmitRelaunched
  <2> QED BY <1>0, <1>3, <2>1, GotoKeeps, EventClean DEF EmitRelaunched, WorkPcs, ActivatedPcs
<1>4. CASE RunFails(w)
  <2>1. t \in Issue => ReadyClean(t)'
    BY <1>4, <1>t DEF RunFails, SessionEnds, ActivatedPcs, IssueClean, ReadyClean
  <2> QED BY <1>4, <1>i, <2>1, BreaksKeeps, ActClean DEF RunFails, SessionEnds, ActivatedPcs, WorkPcs
<1>5. CASE OpenPr(w)
  <2>1. /\ pr' = [pr EXCEPT ![t] = IF @ = "none" THEN "open" ELSE @] /\ Goto(w, "shipping")
        /\ UNCHANGED <<labels, assignees, control, dsp, jan, link, silent>> /\ wk[w].pc = "running"
    BY <1>5, <1>i DEF OpenPr, GitHubCall, SessionEnds
  <2>2. /\ \A i \in Issue \ {t} : pr'[i] = pr[i]
        /\ t \in Issue => (pr'[t] = "pr_ready" => pr[t] = "pr_ready")
    BY <2>1 DEF TypeOK
  <2>3. t \in Issue => ReadyClean(t)'
    BY <1>t, <2>1, <2>2 DEF ActivatedPcs, IssueClean, ReadyClean
  <2> QED BY <1>0, <1>i, <2>1, <2>2, <2>3, GotoKeeps, ActClean DEF ActivatedPcs, WorkPcs
<1>6. CASE LabelPr(w)
  <2>1. /\ pr' = [pr EXCEPT ![t] = "pr_ready"] /\ Goto(w, "shipped")
        /\ UNCHANGED <<labels, assignees, control, dsp, jan, link, silent>> /\ wk[w].pc = "shipping"
    BY <1>6, <1>i DEF LabelPr, GitHubCall
  <2>2. \A i \in Issue \ {t} : pr'[i] = pr[i]
    BY <2>1 DEF TypeOK
  <2>3. t \in Issue => ReadyClean(t)'
    BY <1>t, <2>1 DEF ActivatedPcs, WorkPcs, ReadyClean, Owned, Marked
  <2> QED BY <1>0, <1>i, <2>1, <2>2, <2>3, GotoKeeps, ActClean DEF ActivatedPcs, WorkPcs
<1>7. CASE EmitPrOpen(w)
  <2>1. PICK landed \in BOOLEAN, acked \in BOOLEAN :
          Emit(w, wk[w].issue, wk[w].run, "pr-open", landed, acked)
    BY <1>7 DEF EmitPrOpen
  <2> QED BY <1>0, <1>7, <2>1, GotoKeeps, EventClean DEF EmitPrOpen, WorkPcs, ActivatedPcs
<1>8. CASE PushRunEvidence(w)
  <2>1. UNCHANGED <<labels, assignees, pr, control, dsp, jan, link, silent>>
    BY <1>8 DEF PushRunEvidence
  <2>2. CASE wk[w].pc = "closing" /\ GoIdle(w)
    <3>1. \A i \in Issue : DriversLeave(i)
      BY <1>1, <2>2, OneLeaves DEF ActivatedPcs
    <3>2. LinkedDrivers'
      BY <1>1, <2>1, <2>2, LinksStay DEF CleanInvariant
    <3> QED BY <2>1, <3>1, <3>2, AllSame, PassStill, JanitorStill, TouchNone DEF CleanInvariant, control
  <2>3. CASE wk[w].pc = "broken" /\ Goto(w, "failing")
    <3>1. t \in Issue => ReadyClean(t)'
      BY <1>t, <2>1, <2>3 DEF ActivatedPcs, IssueClean, ReadyClean
    <3> QED BY <1>0, <1>i, <2>1, <2>3, <3>1, GotoKeeps, ActClean DEF ActivatedPcs, WorkPcs
  <2> QED BY <1>8, <2>2, <2>3 DEF PushRunEvidence
<1>9. CASE EmitFailed(w)
  <2>1. PICK landed \in BOOLEAN, acked \in BOOLEAN :
          Emit(w, wk[w].issue, wk[w].run, "failed", landed, acked)
    BY <1>9 DEF EmitFailed
  <2> QED BY <1>9, <2>1, RetryKeeps, EventClean DEF EmitFailed, WorkPcs, ActivatedPcs
<1>10. CASE EscalateLabel(w)
  <2>1. /\ labels' = [labels EXCEPT ![t] = @ \cup {"failed", "needs_human"}] /\ Goto(w, "unassigning")
        /\ UNCHANGED <<pr, assignees, control, dsp, jan, link, silent>> /\ wk[w].pc = "escalating"
    BY <1>10, <1>i DEF EscalateLabel, GitHubCall
  <2>2. \A i \in Issue \ {t} : labels'[i] = labels[i]
    BY <2>1 DEF TypeOK
  <2>3. t \in Issue => ReadyClean(t)'
    BY <1>t, <2>1 DEF ActivatedPcs, WorkPcs, ReadyClean, Owned, Marked
  <2> QED BY <1>0, <1>i, <2>1, <2>2, <2>3, GotoKeeps, ActClean DEF ActivatedPcs, WorkPcs
<1>11. CASE EscalateUnassign(w)
  <2>1. /\ assignees' = [assignees EXCEPT ![t] = @ \ {w}] /\ Goto(w, "unlabelling")
        /\ UNCHANGED <<pr, labels, control, dsp, jan, link, silent>> /\ wk[w].pc = "unassigning"
    BY <1>11, <1>i DEF EscalateUnassign, GitHubCall
  <2>2. \A i \in Issue \ {t} : assignees'[i] = assignees[i]
    BY <2>1 DEF TypeOK
  <2>3. t \in Issue => ReadyClean(t)'
    BY <1>t, <2>1 DEF ActivatedPcs, ReadyClean, IssueClean
  <2> QED BY <1>0, <1>i, <2>1, <2>2, <2>3, GotoKeeps, ActClean DEF ActivatedPcs, WorkPcs
<1>12. CASE EscalateUnclaim(w)
  <2>1. /\ labels' = [labels EXCEPT ![t] = @ \ {"in_progress"}] /\ Goto(w, "announcing")
        /\ UNCHANGED <<pr, assignees, control, dsp, jan, link, silent>> /\ wk[w].pc = "unlabelling"
    BY <1>12, <1>i DEF EscalateUnclaim, GitHubCall
  <2>2. \A i \in Issue \ {t} : labels'[i] = labels[i]
    BY <2>1 DEF TypeOK
  <2>3. t \in Issue => ReadyClean(t)'
    BY <1>t, <2>1 DEF ActivatedPcs, ReadyClean, IssueClean, TypeOK
  <2> QED BY <1>0, <1>i, <2>1, <2>2, <2>3, GotoKeeps, ActClean DEF ActivatedPcs, WorkPcs
<1>13. CASE EmitEscalated(w)
  <2>1. PICK landed \in BOOLEAN, acked \in BOOLEAN :
          Emit(w, wk[w].issue, wk[w].run, "escalated", landed, acked)
    BY <1>13 DEF EmitEscalated
  <2> QED BY <1>1, <1>13, <2>1, EventClean DEF EmitEscalated, WorkPcs, ActivatedPcs
<1> QED BY <1>2, <1>3, <1>4, <1>5, <1>6, <1>7, <1>8, <1>9, <1>10, <1>11, <1>12, <1>13
        DEF ClaimStep

(* Between two claims a driver holds nothing.                              *)
LEMMA DriverClean ==
  ASSUME TypeOK, OwnershipInvariant, CleanInvariant, NEW w \in Worker, DriverStep(w), ~Spend("fault")
  PROVE  CleanInvariant'
<1> USE DEF control, github
<1>1. ASSUME UNCHANGED <<labels, assignees, pr, control, jan, link, silent>>,
             \A v \in Worker \ {w} : wk'[v] = wk[v], wk'[w].pc \in {"idle", "asking"},
             wk'[w].pc = "idle" \/ link[w],
             \A i \in Issue : PassLeaves(i), dsp'.pc = "reading" => dsp'.issue = None,
             dsp'.waiting => dsp.waiting /\ dsp'.worker = dsp.worker
      PROVE  CleanInvariant'
  <2>1. \A i \in Issue : DriversLeave(i)
    BY <1>1, OneLeaves DEF ActivatedPcs
  <2>2. LinkedDrivers'
    BY <1>1, LinksStay DEF CleanInvariant
  <2> QED BY <1>1, <2>1, <2>2, AllSame, JanitorStill, TouchNone DEF CleanInvariant
<1>2. CASE AskWork(w)
  <2>1. wk'[w].pc = "asking" /\ \A v \in Worker \ {w} : wk'[v] = wk[v]
    BY <1>2 DEF AskWork, TypeOK, WkState
  <2> QED BY <1>1, <1>2, <2>1, PassStill DEF AskWork, CleanInvariant
<1>3. CASE AskTimesOut(w)
  <2>1. wk'[w].pc = "idle" /\ \A v \in Worker \ {w} : wk'[v] = wk[v]
    BY <1>3 DEF AskTimesOut, TypeOK, IdleWk
  <2>2. /\ dsp'.pc = dsp.pc /\ dsp'.issue = dsp.issue /\ dsp'.worker = dsp.worker
        /\ dsp'.open = dsp.open /\ (dsp'.waiting => dsp.waiting)
    BY <1>3 DEF AskTimesOut, TypeOK, DspState
  <2>3. \A i \in Issue : PassLeaves(i)
    BY <2>2 DEF PassLeaves, Writing
  <2> QED BY <1>1, <1>3, <2>1, <2>2, <2>3 DEF AskTimesOut, CleanInvariant
<1>4. CASE IdleSweep(w)
  BY <1>1, <1>4, PassStill DEF IdleSweep, CleanInvariant
<1>5. CASE Boot(w)
  <2>1. wk'[w].pc = "idle" /\ \A v \in Worker \ {w} : wk'[v] = wk[v]
    BY <1>5 DEF Boot, GoIdle, TypeOK, IdleWk
  <2> QED BY <1>1, <1>5, <2>1, PassStill DEF Boot, CleanInvariant
<1> QED BY <1>2, <1>3, <1>4, <1>5, ClaimStepClean DEF DriverStep

(* The janitor's sweep, on a claim nobody holds.                           *)
LEMMA SweepMoveClean ==
  ASSUME TypeOK, OwnershipInvariant, CleanInvariant, NEW k \in Issue, Sweeping(k),
         UNCHANGED <<pr, grants, latest, dsp, wk, link, silent>>,
         \A i \in Issue \ {k} : labels'[i] = labels[i] /\ assignees'[i] = assignees[i],
         (jan'.pc \in SweepPcs /\ jan'.issue = k) \/ jan'.pc = "idle",
         jan'.pc \in {"evidence", "escalate"} => pr[k] # "pr_ready",
         pr[k] = "pr_ready" => labels'[k] \cap {"plan_ready", "failed"} = {}
  PROVE  CleanInvariant'
<1>1. IssueClean(k) /\ Dead(k)
  BY DEF CleanInvariant, IssueClean, SweepClean
<1>2. grants[k] = None /\ k \notin dsp.open /\ ~Writing(k)
  BY <1>1 DEF Dead, IssueClean, RowClean, PassClean, OwnershipInvariant, PassIsExclusive, Writing
<1>3. LinkedDrivers'
  BY LinksStay DEF CleanInvariant
<1>4. \A i \in Issue \ {k} : SameIssue(i) /\ JanitorLeaves(i)
  BY DEF SameIssue, JanitorLeaves, SweepPcs, UnwindPcs
<1>5. IssueClean(k)'
  <2>1. Dead(k)' /\ ~Writing(k)' /\ ~Unwinding(k)' /\ \A w \in Worker : ~Works(w, k)'
    BY <1>1, <1>2 DEF Dead, Writing, Unwinding, Holds, Activated, Claiming, Works, Live, SweepPcs,
                      UnwindPcs, WorkPcs, ActivatedPcs
  <2> QED BY <1>2, <2>1 DEF IssueClean, PassClean, RowClean, UnwindClean, SweepClean, HolderClean,
                            ReadyClean, Dead, Sweeping
<1> QED BY <1>3, <1>4, <1>5, PassStill, DriversStill, TouchClean DEF CleanInvariant, SweepPcs

LEMMA JanMoves ==
  ASSUME TypeOK, NEW loc \in JanPcs, JanGoto(loc)
  PROVE  jan'.pc = loc /\ jan'.issue = jan.issue
BY DEF JanGoto, TypeOK, JanState

LEMMA SweepStepClean ==
  ASSUME TypeOK, OwnershipInvariant, CleanInvariant, SweepStep, ~Spend("fault")
  PROVE  CleanInvariant'
<1> USE DEF github, control
<1>0. PICK k \in Issue : k = jan.issue
  BY DEF SweepStep, SweepVerify, SweepEvidence, SweepLabel, SweepStrip, SweepUnlabel, SweepLedger,
         TypeOK, JanState
<1>1. JanDone => jan'.pc = "idle"
  BY DEF JanDone, IdleJan
<1>2. /\ {"verify", "evidence", "escalate", "strip", "unlabel", "ledger"} \subseteq SweepPcs
      /\ SweepPcs \subseteq JanPcs /\ "idle" \notin SweepPcs
  BY DEF SweepPcs, JanPcs
<1>3. IssueClean(k)
  BY DEF CleanInvariant
<1>4. jan.pc \in SweepPcs => Sweeping(k)
  BY <1>0 DEF Sweeping
<1>5. CASE SweepVerify
  <2>1. jan'.pc = "idle" \/ (jan'.pc = "evidence" /\ jan'.issue = k /\ pr[k] # "pr_ready")
    BY <1>0, <1>1, <1>5 DEF SweepVerify, TypeOK, JanState
  <2>2. jan.pc = "verify" /\ UNCHANGED <<labels, assignees, pr, grants, latest, dsp, wk, link, silent>>
    BY <1>5 DEF SweepVerify
  <2> QED BY <1>2, <1>3, <1>4, <2>1, <2>2, SweepMoveClean DEF IssueClean, ReadyClean
<1>6. CASE SweepEvidence
  <2>1. /\ jan'.pc = "idle" \/ (jan'.pc = "escalate" /\ jan'.issue = k)
        /\ jan.pc = "evidence"
        /\ UNCHANGED <<labels, assignees, pr, grants, latest, dsp, wk, link, silent>>
    BY <1>0, <1>1, <1>2, <1>6, JanMoves DEF SweepEvidence
  <2> QED BY <1>2, <1>3, <1>4, <1>6, <2>1, SweepMoveClean DEF IssueClean, ReadyClean, SweepClean, SweepEvidence
<1>7. CASE SweepLabel
  <2>1. /\ labels' = [labels EXCEPT ![k] = @ \cup {"failed", "needs_human"}]
        /\ jan'.pc = "strip" /\ jan'.issue = k /\ jan.pc = "escalate"
        /\ UNCHANGED <<assignees, pr, grants, latest, dsp, wk, link, silent>>
    BY <1>0, <1>2, <1>7, JanMoves DEF SweepLabel, GitHubCall
  <2>2. \A i \in Issue \ {k} : labels'[i] = labels[i]
    BY <2>1 DEF TypeOK
  <2> QED BY <1>2, <1>3, <1>4, <2>1, <2>2, SweepMoveClean DEF IssueClean, SweepClean
<1>8. CASE SweepStrip
  <2>1. /\ \A i \in Issue \ {k} : assignees'[i] = assignees[i]
        /\ jan'.pc = "unlabel" /\ jan'.issue = k /\ jan.pc = "strip"
        /\ UNCHANGED <<labels, pr, grants, latest, dsp, wk, link, silent>>
    BY <1>0, <1>2, <1>8, JanMoves DEF SweepStrip, StripAssignees, TypeOK
  <2> QED BY <1>2, <1>3, <1>4, <2>1, SweepMoveClean DEF IssueClean, ReadyClean
<1>9. CASE SweepUnlabel
  <2>1. /\ labels' = [labels EXCEPT ![k] = @ \ {"in_progress"}]
        /\ jan'.pc = "ledger" /\ jan'.issue = k /\ jan.pc = "unlabel"
        /\ UNCHANGED <<assignees, pr, grants, latest, dsp, wk, link, silent>>
    BY <1>0, <1>2, <1>9, JanMoves DEF SweepUnlabel, GitHubCall
  <2>2. /\ \A i \in Issue \ {k} : labels'[i] = labels[i]
        /\ labels'[k] \subseteq labels[k]
    BY <2>1 DEF TypeOK
  <2> QED BY <1>2, <1>3, <1>4, <2>1, <2>2, SweepMoveClean DEF IssueClean, ReadyClean
<1>10. CASE SweepLedger
  <2>1. /\ jan'.pc = "idle" /\ jan.pc = "ledger"
        /\ UNCHANGED <<labels, assignees, pr, grants, latest, dsp, wk, link, silent>>
    BY <1>1, <1>10 DEF SweepLedger
  <2> QED BY <1>2, <1>3, <1>4, <2>1, SweepMoveClean DEF IssueClean, ReadyClean
<1> QED BY <1>5, <1>6, <1>7, <1>8, <1>9, <1>10 DEF SweepStep

(* A claim whose driver is silent is dead: a driver that was cut off has   *)
(* died, as long as no link was lost.                                      *)
LEMMA FlagClean ==
  ASSUME TypeOK, OwnershipInvariant, CleanInvariant, NEW k \in Issue, SweepFlag(k)
  PROVE  CleanInvariant'
<1>1. /\ UNCHANGED <<labels, assignees, pr, grants, latest, dsp, wk, link, silent>>
      /\ jan.pc = "idle" /\ jan'.pc = "verify" /\ jan'.issue = k /\ Live(k) /\ Silent(k)
  BY DEF SweepFlag, IdleJan, Orphaned, github
<1>2. IssueClean(k)
  BY DEF CleanInvariant
<1>3. Dead(k)
  <2> SUFFICES ASSUME NEW w \in Worker, Holds(w, k) PROVE FALSE
    BY <1>1 DEF Dead
  <2>1. latest[k].worker = w
    BY <1>1, <1>2 DEF IssueClean, HolderClean
  <2>2. wk[w].pc \in {"idle", "down"}
    BY <1>1, <2>1 DEF Silent, CleanInvariant, LinkedDrivers
  <2> QED BY <2>2 DEF Holds, Activated, Claiming, ActivatedPcs
<1>4. LinkedDrivers'
  BY <1>1, LinksStay DEF CleanInvariant
<1>5. \A i \in Issue \ {k} : JanitorLeaves(i)
  BY <1>1 DEF JanitorLeaves
<1>6. IssueClean(k)'
  <2>1. /\ Live(k)' = Live(k) /\ Marked(k)' = Marked(k) /\ ~Unwinding(k)' /\ ~Unwinding(k)
        /\ Writing(k)' = Writing(k) /\ Dead(k)'
        /\ \A v \in Worker : /\ Owned(v, k)' = Owned(v, k) /\ Holds(v, k)' = Holds(v, k)
                             /\ Works(v, k)' = Works(v, k)
    BY <1>1, <1>3 DEF Live, Marked, Unwinding, UnwindPcs, Writing, Dead, Owned, Holds, Activated,
                      Claiming, Works
  <2>2. PassClean(k)' /\ RowClean(k)'
    BY <1>1, <1>2, <2>1 DEF IssueClean, PassClean, RowClean
  <2>3. UnwindClean(k)' /\ SweepClean(k)' /\ HolderClean(k)' /\ ReadyClean(k)'
    BY <1>1, <1>2, <2>1 DEF IssueClean, UnwindClean, SweepClean, HolderClean, ReadyClean
  <2> QED BY <2>2, <2>3 DEF IssueClean
<1> QED BY <1>1, <1>4, <1>5, <1>6, AllSame, PassStill, DriversStill, TouchClean DEF CleanInvariant

(* The grant lane: the row that goes is one nobody activated.              *)
LEMMA RowGoneClean ==
  ASSUME TypeOK, OwnershipInvariant, PassKeepsRow, CleanInvariant, ReleaseRow
  PROVE  CleanInvariant'
<1>0. PICK k \in Issue : k = jan.issue
  BY DEF ReleaseRow, TypeOK, JanState
<1>1. /\ UNCHANGED <<labels, assignees, pr, latest, dsp, wk, link, silent>> /\ jan.pc = "expired"
      /\ grants'[k] = None /\ \A i \in Issue \ {k} : grants'[i] = grants[i]
  BY <1>0 DEF ReleaseRow, ReleaseGrant, TypeOK, github
<1>2. jan'.pc = "idle" \/ (jan'.pc = "unassign" /\ jan'.issue = k /\ grants[k] # None)
  <2>1. "unassign" \in JanPcs
    BY DEF JanPcs, UnwindPcs
  <2> QED BY <1>0, <2>1, JanMoves DEF ReleaseRow, JanDone, IdleJan
<1>3. k \notin dsp.open /\ ~Writing(k) /\ IssueClean(k)
  BY <1>0, <1>1 DEF PassKeepsRow, OwnershipInvariant, PassIsExclusive, Writing, CleanInvariant
<1>4. LinkedDrivers'
  BY <1>1, LinksStay DEF CleanInvariant
<1>5. \A i \in Issue \ {k} : SameIssue(i) /\ JanitorLeaves(i)
  BY <1>1, <1>2 DEF SameIssue, JanitorLeaves, SweepPcs, UnwindPcs
<1>6. IssueClean(k)'
  <2>1. /\ Live(k)' = Live(k) /\ Marked(k)' = Marked(k) /\ ~Writing(k)' /\ ~Sweeping(k)'
        /\ \A v \in Worker : /\ Owned(v, k)' = Owned(v, k) /\ Holds(v, k)' = Holds(v, k)
                             /\ Works(v, k)' = Works(v, k)
    BY <1>1, <1>2, <1>3 DEF Live, Marked, Sweeping, SweepPcs, Writing, Owned, Holds, Activated,
                            Claiming, Works
  <2>2. UnwindClean(k)'
    <3> SUFFICES ASSUME grants[k] # None, jan'.pc = "unassign" PROVE UnwindClean(k)'
      BY <1>2 DEF UnwindClean, Unwinding, UnwindPcs
    <3>1. ~Live(k) /\ ~Marked(k) /\ "plan_ready" \notin labels[k]
      BY <1>3 DEF IssueClean, RowClean
    <3>2. \A w \in Worker : ~Holds(w, k)
      BY <1>0, <1>1, <3>1 DEF OwnershipInvariant, LookIsStale, HoldersAreKnown, Holds
    <3> QED BY <1>1, <2>1, <3>1, <3>2 DEF UnwindClean
  <2>3. PassClean(k)' /\ RowClean(k)' /\ SweepClean(k)' /\ HolderClean(k)' /\ ReadyClean(k)'
    BY <1>1, <1>3, <2>1 DEF IssueClean, PassClean, RowClean, SweepClean, HolderClean, ReadyClean
  <2> QED BY <2>2, <2>3 DEF IssueClean
<1>7. jan'.pc # "rerecord" /\ dsp'.pc = dsp.pc /\ dsp'.issue = dsp.issue
  BY <1>1, <1>2
<1> QED BY <1>4, <1>5, <1>6, <1>7, <1>1, PassStill, DriversStill, TouchClean DEF CleanInvariant

LEMMA UnwindMoveClean ==
  ASSUME TypeOK, CleanInvariant, NEW k \in Issue, Unwinding(k),
         UNCHANGED <<pr, grants, latest, dsp, wk, link, silent>>,
         \A i \in Issue \ {k} : labels'[i] = labels[i] /\ assignees'[i] = assignees[i],
         "failed" \in labels'[k] => "failed" \in labels[k],
         \/ jan'.pc \in {"unclaim", "requeue"} /\ jan'.issue = k /\ "plan_ready" \notin labels'[k]
         \/ jan'.pc = "idle"
  PROVE  CleanInvariant'
<1>1. /\ grants[k] = None /\ ~Live(k) /\ ~Marked(k) /\ IssueClean(k)
      /\ \A w \in Worker : ~Holds(w, k)
  BY DEF CleanInvariant, IssueClean, UnwindClean
<1>2. ~Writing(k)
  BY <1>1 DEF IssueClean, PassClean
<1>3. LinkedDrivers'
  BY LinksStay DEF CleanInvariant
<1>4. \A i \in Issue \ {k} : SameIssue(i) /\ JanitorLeaves(i)
  BY DEF SameIssue, JanitorLeaves, SweepPcs, UnwindPcs
<1>5. IssueClean(k)'
  <2>1. ~Live(k)' /\ ~Marked(k)' /\ ~Writing(k)' /\ ~Sweeping(k)'
    BY <1>1, <1>2 DEF Live, Marked, Writing, Sweeping, SweepPcs
  <2>2. \A w \in Worker : ~Holds(w, k)' /\ ~Works(w, k)'
    BY <1>1 DEF Holds, Activated, Claiming, Works, WorkPcs, ActivatedPcs
  <2>3. Unwinding(k)' => "plan_ready" \notin labels'[k]
    BY DEF Unwinding, UnwindPcs
  <2> QED BY <1>1, <2>1, <2>2, <2>3
          DEF IssueClean, PassClean, RowClean, UnwindClean, SweepClean, HolderClean, ReadyClean, Marked
<1> QED BY <1>3, <1>4, <1>5, PassStill, DriversStill, TouchClean DEF CleanInvariant

LEMMA JanitorClean ==
  ASSUME TypeOK, OwnershipInvariant, PassKeepsRow, CleanInvariant, JanitorStep, ~Spend("fault")
  PROVE  CleanInvariant'
<1> USE DEF github, control
<1>1. ASSUME NEW i \in Issue, SweepClear(i) PROVE CleanInvariant'
  <2>1. LinkedDrivers'
    BY <1>1, LinksStay DEF SweepClear, CleanInvariant
  <2> QED BY <1>1, <2>1, AllSame, PassStill, JanitorStill, DriversStill, TouchNone
          DEF SweepClear, CleanInvariant
<1>2. ASSUME NEW i \in Issue, ReleaseLook(i) PROVE CleanInvariant'
  <2>1. /\ jan'.pc = "expired" /\ UNCHANGED <<labels, assignees, pr, grants, latest, dsp, wk, link, silent>>
    BY <1>2 DEF ReleaseLook, IdleJan
  <2>2. \A j \in Issue : JanitorLeaves(j)
    BY <2>1 DEF JanitorLeaves, SweepPcs, UnwindPcs
  <2>3. LinkedDrivers'
    BY <2>1, LinksStay DEF CleanInvariant
  <2> QED BY <2>1, <2>2, <2>3, AllSame, PassStill, DriversStill, TouchNone DEF CleanInvariant
<1>3. ASSUME UnwindAssignees \/ UnwindInProgress \/ UnwindRequeue PROVE CleanInvariant'
  <2>0. PICK k \in Issue : k = jan.issue
    BY <1>3 DEF UnwindAssignees, UnwindInProgress, UnwindRequeue, TypeOK, JanState
  <2>1. Unwinding(k) /\ UNCHANGED <<pr, grants, latest, dsp, wk, link, silent>>
    BY <1>3, <2>0 DEF UnwindAssignees, UnwindInProgress, UnwindRequeue, Unwinding, UnwindPcs
  <2>2. "plan_ready" \notin labels[k]
    BY <2>1 DEF CleanInvariant, IssueClean, UnwindClean
  <2>3. CASE UnwindAssignees
    <3>1. jan'.pc = "unclaim" /\ jan'.issue = k
      BY <2>0, <2>3, JanMoves DEF UnwindAssignees, StripAssignees, JanPcs, UnwindPcs
    <3>2. labels' = labels /\ \A i \in Issue \ {k} : assignees'[i] = assignees[i]
      BY <2>0, <2>3 DEF UnwindAssignees, StripAssignees, TypeOK
    <3> QED BY <2>1, <2>2, <3>1, <3>2, UnwindMoveClean
  <2>4. CASE UnwindInProgress
    <3>1. jan'.pc = "requeue" /\ jan'.issue = k
      BY <2>0, <2>4, JanMoves DEF UnwindInProgress, GitHubCall, JanPcs, UnwindPcs
    <3>2. /\ assignees' = assignees /\ labels'[k] \subseteq labels[k]
          /\ \A i \in Issue \ {k} : labels'[i] = labels[i]
      BY <2>0, <2>4 DEF UnwindInProgress, GitHubCall, TypeOK
    <3> QED BY <2>1, <2>2, <3>1, <3>2, UnwindMoveClean
  <2>5. CASE UnwindRequeue
    <3>1. jan'.pc = "idle"
      BY <2>5 DEF UnwindRequeue, GitHubCall, JanDone, IdleJan
    <3>2. /\ assignees' = assignees /\ ("failed" \in labels'[k] => "failed" \in labels[k])
          /\ \A i \in Issue \ {k} : labels'[i] = labels[i]
      BY <2>0, <2>5 DEF UnwindRequeue, GitHubCall, TypeOK
    <3> QED BY <2>1, <3>1, <3>2, UnwindMoveClean
  <2> QED BY <1>3, <2>3, <2>4, <2>5
<1>4. ~Rerecord
  BY DEF Rerecord, CleanInvariant
<1> QED BY <1>1, <1>2, <1>3, <1>4, RowGoneClean, FlagClean, SweepStepClean
        DEF JanitorStep, ReleaseStep

(* A human or a Reviewer hands back an issue that is nobody's claim.       *)
LEMMA HandBackClean ==
  ASSUME TypeOK, OwnershipInvariant, CleanInvariant, NEW t \in Issue, Marked(t),
         UNCHANGED <<grants, latest, dsp, jan, wk, link, silent>>,
         \A i \in Issue \ {t} : labels'[i] = labels[i] /\ assignees'[i] = assignees[i] /\ pr'[i] = pr[i],
         pr'[t] # "pr_ready"
  PROVE  CleanInvariant'
<1>1. IssueClean(t) /\ LinkedDrivers'
  BY LinksStay DEF CleanInvariant
<1>2. /\ grants[t] = None /\ ~Writing(t) /\ ~Unwinding(t) /\ \A w \in Worker : ~Works(w, t)
  BY <1>1 DEF IssueClean, RowClean, PassClean, UnwindClean, HolderClean, Owned
<1>3. IssueClean(t)'
  <2>1. /\ ~Writing(t)' /\ ~Unwinding(t)' /\ (Sweeping(t)' => Sweeping(t)) /\ Live(t)' = Live(t)
        /\ (Dead(t) => Dead(t)')
        /\ \A w \in Worker : ~Works(w, t)' /\ Holds(w, t)' = Holds(w, t)
    BY <1>2 DEF Writing, Unwinding, Sweeping, Live, Dead, Works, Holds, Activated, Claiming
  <2>2. PassClean(t)' /\ RowClean(t)' /\ UnwindClean(t)'
    BY <1>1, <1>2, <2>1 DEF IssueClean, PassClean, RowClean, UnwindClean
  <2>3. SweepClean(t)' /\ HolderClean(t)' /\ ReadyClean(t)'
    BY <1>1, <2>1 DEF IssueClean, SweepClean, HolderClean, ReadyClean
  <2> QED BY <2>2, <2>3 DEF IssueClean
<1>4. \A i \in Issue \ {t} : SameIssue(i)
  BY DEF SameIssue
<1> QED BY <1>1, <1>3, <1>4, PassStill, JanitorStill, DriversStill, TouchClean DEF CleanInvariant

LEMMA EnvironmentClean ==
  ASSUME TypeOK, OwnershipInvariant, CleanInvariant, Environment, ~Spend("cut"), ~Spend("control")
  PROVE  CleanInvariant'
<1> USE DEF github, control
<1>1. ASSUME UNCHANGED <<labels, assignees, pr, grants, latest, dsp, jan, wk>>, LinkedDrivers'
      PROVE  CleanInvariant'
  BY <1>1, AllSame, PassStill, JanitorStill, DriversStill, TouchNone DEF CleanInvariant
<1>2. ASSUME UNCHANGED <<labels, assignees, pr, grants, latest, dsp, jan, wk, link, silent>>
      PROVE  CleanInvariant'
  BY <1>1, <1>2, LinksStay DEF CleanInvariant
<1>3. ASSUME NEW w \in Worker, DriverDies(w) PROVE CleanInvariant'
  <2>1. /\ wk'[w].pc = "down" /\ \A v \in Worker \ {w} : wk'[v] = wk[v]
    BY <1>3 DEF DriverDies, DownWk, TypeOK
  <2>2. /\ dsp'.pc = dsp.pc /\ dsp'.issue = dsp.issue /\ dsp'.worker = dsp.worker
        /\ dsp'.open = dsp.open /\ (dsp'.waiting => dsp.waiting /\ dsp.worker # w)
    BY <1>3 DEF DriverDies, TypeOK, DspState
  <2>3. /\ silent' = silent /\ \A v \in Worker : link'[v] => link[v]
        /\ \A v \in Worker \ {w} : link'[v] = link[v]
    BY <1>3 DEF DriverDies, TypeOK
  <2>4. LinkedDrivers'
    <3>1. dsp'.waiting => dsp.worker \in Worker \ {w}
      BY <2>2 DEF CleanInvariant, LinkedDrivers, TypeOK, DspState
    <3> QED BY <2>1, <2>2, <2>3, <3>1 DEF CleanInvariant, LinkedDrivers
  <2>5. \A i \in Issue : PassLeaves(i) /\ DriversLeave(i)
    BY <2>1, <2>2, OneLeaves DEF PassLeaves, Writing, ActivatedPcs
  <2> QED BY <1>3, <2>2, <2>4, <2>5, AllSame, JanitorStill, TouchNone DEF DriverDies, CleanInvariant
<1>4. ASSUME NEW w \in Worker, GraceElapses(w) \/ Heal(w) PROVE CleanInvariant'
  <2>1. LinkedDrivers'
    BY <1>4 DEF GraceElapses, Heal, CleanInvariant, LinkedDrivers, TypeOK, DspState
  <2> QED BY <1>1, <1>4, <2>1 DEF GraceElapses, Heal
<1>5. ASSUME NEW w \in Worker, Unquarantine(w) PROVE CleanInvariant'
  BY <1>2, <1>5 DEF Unquarantine
<1>6. ASSUME NEW i \in Issue, WindowElapses(i) PROVE CleanInvariant'
  BY <1>2, <1>6 DEF WindowElapses
<1>7. ASSUME NEW i \in Issue, HumanRequeue(i) PROVE CleanInvariant'
  <2>1. "failed" \in labels[i] /\ IssueClean(i)
    BY <1>7 DEF HumanRequeue, CleanInvariant
  <2>2. Marked(i) /\ pr[i] # "pr_ready"
    BY <2>1 DEF Marked, IssueClean, ReadyClean
  <2>3. /\ UNCHANGED <<pr, grants, latest, dsp, jan, wk, link, silent>>
        /\ \A j \in Issue \ {i} : labels'[j] = labels[j] /\ assignees'[j] = assignees[j]
    BY <1>7 DEF HumanRequeue, TypeOK
  <2> QED BY <2>2, <2>3, HandBackClean
<1>8. ASSUME NEW i \in Issue, Revise(i) PROVE CleanInvariant'
  <2>1. Marked(i) /\ pr'[i] # "pr_ready"
    BY <1>8 DEF Revise, Marked, TypeOK
  <2>2. /\ UNCHANGED <<grants, latest, dsp, jan, wk, link, silent>>
        /\ \A j \in Issue \ {i} : labels'[j] = labels[j] /\ assignees'[j] = assignees[j]
                                  /\ pr'[j] = pr[j]
    BY <1>8 DEF Revise, TypeOK
  <2> QED BY <2>1, <2>2, HandBackClean
<1> QED BY <1>3, <1>4, <1>5, <1>6, <1>7, <1>8 DEF Environment, CutLink, ControlCrash

(* No fault is ever taken back: what is spent stays spent.                 *)
Bounded ==
  left["fault"] <= MaxFault /\ left["cut"] <= MaxCut /\ left["control"] <= MaxControlCrash

LEMMA SpendsOrNot ==
  ASSUME TypeOK, Next
  PROVE  UNCHANGED left \/ \E b \in Budget : Spend(b)
<1>1. {"crash", "control", "fault", "lost", "cut"} \subseteq Budget
  BY DEF Budget
<1>2. CASE DispatchStep
  BY <1>1, <1>2 DEF DispatchStep, DispatchRead, DispatchRefuse, DispatchPick, DispatchNone,
     DispatchRecord, DispatchAssign, DispatchClaim, DispatchUnlabel, DispatchReply, GitHubCall
<1>3. ASSUME NEW w \in Worker, ClaimStep(w) PROVE UNCHANGED left \/ \E b \in Budget : Spend(b)
  BY <1>1, <1>3 DEF ClaimStep, EmitClaimed, EmitRelaunched, OpenPr, RunFails, LabelPr, EmitPrOpen,
     PushRunEvidence, PushBundle, EmitFailed, EscalateLabel, EscalateUnassign, EscalateUnclaim,
     EmitEscalated, Emit, GitHubCall
<1>4. ASSUME NEW w \in Worker, AskWork(w) \/ AskTimesOut(w) \/ IdleSweep(w) \/ Boot(w)
      PROVE  UNCHANGED left \/ \E b \in Budget : Spend(b)
  BY <1>1, <1>4 DEF AskWork, AskTimesOut, IdleSweep, Boot, SweepOrphans
<1>5. CASE JanitorStep
  BY <1>1, <1>5 DEF JanitorStep, SweepStep, ReleaseStep, SweepVerify, SweepEvidence, SweepLabel,
     SweepStrip, SweepUnlabel, SweepLedger, ReleaseRow, UnwindAssignees, UnwindInProgress,
     UnwindRequeue, Rerecord, SweepClear, SweepFlag, ReleaseLook, StripAssignees, GitHubCall
<1>6. CASE Environment
  BY <1>1, <1>6 DEF Environment, DriverDies, CutLink, GraceElapses, Heal, Unquarantine,
     WindowElapses, HumanRequeue, Revise, ControlCrash
<1> QED BY <1>2, <1>3, <1>4, <1>5, <1>6 DEF Next, DriverStep

LEMMA SpentStaysSpent ==
  ASSUME TypeOK, Bounded, Next
  PROVE  /\ Bounded'
         /\ NoFaultYet' => NoFaultYet /\ ~Spend("fault") /\ ~Spend("cut") /\ ~Spend("control")
<1>1. \A b \in Budget : left[b] \in Nat
  BY DEF TypeOK
<1>2. \A b \in Budget : left'[b] = left[b] \/ left'[b] = left[b] - 1
  BY SpendsOrNot, <1>1 DEF Spend, TypeOK
<1>3. {"fault", "cut", "control"} \subseteq Budget
  BY DEF Budget
<1>4. \A b \in Budget : Spend(b) => left'[b] = left[b] - 1
  BY DEF Spend, TypeOK
<1>5. Bounded'
  BY <1>1, <1>2, <1>3, ConstantsAssumption DEF Bounded
<1>6. ASSUME NoFaultYet'
      PROVE  NoFaultYet /\ ~Spend("fault") /\ ~Spend("cut") /\ ~Spend("control")
  <2>1. /\ left'["fault"] = MaxFault /\ left'["cut"] = MaxCut /\ left'["control"] = MaxControlCrash
    BY <1>6 DEF NoFaultYet
  <2>2. /\ left["fault"] = left'["fault"] /\ left["cut"] = left'["cut"]
        /\ left["control"] = left'["control"]
    BY <1>1, <1>2, <1>3, <2>1, ConstantsAssumption DEF Bounded
  <2> QED BY <1>1, <1>3, <1>4, <2>1, <2>2 DEF NoFaultYet
<1> QED BY <1>5, <1>6

(* Until the first fault, GitHub's labels and assignees, the rows, the     *)
(* events and the drivers tell one story (_granting_pass, execute_claim,   *)
(* release_never_activated, _sweep_one).                                   *)
THEOREM CleanIsInvariant ==
  ASSUME Timely, PromptPass PROVE Spec => [](NoFaultYet => CleanInvariant)
<1> DEFINE IInv == Bounded /\ (NoFaultYet => CleanInvariant)
<1>1. Init => IInv
  <2> SUFFICES ASSUME Init PROVE IInv
    OBVIOUS
  <2>1. Bounded
    BY ConstantsAssumption DEF Init, Bounded
  <2>2. LinkedDrivers /\ jan.pc = "idle" /\ dsp.pc = "free" /\ dsp.open = {}
    BY DEF Init, LinkedDrivers, FreeDsp, IdleJan, IdleWk
  <2>3. \A i \in Issue, w \in Worker : ~Holds(w, i) /\ ~Works(w, i)
    BY DEF Init, IdleWk, Holds, Activated, Claiming, Works, ActivatedPcs, WorkPcs
  <2>4. ASSUME NEW i \in Issue PROVE IssueClean(i)
    <3>1. /\ ~Writing(i) /\ ~Unwinding(i) /\ ~Sweeping(i) /\ grants[i] = None /\ pr[i] = "none"
      BY <2>2 DEF Init, Writing, Unwinding, Sweeping, SweepPcs, UnwindPcs
    <3> QED BY <2>2, <2>3, <3>1 DEF IssueClean, PassClean, RowClean, UnwindClean, SweepClean,
                                    HolderClean, ReadyClean
  <2> QED BY <2>1, <2>2, <2>4 DEF CleanInvariant
<1>2. ASSUME TypeOK, IInv, UNCHANGED vars PROVE IInv'
  <2>1. Bounded' /\ NoFaultYet' = NoFaultYet
    BY <1>2 DEF vars, Bounded, NoFaultYet
  <2>2. CleanInvariant => CleanInvariant'
    <3>1. CleanInvariant => LinkedDrivers'
      BY <1>2, LinksStay DEF vars, CleanInvariant
    <3> QED BY <1>2, <3>1, AllSame, PassStill, JanitorStill, DriversStill, TouchNone
            DEF vars, CleanInvariant
  <2> QED BY <1>2, <2>1, <2>2
<1>3. ASSUME TypeOK, OwnershipInvariant, SightInvariant, IInv, Next PROVE IInv'
  <2>1. Bounded' /\ (NoFaultYet' => NoFaultYet /\ ~Spend("fault") /\ ~Spend("cut") /\ ~Spend("control"))
    BY <1>3, SpentStaysSpent
  <2>2. ASSUME NoFaultYet' PROVE CleanInvariant'
    <3>1. CleanInvariant /\ ~Spend("fault") /\ ~Spend("cut") /\ ~Spend("control") /\ PassKeepsRow
      BY <1>3, <2>1, <2>2 DEF SightInvariant
    <3> QED BY <1>3, <3>1, DispatchClean, DriverClean, JanitorClean, EnvironmentClean DEF Next
  <2> QED BY <2>1, <2>2
<1>4. TypeOK /\ OwnershipInvariant /\ SightInvariant /\ IInv /\ [Next]_vars => IInv'
  BY <1>2, <1>3
<1>5. IInv => (NoFaultYet => CleanInvariant)
  OBVIOUS
<1> HIDE DEF IInv
<1> QED BY <1>1, <1>4, <1>5, TypeCorrect, OwnershipIsInvariant, SightIsInvariant, PTL DEF Spec

(* The driver that holds an issue owns it on GitHub until its PR is up     *)
(* (_granting_pass writes the claim through, nobody takes it away).        *)
THEOREM ClaimsAreWritten == ASSUME Timely, PromptPass PROVE Spec => []OwnershipOnGitHub
<1>1. (NoFaultYet => CleanInvariant) => OwnershipOnGitHub
  <2> SUFFICES ASSUME NoFaultYet, CleanInvariant, NEW i \in Issue, NEW w \in Worker, Holds(w, i),
                      wk[w].pc \in {"claiming", "relaunching", "running", "broken", "failing",
                                    "escalating"}
               PROVE  w \in assignees[i] /\ "in_progress" \in labels[i]
    BY DEF OwnershipOnGitHub
  <2>1. Works(w, i)
    BY DEF Holds, Activated, Claiming, Works, WorkPcs
  <2> QED BY <2>1 DEF CleanInvariant, IssueClean, HolderClean, Owned
<1> QED BY <1>1, CleanIsInvariant, PTL

(* No driver starts on an issue that carries failed or whose PR awaits its *)
(* review (_granting_pass).                                                *)
THEOREM WorkableGrants == ASSUME Timely, PromptPass PROVE Spec => []GrantsAreWorkable
<1>1. (NoFaultYet => CleanInvariant) => GrantsAreWorkable
  <2> SUFFICES ASSUME NoFaultYet, CleanInvariant, NEW i \in Issue, NEW w \in Worker, Claiming(w, i)
               PROVE  "failed" \notin labels[i] /\ pr[i] # "pr_ready"
    BY DEF GrantsAreWorkable, FailedNeverGranted, ReadyNeverGranted
  <2>1. Works(w, i)
    BY DEF Claiming, Works, WorkPcs
  <2> QED BY <2>1 DEF CleanInvariant, IssueClean, HolderClean, Owned, Marked
<1> QED BY <1>1, CleanIsInvariant, PTL

(* Neither lane of the janitor takes a claim from the driver that executes *)
(* it (release_never_activated, _sweep_one).                               *)
THEOREM DriversAreSpared == ASSUME Timely, PromptPass PROVE Spec => []JanitorSparesDrivers
<1>1. TypeOK /\ (NoFaultYet => CleanInvariant) => JanitorSparesDrivers
  <2> SUFFICES ASSUME TypeOK, NoFaultYet, CleanInvariant PROVE JanitorSparesDrivers
    BY DEF JanitorSparesDrivers, CleanUnwind, EscalatesOnlyDeadClaims
  <2>1. \A i \in Issue, w \in Worker : ~(Unwinding(i) /\ Activated(w, i))
    BY DEF CleanInvariant, IssueClean, UnwindClean, Holds
  <2>2. ASSUME jan.pc \in {"strip", "unlabel", "ledger"}, NEW w \in Worker
        PROVE  ~Activated(w, jan.issue)
    <3>1. jan.issue \in Issue /\ Sweeping(jan.issue)
      BY <2>2 DEF TypeOK, JanState, Sweeping, SweepPcs
    <3> QED BY <3>1 DEF CleanInvariant, IssueClean, SweepClean, Dead, Holds
  <2> QED BY <2>1, <2>2 DEF JanitorSparesDrivers, CleanUnwind, ActivatedNeverUnwound, EscalatesOnlyDeadClaims
<1> QED BY <1>1, CleanIsInvariant, TypeCorrect, PTL

----------------------------------------------------------------------------
(* The refinement: whatever the dispatcher, the drivers, the janitor and   *)
(* the faults around them do in a step, the owner of an issue stays, gives *)
(* it up, or takes it from nobody while it owns no other.                  *)

(* A driver the pass still answers is waiting for that answer.             *)
Listening ==
  /\ dsp.waiting => dsp.worker \in Worker /\ wk[dsp.worker].pc = "asking"
  /\ dsp.pc = "free" => ~dsp.waiting

HoldPcs == ActivatedPcs \cup {"claiming"}

(* Every driver but w stays as it is.                                      *)
OnlyMoves(w) == \A v \in Worker \ {w} : wk'[v] = wk[v]

(* The driver goes on with its issue, or holds none any more.              *)
GoesOnOrLetsGo(w) ==
  \/ wk'[w].pc \in HoldPcs /\ wk[w].pc \in HoldPcs /\ wk'[w].issue = wk[w].issue
  \/ wk'[w].pc \notin HoldPcs

LEMMA HoldsByPc ==
  /\ \A w, i : Holds(w, i) <=> wk[w].issue = i /\ wk[w].pc \in HoldPcs
  /\ \A w, i : Holds(w, i)' <=> wk'[w].issue = i /\ wk'[w].pc \in HoldPcs
BY DEF Holds, Activated, Claiming, HoldPcs

----------------------------------------------------------------------------
(* The owner of an issue is the one driver that holds it.                  *)

LEMMA OneOfOne ==
  ASSUME NEW S \in SUBSET Worker, \A v, w \in S : v = w
  PROVE  /\ \A w \in Worker : OneOf(S) = w <=> w \in S
         /\ OneOf(S) = None <=> S = {}
<1>1. CASE S = {}
  BY <1>1, ConstantsAssumption DEF OneOf
<1>2. CASE S # {}
  <2>1. PICK w \in Worker : S = {w}
    BY <1>2
  <2>2. OneOf(S) = w
    BY <2>1 DEF OneOf
  <2> QED BY <2>1, <2>2, ConstantsAssumption
<1> QED BY <1>1, <1>2

LEMMA HolderNow ==
  ASSUME SingleOwner, NEW i \in Issue
  PROVE  /\ \A w \in Worker : holder[i] = w <=> Holds(w, i)
         /\ holder[i] = None <=> \A w \in Worker : ~Holds(w, i)
<1> DEFINE S == {w \in Worker : Holds(w, i)}
<1>1. S \in SUBSET Worker /\ \A v, w \in S : v = w
  BY DEF SingleOwner
<1>2. holder[i] = OneOf(S)
  BY DEF holder
<1>3. S = {} <=> \A w \in Worker : ~Holds(w, i)
  OBVIOUS
<1>4. \A w \in Worker : w \in S <=> Holds(w, i)
  OBVIOUS
<1> HIDE DEF S
<1> QED BY <1>1, <1>2, <1>3, <1>4, OneOfOne

LEMMA HolderNext ==
  ASSUME SingleOwner', NEW i \in Issue
  PROVE  /\ \A w \in Worker : holder'[i] = w <=> Holds(w, i)'
         /\ holder'[i] = None <=> \A w \in Worker : ~Holds(w, i)'
<1> DEFINE S == {w \in Worker : Holds(w, i)'}
<1>1. S \in SUBSET Worker /\ \A v, w \in S : v = w
  BY DEF SingleOwner
<1>2. holder'[i] = OneOf(S)
  BY DEF holder
<1>3. S = {} <=> \A w \in Worker : ~Holds(w, i)'
  OBVIOUS
<1>4. \A w \in Worker : w \in S <=> Holds(w, i)'
  OBVIOUS
<1> HIDE DEF S
<1> QED BY <1>1, <1>2, <1>3, <1>4, OneOfOne

LEMMA IssueStays ==
  ASSUME SingleOwner, SingleOwner', NEW i \in Issue,
         \A w \in Worker : Holds(w, i)' <=> Holds(w, i)
  PROVE  holder'[i] = holder[i]
<1>1. CASE \E w \in Worker : Holds(w, i)
  BY <1>1, HolderNow, HolderNext
<1>2. CASE \A w \in Worker : ~Holds(w, i)
  BY <1>2, HolderNow, HolderNext
<1> QED BY <1>1, <1>2

LEMMA HolderIsFunction ==
  holder = [i \in Issue |-> holder[i]] /\ holder' = [i \in Issue |-> holder'[i]]
BY DEF holder

(* A step after which everybody holds what it held is a stutter.           *)
LEMMA NobodyMoves ==
  ASSUME SingleOwner, SingleOwner',
         \A w \in Worker, i \in Issue : Holds(w, i)' <=> Holds(w, i)
  PROVE  UNCHANGED holder
BY IssueStays, HolderIsFunction

(* A driver that goes on is a stutter; one that lets go releases its issue.*)
LEMMA OneDriverMoves ==
  ASSUME SingleOwner, SingleOwner', NEW w \in Worker, OnlyMoves(w), GoesOnOrLetsGo(w)
  PROVE  [Owner!Next]_holder
<1>1. \A v \in Worker \ {w}, j \in Issue : Holds(v, j)' <=> Holds(v, j)
  BY HoldsByPc DEF OnlyMoves
<1>2. CASE \A j \in Issue : Holds(w, j)' <=> Holds(w, j)
  BY <1>1, <1>2, NobodyMoves
<1>3. CASE wk'[w].pc \notin HoldPcs /\ wk[w].pc \in HoldPcs /\ wk[w].issue \in Issue
  <2>0. PICK i \in Issue : i = wk[w].issue
    BY <1>3
  <2>1. Holds(w, i) /\ \A j \in Issue : ~Holds(w, j)'
    BY <1>3, <2>0, HoldsByPc
  <2>2. \A v \in Worker : ~Holds(v, i)'
    BY <1>1, <1>3, <2>1 DEF SingleOwner
  <2>3. holder[i] # None /\ holder'[i] = None
    BY <1>3, <2>1, <2>2, HolderNow, HolderNext
  <2>4. ASSUME NEW j \in Issue, j # i PROVE holder'[j] = holder[j]
    <3>1. ~Holds(w, j)
      BY <2>0, <2>4, HoldsByPc
    <3> QED BY <1>1, <2>1, <3>1, IssueStays
  <2>5. holder' = [holder EXCEPT ![i] = None]
    BY <1>3, <2>3, <2>4, HolderIsFunction
  <2> QED BY <1>3, <2>3, <2>5 DEF Owner!Next, Owner!Release
<1> QED BY <1>2, <1>3, HoldsByPc DEF GoesOnOrLetsGo

LEMMA DriversStay ==
  ASSUME SingleOwner, SingleOwner', UNCHANGED wk
  PROVE  [Owner!Next]_holder
BY NobodyMoves, HoldsByPc

(* A driver that is sent back to its loop.                                 *)
LEMMA OneIsSentBack ==
  ASSUME TypeOK, SingleOwner, SingleOwner', NEW w \in Worker, NEW x \in {IdleWk, DownWk},
         wk' = [wk EXCEPT ![w] = x]
  PROVE  [Owner!Next]_holder
<1>1. wk'[w] = x /\ OnlyMoves(w)
  BY DEF OnlyMoves, TypeOK
<1>2. x.pc \notin HoldPcs
  BY DEF IdleWk, DownWk, HoldPcs, ActivatedPcs
<1> QED BY <1>1, <1>2, OneDriverMoves DEF GoesOnOrLetsGo

----------------------------------------------------------------------------
(* Every step of the protocol is one of ClaimOwner, or a stutter.          *)

LEMMA AnswerNoneMaps ==
  ASSUME TypeOK, Listening, SingleOwner, SingleOwner', DspAnswerNone
  PROVE  [Owner!Next]_holder
<1>1. CASE dsp.waiting
  BY <1>1, OneIsSentBack DEF DspAnswerNone, Listening
<1>2. CASE ~dsp.waiting
  BY <1>2, DriversStay DEF DspAnswerNone
<1> QED BY <1>1, <1>2

(* The answer of a pass is an acquisition: the issue is nobody's, and the  *)
(* driver that waited for it has none.                                     *)
LEMMA ReplyMaps ==
  ASSUME TypeOK, Listening, PassIsExclusive, SingleOwner, SingleOwner', DispatchReply
  PROVE  [Owner!Next]_holder
<1>1. CASE ~(dsp.waiting /\ RoomForClaim)
  <2>1. CASE dsp.waiting
    BY <1>1, <2>1, OneIsSentBack DEF DispatchReply, Listening
  <2>2. CASE ~dsp.waiting
    BY <1>1, <2>2, DriversStay DEF DispatchReply
  <2> QED BY <2>1, <2>2
<1>2. CASE dsp.waiting /\ RoomForClaim
  <2>0. PICK i \in Issue, w \in Worker : i = dsp.issue /\ w = dsp.worker
    BY <1>2 DEF Listening, PassIsExclusive, DispatchReply
  <2>1. wk[w].pc = "asking" /\ \A v \in Worker : ~Holds(v, i)
    BY <1>2, <2>0 DEF Listening, PassIsExclusive, DispatchReply
  <2>2. wk'[w] = ClaimingWk(i, nextRun) /\ OnlyMoves(w)
    BY <1>2, <2>0 DEF DispatchReply, OnlyMoves, TypeOK
  <2>3. \A j \in Issue : ~Holds(w, j) /\ (Holds(w, j)' <=> j = i)
    BY <2>1, <2>2, HoldsByPc DEF ClaimingWk, HoldPcs, ActivatedPcs
  <2>4. \A v \in Worker \ {w}, j \in Issue : Holds(v, j)' <=> Holds(v, j)
    BY <2>2, HoldsByPc DEF OnlyMoves
  <2>5. holder[i] = None /\ holder'[i] = w /\ \A j \in Issue : holder[j] # w
    BY <2>1, <2>3, HolderNow, HolderNext
  <2>6. \A j \in Issue : j # i => holder'[j] = holder[j]
    BY <2>3, <2>4, IssueStays
  <2>7. holder' = [holder EXCEPT ![i] = w]
    BY <2>1, <2>5, <2>6, HolderIsFunction
  <2> QED BY <2>1, <2>5, <2>7 DEF Owner!Next, Owner!Acquire
<1> QED BY <1>1, <1>2

LEMMA DispatchMaps ==
  ASSUME TypeOK, Listening, PassIsExclusive, SingleOwner, SingleOwner', DispatchStep
  PROVE  [Owner!Next]_holder
<1>1. ASSUME NEW w \in Worker, DispatchRead(w) \/ DispatchRefuse(w) PROVE [Owner!Next]_holder
  BY <1>1, OneIsSentBack, DriversStay DEF DispatchRead, DispatchRefuse
<1>2. ASSUME NEW i \in Issue, DispatchPick(i) PROVE [Owner!Next]_holder
  BY <1>2, DriversStay DEF DispatchPick
<1>3. CASE DispatchNone
  BY <1>3, AnswerNoneMaps DEF DispatchNone
<1>4. CASE DispatchRecord
  BY <1>4, DriversStay DEF DispatchRecord, DspGoto
<1>5. CASE DispatchAssign
  BY <1>5, DriversStay, AnswerNoneMaps DEF DispatchAssign, GitHubCall, DspGoto
<1>6. CASE DispatchClaim
  BY <1>6, DriversStay, AnswerNoneMaps DEF DispatchClaim, GitHubCall, DspGoto
<1>7. CASE DispatchUnlabel
  BY <1>7, DriversStay, AnswerNoneMaps DEF DispatchUnlabel, GitHubCall, DspGoto
<1> QED BY <1>1, <1>2, <1>3, <1>4, <1>5, <1>6, <1>7, ReplyMaps DEF DispatchStep

LEMMA ClaimStepMaps ==
  ASSUME TypeOK, SingleOwner, SingleOwner', NEW w \in Worker, ClaimStep(w)
  PROVE  [Owner!Next]_holder
<1>0. /\ {"running", "relaunching", "shipping", "shipped", "closing", "broken", "failing",
          "escalating", "unassigning", "unlabelling", "announcing"} \subseteq WkPcs
      /\ ActivatedPcs \subseteq HoldPcs /\ "claiming" \in HoldPcs /\ "closing" \notin HoldPcs
  BY DEF WkPcs, ActivatedPcs, HoldPcs
<1>1. ASSUME NEW loc \in WkPcs, Goto(w, loc), loc \in HoldPcs => wk[w].pc \in HoldPcs
      PROVE  [Owner!Next]_holder
  BY <1>1, GotoKeeps, OneDriverMoves DEF OnlyMoves, GoesOnOrLetsGo
<1>2. ASSUME GoIdle(w) PROVE [Owner!Next]_holder
  BY <1>2, OneIsSentBack DEF GoIdle
<1>3. ASSUME NEW class, wk' = [wk EXCEPT ![w].pc = "broken", ![w].class = class],
             wk[w].pc \in ActivatedPcs
      PROVE  [Owner!Next]_holder
  <2>1. "broken" \in HoldPcs
    BY DEF ActivatedPcs, HoldPcs
  <2> QED BY <1>0, <1>3, <2>1, BreaksKeeps, OneDriverMoves DEF OnlyMoves, GoesOnOrLetsGo
<1>4. CASE EmitClaimed(w)
  <2>1. CASE GoIdle(w)
    BY <1>2, <2>1
  <2>2. CASE wk' = [wk EXCEPT ![w].pc = "running", ![w].tries = 0, ![w].full = 1]
    <3>1. /\ wk'[w].pc = "running" /\ wk'[w].issue = wk[w].issue /\ OnlyMoves(w)
          /\ wk[w].pc = "claiming"
      BY <1>4, <2>2 DEF EmitClaimed, OnlyMoves, TypeOK, WkState
    <3> QED BY <1>0, <3>1, OneDriverMoves DEF GoesOnOrLetsGo, ActivatedPcs
  <2>3. CASE wk' = [wk EXCEPT ![w].tries = @ - 1]
    <3>1. /\ wk'[w].pc = wk[w].pc /\ wk'[w].issue = wk[w].issue /\ OnlyMoves(w)
          /\ wk[w].pc = "claiming"
      BY <1>4, <2>3 DEF EmitClaimed, OnlyMoves, TypeOK, WkState
    <3> QED BY <1>0, <3>1, OneDriverMoves DEF GoesOnOrLetsGo
  <2> QED BY <1>4, <2>1, <2>2, <2>3 DEF EmitClaimed
<1>5. CASE EmitRelaunched(w)
  BY <1>0, <1>1, <1>5 DEF EmitRelaunched, ActivatedPcs
<1>6. CASE RunFails(w)
  BY <1>3, <1>6 DEF RunFails, SessionEnds, ActivatedPcs
<1>7. CASE OpenPr(w)
  BY <1>0, <1>1, <1>3, <1>7 DEF OpenPr, SessionEnds, GitHubCall, Breaks, ActivatedPcs
<1>8. CASE LabelPr(w)
  BY <1>0, <1>1, <1>3, <1>8 DEF LabelPr, GitHubCall, Breaks, ActivatedPcs
<1>9. CASE EmitPrOpen(w)
  BY <1>0, <1>1, <1>9 DEF EmitPrOpen
<1>10. CASE PushRunEvidence(w)
  BY <1>0, <1>1, <1>2, <1>10 DEF PushRunEvidence, ActivatedPcs
<1>11. CASE EmitFailed(w)
  <2>1. NextAttempt(w) /\ wk[w].pc \in ActivatedPcs
    BY <1>11 DEF EmitFailed, ActivatedPcs
  <2>2. {"relaunching", "escalating"} \subseteq ActivatedPcs
    BY DEF ActivatedPcs
  <2> QED BY <1>0, <2>1, <2>2, RetryKeeps, OneDriverMoves DEF OnlyMoves, GoesOnOrLetsGo
<1>12. CASE EscalateLabel(w)
  BY <1>0, <1>1, <1>2, <1>12 DEF EscalateLabel, GitHubCall, ActivatedPcs
<1>13. CASE EscalateUnassign(w)
  BY <1>0, <1>1, <1>2, <1>13 DEF EscalateUnassign, GitHubCall, ActivatedPcs
<1>14. CASE EscalateUnclaim(w)
  BY <1>0, <1>1, <1>2, <1>14 DEF EscalateUnclaim, GitHubCall, ActivatedPcs
<1>15. CASE EmitEscalated(w)
  BY <1>2, <1>15 DEF EmitEscalated
<1> QED BY <1>4, <1>5, <1>6, <1>7, <1>8, <1>9, <1>10, <1>11, <1>12, <1>13, <1>14, <1>15
        DEF ClaimStep

LEMMA DriverMaps ==
  ASSUME TypeOK, SingleOwner, SingleOwner', NEW w \in Worker, DriverStep(w)
  PROVE  [Owner!Next]_holder
<1>1. CASE AskWork(w)
  <2>1. Goto(w, "asking") /\ "asking" \in WkPcs /\ "asking" \notin HoldPcs
    BY <1>1 DEF AskWork, Goto, WkPcs, HoldPcs, ActivatedPcs
  <2> QED BY <2>1, GotoKeeps, OneDriverMoves DEF OnlyMoves, GoesOnOrLetsGo
<1>2. CASE AskTimesOut(w)
  BY <1>2, OneIsSentBack DEF AskTimesOut
<1>3. CASE IdleSweep(w)
  BY <1>3, DriversStay DEF IdleSweep
<1>4. CASE Boot(w)
  BY <1>4, OneIsSentBack DEF Boot, GoIdle
<1> QED BY <1>1, <1>2, <1>3, <1>4, ClaimStepMaps DEF DriverStep

LEMMA JanitorMaps ==
  ASSUME SingleOwner, SingleOwner', JanitorStep
  PROVE  [Owner!Next]_holder
<1>1. CASE SweepStep
  BY <1>1, DriversStay DEF SweepStep, SweepVerify, SweepEvidence, SweepLabel, SweepStrip,
                           SweepUnlabel, SweepLedger
<1>2. CASE ReleaseStep
  BY <1>2, DriversStay DEF ReleaseStep, ReleaseRow, UnwindAssignees, UnwindInProgress,
                           UnwindRequeue, Rerecord
<1>3. ASSUME NEW i \in Issue, SweepClear(i) \/ SweepFlag(i) \/ ReleaseLook(i)
      PROVE  [Owner!Next]_holder
  BY <1>3, DriversStay DEF SweepClear, SweepFlag, ReleaseLook
<1> QED BY <1>1, <1>2, <1>3 DEF JanitorStep

LEMMA EnvironmentMaps ==
  ASSUME TypeOK, SingleOwner, SingleOwner', Environment
  PROVE  [Owner!Next]_holder
<1>1. ASSUME NEW w \in Worker, DriverDies(w) PROVE [Owner!Next]_holder
  BY <1>1, OneIsSentBack DEF DriverDies
<1>2. ASSUME NEW w \in Worker, CutLink(w) \/ GraceElapses(w) \/ Heal(w) \/ Unquarantine(w)
      PROVE  [Owner!Next]_holder
  BY <1>2, DriversStay DEF CutLink, GraceElapses, Heal, Unquarantine
<1>3. ASSUME NEW i \in Issue, WindowElapses(i) \/ HumanRequeue(i) \/ Revise(i)
      PROVE  [Owner!Next]_holder
  BY <1>3, DriversStay DEF WindowElapses, HumanRequeue, Revise
<1>4. CASE ControlCrash
  <2>1. \A w \in Worker : \/ wk'[w] = wk[w]
                          \/ wk[w].pc = "asking" /\ wk'[w].pc = "idle"
    BY <1>4 DEF ControlCrash, IdleWk
  <2>2. "asking" \notin HoldPcs /\ "idle" \notin HoldPcs
    BY DEF HoldPcs, ActivatedPcs
  <2> QED BY <2>1, <2>2, HoldsByPc, NobodyMoves
<1> QED BY <1>1, <1>2, <1>3, <1>4 DEF Environment

----------------------------------------------------------------------------
(* The pass that answers: Listening is an invariant.                       *)

(* The pass is over, or goes on for the same driver, or stops listening.   *)
PassKeeps ==
  \/ dsp' = FreeDsp
  \/ /\ dsp'.waiting => dsp.waiting /\ dsp'.worker = dsp.worker
     /\ dsp'.pc = "free" => dsp.pc = "free"

LEMMA PassUnchanged == UNCHANGED dsp => PassKeeps
BY DEF PassKeeps

LEMMA PassGoes ==
  ASSUME TypeOK, NEW loc \in DspPcs \ {"free"}, dsp' = [dsp EXCEPT !.pc = loc]
  PROVE  PassKeeps
BY DEF PassKeeps, TypeOK, DspState

LEMMA PassForgets ==
  ASSUME TypeOK, NEW w \in Worker,
         dsp' = IF dsp.worker = w THEN [dsp EXCEPT !.waiting = FALSE] ELSE dsp
  PROVE  PassKeeps /\ (dsp'.waiting => dsp.worker # w)
BY DEF PassKeeps, TypeOK, DspState

(* No driver moves that the pass still answers.                            *)
LEMMA ListeningKept ==
  ASSUME Listening, PassKeeps,
         dsp'.waiting => wk'[dsp.worker] = wk[dsp.worker]
  PROVE  Listening'
<1>1. FreeDsp.waiting = FALSE
  BY DEF FreeDsp
<1> QED BY <1>1 DEF Listening, PassKeeps

LEMMA OtherMovesListening ==
  ASSUME Listening, PassKeeps, NEW w \in Worker, OnlyMoves(w),
         dsp'.waiting => dsp.worker # w
  PROVE  Listening'
<1>1. CASE dsp' = FreeDsp
  BY <1>1 DEF Listening, FreeDsp
<1>2. CASE dsp' # FreeDsp
  BY <1>2, ListeningKept DEF Listening, PassKeeps, OnlyMoves
<1> QED BY <1>1, <1>2

LEMMA DriversStayListening ==
  ASSUME Listening, PassKeeps, UNCHANGED wk
  PROVE  Listening'
BY ListeningKept

LEMMA DispatchListening ==
  ASSUME TypeOK, Listening, DispatchStep
  PROVE  Listening'
<1>0. {"picked", "recorded", "assigned", "labelled", "granted"} \subseteq DspPcs \ {"free"}
  BY DEF DspPcs
<1>1. DspAnswerNone => Listening'
  BY DEF DspAnswerNone, Listening, FreeDsp
<1>2. ASSUME NEW loc \in DspPcs \ {"free"}, DspGoto(loc) PROVE Listening'
  BY <1>2, PassGoes, DriversStayListening DEF DspGoto
<1>3. ASSUME NEW w \in Worker, DispatchRead(w) PROVE Listening'
  BY <1>3 DEF DispatchRead, Listening
<1>4. ASSUME NEW w \in Worker, DispatchRefuse(w) PROVE Listening'
  BY <1>4 DEF DispatchRefuse, Listening
<1>5. ASSUME NEW i \in Issue, DispatchPick(i) PROVE Listening'
  <2>1. dsp'.pc = "picked" /\ dsp'.waiting = dsp.waiting /\ dsp'.worker = dsp.worker
    BY <1>5 DEF DispatchPick, TypeOK, DspState
  <2> QED BY <1>5, <2>1, DriversStayListening DEF DispatchPick, PassKeeps
<1>6. CASE DispatchNone
  BY <1>1, <1>6 DEF DispatchNone
<1>7. CASE DispatchRecord
  BY <1>0, <1>2, <1>7 DEF DispatchRecord
<1>8. CASE DispatchAssign
  BY <1>0, <1>1, <1>2, <1>8 DEF DispatchAssign, GitHubCall
<1>9. CASE DispatchClaim
  BY <1>0, <1>1, <1>2, <1>9 DEF DispatchClaim, GitHubCall
<1>10. CASE DispatchUnlabel
  BY <1>0, <1>1, <1>2, <1>10 DEF DispatchUnlabel, GitHubCall
<1>11. CASE DispatchReply
  BY <1>11 DEF DispatchReply, Listening, FreeDsp
<1> QED BY <1>3, <1>4, <1>5, <1>6, <1>7, <1>8, <1>9, <1>10, <1>11 DEF DispatchStep

(* A driver the pass answers is in its request, and takes no step of a     *)
(* claim.                                                                  *)
LEMMA ClaimStepListening ==
  ASSUME TypeOK, Listening, NEW w \in Worker, ClaimStep(w)
  PROVE  Listening'
<1>1. wk[w].pc # "asking" /\ UNCHANGED dsp
  BY DEF ClaimStep, EmitClaimed, EmitRelaunched, OpenPr, RunFails, SessionEnds, LabelPr, EmitPrOpen,
         PushRunEvidence, EmitFailed, EscalateLabel, EscalateUnassign, EscalateUnclaim,
         EmitEscalated
<1>2. OnlyMoves(w)
  BY DEF OnlyMoves, TypeOK, ClaimStep, EmitClaimed, EmitRelaunched, OpenPr, RunFails, LabelPr,
         EmitPrOpen, PushRunEvidence, EmitFailed, NextAttempt, EscalateLabel, EscalateUnassign,
         EscalateUnclaim, EmitEscalated, GitHubCall, Goto, GoIdle, Breaks
<1> QED BY <1>1, <1>2, PassUnchanged, OtherMovesListening DEF Listening

LEMMA DriverListening ==
  ASSUME TypeOK, Listening, NEW w \in Worker, DriverStep(w)
  PROVE  Listening'
<1>1. CASE AskWork(w)
  <2>1. wk[w].pc # "asking" /\ UNCHANGED dsp /\ OnlyMoves(w)
    BY <1>1 DEF AskWork, OnlyMoves, TypeOK
  <2> QED BY <2>1, PassUnchanged, OtherMovesListening DEF Listening
<1>2. CASE AskTimesOut(w)
  <2>1. OnlyMoves(w)
    BY <1>2 DEF AskTimesOut, OnlyMoves, TypeOK
  <2> QED BY <1>2, <2>1, PassForgets, OtherMovesListening DEF AskTimesOut
<1>3. CASE IdleSweep(w)
  BY <1>3, PassUnchanged, DriversStayListening DEF IdleSweep
<1>4. CASE Boot(w)
  <2>1. wk[w].pc # "asking" /\ UNCHANGED dsp /\ OnlyMoves(w)
    BY <1>4 DEF Boot, GoIdle, OnlyMoves, TypeOK
  <2> QED BY <2>1, PassUnchanged, OtherMovesListening DEF Listening
<1> QED BY <1>1, <1>2, <1>3, <1>4, ClaimStepListening DEF DriverStep

LEMMA JanitorListening ==
  ASSUME Listening, JanitorStep
  PROVE  Listening'
<1>1. UNCHANGED <<dsp, wk>>
  BY DEF JanitorStep, SweepStep, SweepVerify, SweepEvidence, SweepLabel, SweepStrip, SweepUnlabel,
         SweepLedger, ReleaseStep, ReleaseRow, UnwindAssignees, UnwindInProgress, UnwindRequeue,
         Rerecord, SweepClear, SweepFlag, ReleaseLook
<1> QED BY <1>1, PassUnchanged, DriversStayListening

LEMMA EnvironmentListening ==
  ASSUME TypeOK, Listening, Environment
  PROVE  Listening'
<1>1. ASSUME NEW w \in Worker, DriverDies(w) PROVE Listening'
  <2>1. OnlyMoves(w)
    BY <1>1 DEF DriverDies, OnlyMoves, TypeOK
  <2> QED BY <1>1, <2>1, PassForgets, OtherMovesListening DEF DriverDies
<1>2. ASSUME UNCHANGED <<dsp, wk>> PROVE Listening'
  BY <1>2, PassUnchanged, DriversStayListening
<1>3. ASSUME NEW w \in Worker, CutLink(w) \/ GraceElapses(w) \/ Heal(w) \/ Unquarantine(w)
      PROVE  Listening'
  BY <1>2, <1>3 DEF CutLink, GraceElapses, Heal, Unquarantine
<1>4. ASSUME NEW i \in Issue, WindowElapses(i) \/ HumanRequeue(i) \/ Revise(i)
      PROVE  Listening'
  BY <1>2, <1>4 DEF WindowElapses, HumanRequeue, Revise
<1>5. CASE ControlCrash
  BY <1>5 DEF ControlCrash, Listening, FreeDsp
<1> QED BY <1>1, <1>3, <1>4, <1>5 DEF Environment

(* A driver whose request is still open is the one the pass answers        *)
(* (grant_work, request_work).                                             *)
THEOREM ListeningIsInvariant == Spec => []Listening
<1>1. Init => Listening
  BY DEF Init, Listening, FreeDsp
<1>2. TypeOK /\ Listening /\ UNCHANGED vars => Listening'
  BY PassUnchanged, DriversStayListening DEF vars
<1>3. TypeOK /\ Listening /\ [Next]_vars => Listening'
  BY <1>2, DispatchListening, DriverListening, JanitorListening, EnvironmentListening DEF Next
<1> QED BY <1>1, <1>3, TypeCorrect, PTL DEF Spec

----------------------------------------------------------------------------
(* At any bound, any number of issues and drivers, and whatever dies, is   *)
(* lost or raises, the protocol of grant_work, execute_claim and           *)
(* release_never_activated implements ClaimOwner, as long as the           *)
(* activation window exceeds a driver's timeout and handshake.             *)
THEOREM ProtocolImplementsClaimOwner == ASSUME Timely PROVE Spec => ImplementsClaimOwner
<1>1. Init => Owner!Init
  <2> SUFFICES ASSUME Init PROVE Owner!Init
    OBVIOUS
  <2>1. \A i \in Issue, w \in Worker : ~Holds(w, i)
    BY HoldsByPc DEF Init, IdleWk, HoldPcs, ActivatedPcs
  <2>2. \A i \in Issue : {w \in Worker : Holds(w, i)} = {}
    BY <2>1
  <2>3. OneOf({}) = None
    BY DEF OneOf
  <2>4. holder = [i \in Issue |-> None]
    BY <2>2, <2>3 DEF holder
  <2> QED BY <2>4 DEF Owner!Init
<1>2. ASSUME TypeOK, OwnershipInvariant, OwnershipInvariant', Listening, [Next]_vars
      PROVE  [Owner!Next]_holder
  <2>1. SingleOwner /\ SingleOwner' /\ PassIsExclusive
    BY <1>2 DEF OwnershipInvariant
  <2>2. CASE UNCHANGED vars
    BY <2>1, <2>2, DriversStay DEF vars
  <2> QED BY <1>2, <2>1, <2>2, DispatchMaps, DriverMaps, JanitorMaps, EnvironmentMaps DEF Next
<1> QED BY <1>1, <1>2, TypeCorrect, OwnershipIsInvariant, ListeningIsInvariant, PTL
        DEF Spec, ImplementsClaimOwner, Owner!Spec
=============================================================================
