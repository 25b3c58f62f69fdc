------------------------- MODULE Dependencies_proofs -------------------------
(***************************************************************************)
(* Machine-checked theorems about Dependencies, for every set of issues,   *)
(* every initial graph and every bound: its type invariant, the loop       *)
(* invariant of walk_closure, and that pull requests carry their own       *)
(* layers, work starts in order and no base drops a blocker's work.        *)
(***************************************************************************)
EXTENDS Dependencies, SequenceTheorems, TLAPS

----------------------------------------------------------------------------
(* The type invariant: first what the helpers of the actions do.           *)

(* A spent budget is still a budget.                                       *)
LEMMA SpendType ==
  ASSUME left \in [Budget -> Nat], NEW b \in Budget, Spend(b)
  PROVE  left' \in [Budget -> Nat]
BY DEF Spend, Budget

(* A Run that comes back is in one of its states.                          *)
LEMMA ReturnsType ==
  ASSUME TypeOK, NEW i, Returns(i)
  PROVE  run' \in [Issue -> RunState]
<1>1. InPool \in RunState /\ Granted \in RunState
  BY DEF InPool, Granted, RunState, Branch
<1>2. PICK back \in {InPool, Granted} : run' = [run EXCEPT ![i] = back]
  BY DEF Returns
<1>3. back \in RunState /\ run \in [Issue -> RunState]
  BY <1>1, <1>2 DEF TypeOK
<1> QED BY <1>2, <1>3

(* So is the Run of a walk that found no go-ahead.                         *)
LEMMA SkipOrFailType ==
  ASSUME TypeOK, SkipOrFail
  PROVE  run' \in [Issue -> RunState]
<1>1. CASE walk.by = "driver"
  BY <1>1, ReturnsType DEF SkipOrFail
<1>2. CASE walk.by # "driver"
  BY <1>2 DEF SkipOrFail, TypeOK
<1> QED BY <1>1, <1>2

(* A walk that starts, and one that is over, is well typed.                *)
LEMMA StartWalkType ==
  ASSUME NEW i \in Issue, NEW by \in {"dispatch", "driver"}, StartWalk(by, i)
  PROVE  WalkTypes'
<1>1. walk' \in Walk /\ (walk'.pc = "read" => walk'.at \in Issue)
  BY DEF StartWalk, NoWalk, Walk, Branch
<1>2. path' \in Seq(Issue) /\ order' \in Seq(Issue)
  BY DEF StartWalk
<1>3. todo' \in [Issue -> SUBSET Issue] /\ edges' \in [Issue -> SUBSET Issue]
  BY DEF StartWalk
<1>4. seen' \in [Issue -> Status \cup {None}] /\ read' \in [Issue -> {None} \cup Pull]
  BY DEF StartWalk, Unread
<1> QED BY <1>1, <1>2, <1>3, <1>4 DEF WalkTypes

LEMMA ClearWalkType ==
  ASSUME ClearWalk
  PROVE  WalkTypes'
<1>1. walk' \in Walk /\ (walk'.pc = "read" => walk'.at \in Issue)
  BY DEF ClearWalk, NoWalk, Walk, Branch
<1>2. path' \in Seq(Issue) /\ order' \in Seq(Issue)
  BY DEF ClearWalk
<1>3. todo' \in [Issue -> SUBSET Issue] /\ edges' \in [Issue -> SUBSET Issue]
  BY DEF ClearWalk
<1>4. seen' \in [Issue -> Status \cup {None}] /\ read' \in [Issue -> {None} \cup Pull]
  BY DEF ClearWalk, Unread
<1> QED BY <1>1, <1>2, <1>3, <1>4 DEF WalkTypes

(* The types of the two halves of the memo.                                *)
MemoType == [blocked : [Issue -> {None} \cup Reply], pull : [Issue -> {None} \cup Pull]]

LEMMA NoMemoType == NoMemo \in MemoType
BY DEF NoMemo, MemoType, Unread

(* list_blocked_by answers a state for each blocker.                       *)
LEMMA ListType ==
  ASSUME TypeOK, NEW i \in Issue
  PROVE  ListBlockedBy(i) \in Reply
<1>1. blockedBy[i] \in SUBSET (Issue \cup {Foreign})
  BY DEF TypeOK, GitHubTypes
<1>2. ListBlockedBy(i) \in [blockedBy[i] -> Status]
  BY <1>1 DEF ListBlockedBy, TypeOK, GitHubTypes, Status
<1> QED BY <1>1, <1>2 DEF Reply

(* Whatever a walk reads, GitHub or the memo, is such an answer.           *)
LEMMA ReadsBlockedType ==
  ASSUME TypeOK, NEW i \in Issue
  PROVE  Reads("blocked", i, ListBlockedBy(i)) \in Reply
<1>1. CASE walk.by = "dispatch" /\ memo["blocked"][i] # None
  <2>1. memo["blocked"] \in [Issue -> {None} \cup Reply]
    BY DEF TypeOK
  <2>2. memo["blocked"][i] \in Reply
    BY <1>1, <2>1
  <2> QED BY <1>1, <2>2 DEF Reads
<1>2. CASE ~(walk.by = "dispatch" /\ memo["blocked"][i] # None)
  BY <1>2, ListType DEF Reads
<1> QED BY <1>1, <1>2

LEMMA ReadsPullType ==
  ASSUME TypeOK, NEW i \in Issue
  PROVE  Reads("pull", i, FindOpenPr(i)) \in Pull
<1>1. FindOpenPr(i) \in Pull
  BY DEF TypeOK, GitHubTypes, FindOpenPr, NoPull, Pull, Branch
<1>2. CASE walk.by = "dispatch" /\ memo["pull"][i] # None
  <2>1. memo["pull"] \in [Issue -> {None} \cup Pull]
    BY DEF TypeOK
  <2>2. memo["pull"][i] \in Pull
    BY <1>2, <2>1
  <2> QED BY <1>2, <2>2 DEF Reads
<1>3. CASE ~(walk.by = "dispatch" /\ memo["pull"][i] # None)
  BY <1>1, <1>3 DEF Reads
<1> QED BY <1>2, <1>3

(* Remembering an answer keeps the memo well typed.                        *)
LEMMA RememberBlockedType ==
  ASSUME TypeOK, NEW i \in Issue, NEW answer \in Reply, Remember("blocked", i, answer)
  PROVE  memo' \in MemoType
<1>1. memo \in MemoType
  BY DEF TypeOK, MemoType
<1>2. [memo EXCEPT !["blocked"][i] = answer] \in MemoType
  BY <1>1 DEF MemoType
<1> QED BY <1>1, <1>2 DEF Remember

LEMMA RememberPullType ==
  ASSUME TypeOK, NEW i \in Issue, NEW answer \in Pull, Remember("pull", i, answer)
  PROVE  memo' \in MemoType
<1>1. memo \in MemoType
  BY DEF TypeOK, MemoType
<1>2. [memo EXCEPT !["pull"][i] = answer] \in MemoType
  BY <1>1 DEF MemoType
<1> QED BY <1>1, <1>2 DEF Remember

(* The walk's own steps keep it well typed.                                *)
LEMMA ReadBlockersType ==
  ASSUME TypeOK, ReadBlockers
  PROVE  WalkTypes' /\ memo' \in MemoType
<1> DEFINE reply == Reads("blocked", walk.at, ListBlockedBy(walk.at))
<1>1. walk.at \in Issue
  BY DEF TypeOK, WalkTypes, ReadBlockers
<1>2. reply \in Reply
  BY <1>1, ReadsBlockedType
<1>3. Foreign \notin DOMAIN reply
  BY DEF ReadBlockers
<1>4. PICK S \in SUBSET (Issue \cup {Foreign}) : reply \in [S -> Status]
  BY <1>2 DEF Reply
<1>5. DOMAIN reply \subseteq Issue /\ \A b \in DOMAIN reply : reply[b] \in Status
  BY <1>3, <1>4
<1> HIDE DEF reply
<1>6. walk' \in Walk /\ walk'.pc = "visit"
  BY DEF TypeOK, WalkTypes, Walk, ReadBlockers
<1>7. path' \in Seq(Issue) /\ order' \in Seq(Issue)
  BY <1>1 DEF TypeOK, WalkTypes, ReadBlockers
<1>8. todo' \in [Issue -> SUBSET Issue] /\ edges' \in [Issue -> SUBSET Issue]
  BY <1>5 DEF TypeOK, WalkTypes, ReadBlockers, reply
<1>9. seen' \in [Issue -> Status \cup {None}] /\ read' \in [Issue -> {None} \cup Pull]
  <2>1. seen' = [b \in Issue |-> IF b \in DOMAIN reply /\ seen[b] = None THEN reply[b] ELSE seen[b]]
    BY DEF ReadBlockers, reply
  <2>2. seen \in [Issue -> Status \cup {None}]
    BY DEF TypeOK, WalkTypes
  <2>3. seen' \in [Issue -> Status \cup {None}]
    BY <1>5, <2>1, <2>2
  <2> QED BY <2>3 DEF TypeOK, WalkTypes, ReadBlockers
<1>10. memo' \in MemoType
  BY <1>1, <1>2, RememberBlockedType DEF ReadBlockers, reply
<1> QED BY <1>6, <1>7, <1>8, <1>9, <1>10 DEF WalkTypes

LEMMA VisitDoneType ==
  ASSUME TypeOK, NEW b \in Issue, VisitDone(b)
  PROVE  WalkTypes'
BY DEF TypeOK, WalkTypes, VisitDone

LEMMA VisitNewType ==
  ASSUME TypeOK, NEW b \in Issue, VisitNew(b)
  PROVE  WalkTypes'
<1>1. walk' \in Walk /\ walk'.at \in Issue
  BY DEF TypeOK, WalkTypes, Walk, VisitNew
<1>2. todo' \in [Issue -> SUBSET Issue]
  BY DEF TypeOK, WalkTypes, VisitNew
<1> QED BY <1>1, <1>2 DEF TypeOK, WalkTypes, VisitNew

(* What is left of a sequence when its last element is taken off.          *)
LEMMA FrontOf ==
  ASSUME NEW S, NEW s \in Seq(S), s # <<>>
  PROVE  /\ SubSeq(s, 1, Len(s) - 1) \in Seq(S)
         /\ Len(SubSeq(s, 1, Len(s) - 1)) = Len(s) - 1
         /\ Len(s) \in Nat \ {0} /\ s[Len(s)] \in S
         /\ \A k \in 1 .. Len(s) - 1 : SubSeq(s, 1, Len(s) - 1)[k] = s[k]
<1>1. Len(s) \in Nat \ {0} /\ s[Len(s)] \in S
  OBVIOUS
<1> DEFINE n == Len(s) - 1
<1>2. n \in Nat /\ \A k \in 1 .. n : s[k] \in S
  BY <1>1
<1>3. /\ SubSeq(s, 1, n) \in Seq(S)
      /\ Len(SubSeq(s, 1, n)) = IF 1 <= n THEN n - 1 + 1 ELSE 0
      /\ \A k \in 1 .. n - 1 + 1 : SubSeq(s, 1, n)[k] = s[1 + k - 1]
  <2> HIDE DEF n
  <2> QED BY <1>2, SubSeqProperties
<1> HIDE DEF n
<1>4. Len(SubSeq(s, 1, n)) = n /\ \A k \in 1 .. n : SubSeq(s, 1, n)[k] = s[k]
  BY <1>2, <1>3
<1> QED BY <1>1, <1>3, <1>4 DEF n

LEMMA LeaveType ==
  ASSUME TypeOK, Leave
  PROVE  WalkTypes'
<1>1. path \in Seq(Issue) /\ path # <<>>
  BY DEF TypeOK, WalkTypes, Leave
<1>2. path' \in Seq(Issue)
  BY <1>1, FrontOf DEF Leave
<1>3. Current \in Issue
  BY <1>1, FrontOf DEF Current
<1>4. order' \in Seq(Issue)
  BY <1>3 DEF TypeOK, WalkTypes, Leave
<1>5. walk' \in Walk /\ walk'.pc # "read"
  BY DEF TypeOK, WalkTypes, Walk, Leave
<1> QED BY <1>2, <1>4, <1>5 DEF TypeOK, WalkTypes, Leave

LEMMA ReadPullType ==
  ASSUME TypeOK, NEW b \in Issue, ReadPull(b)
  PROVE  WalkTypes' /\ memo' \in MemoType
<1> DEFINE reply == Reads("pull", b, FindOpenPr(b))
<1>1. reply \in Pull
  BY ReadsPullType
<1>2. memo' \in MemoType
  BY <1>1, RememberPullType DEF ReadPull
<1>3. read' \in [Issue -> {None} \cup Pull]
  BY <1>1 DEF ReadPull, TypeOK, WalkTypes
<1> QED BY <1>2, <1>3 DEF ReadPull, TypeOK, WalkTypes

LEMMA ReadPullWaitsType ==
  ASSUME TypeOK, NEW b \in Issue, ReadPullWaits(b)
  PROVE  WalkTypes' /\ memo' \in MemoType /\ run' \in [Issue -> RunState]
BY ReadsPullType, RememberPullType, ClearWalkType, SkipOrFailType DEF ReadPullWaits

(* The steps of a walk and of resolve leave every variable well typed.     *)
LEMMA WalkStepType ==
  ASSUME TypeOK, WalkStep
  PROVE  TypeOK'
<1>1. CASE ReadBlockers
  BY <1>1, ReadBlockersType DEF ReadBlockers, github, TypeOK, GitHubTypes, MemoType
<1>2. CASE ReadForeign
  BY <1>2, ClearWalkType, SkipOrFailType DEF ReadForeign, NoGoAhead, github, TypeOK, GitHubTypes
<1>3. CASE Leave
  BY <1>3, LeaveType DEF Leave, github, TypeOK, GitHubTypes
<1>4. CASE ReadFails
  <2>1. "fault" \in Budget
    BY DEF Budget
  <2>2. left' \in [Budget -> Nat] /\ WalkTypes' /\ run' \in [Issue -> RunState]
    BY <1>4, <2>1, SpendType, ClearWalkType, SkipOrFailType DEF ReadFails, TypeOK
  <2>3. pass' \subseteq Issue
    BY <1>4 DEF ReadFails, TypeOK
  <2> QED BY <1>4, <2>2, <2>3 DEF ReadFails, github, TypeOK, GitHubTypes
<1>5. ASSUME NEW b \in Issue, VisitCycle(b) PROVE TypeOK'
  BY <1>5, ClearWalkType, SkipOrFailType DEF VisitCycle, NoGoAhead, github, TypeOK, GitHubTypes
<1>6. ASSUME NEW b \in Issue, VisitDone(b) PROVE TypeOK'
  BY <1>6, VisitDoneType DEF VisitDone, github, TypeOK, GitHubTypes
<1>7. ASSUME NEW b \in Issue, VisitNew(b) PROVE TypeOK'
  BY <1>7, VisitNewType DEF VisitNew, github, TypeOK, GitHubTypes
<1> QED BY <1>1, <1>2, <1>3, <1>4, <1>5, <1>6, <1>7 DEF WalkStep

LEMMA RunStateMoves ==
  ASSUME NEW r \in RunState
  PROVE  /\ [r EXCEPT !.pc = "granted"] \in RunState
         /\ [r EXCEPT !.pc = "pushed"] \in RunState
         /\ [r EXCEPT !.pc = "shipped"] \in RunState
         /\ \A b \in Branch : [r EXCEPT !.pc = "publish", !.base = b] \in RunState
         /\ r.base \in Branch /\ r.cut \in SUBSET Issue
BY DEF RunState

LEMMA ResolveStepType ==
  ASSUME TypeOK, ResolveStep
  PROVE  TypeOK'
<1>1. CASE ResolveNone
  BY <1>1, ClearWalkType, SkipOrFailType DEF ResolveNone, NoGoAhead, github, TypeOK, GitHubTypes
<1>2. CASE CheckoutFails
  BY <1>2, ClearWalkType, SkipOrFailType DEF CheckoutFails, NoGoAhead, github, TypeOK, GitHubTypes
<1>3. CASE Checkout
  <2>1. walk.base \in Branch /\ work[walk.base] \in SUBSET Issue
    BY DEF TypeOK, WalkTypes, GitHubTypes, Walk
  <2>2. [pc |-> "working", base |-> walk.base, cut |-> work[walk.base]] \in RunState
    BY <2>1 DEF RunState
  <2>3. run' \in [Issue -> RunState]
    BY <1>3, <2>2 DEF Checkout, TypeOK
  <2> QED BY <1>3, <2>3, ClearWalkType DEF Checkout, github, TypeOK, GitHubTypes
<1>4. ASSUME NEW b \in Issue, ReadPull(b) PROVE TypeOK'
  BY <1>4, ReadPullType DEF ReadPull, github, TypeOK, GitHubTypes, MemoType
<1>5. ASSUME NEW b \in Issue, ReadPullWaits(b) PROVE TypeOK'
  BY <1>5, ReadPullWaitsType DEF ReadPullWaits, github, TypeOK, GitHubTypes, MemoType
<1>6. ASSUME NEW b \in Branch, Grant(b) PROVE TypeOK'
  <2>2. \A i \in Issue : [run[i] EXCEPT !.pc = "granted"] \in RunState
    BY RunStateMoves DEF TypeOK
  <2>1. run' \in [Issue -> RunState]
    BY <1>6, <2>2 DEF Grant, TypeOK
  <2> QED BY <1>6, <2>1, ClearWalkType DEF Grant, github, TypeOK, GitHubTypes
<1>7. ASSUME NEW b \in Branch, DeriveBase(b) PROVE TypeOK'
  <2>1. walk' \in Walk /\ walk'.pc = "checkout"
    BY <1>7 DEF DeriveBase, TypeOK, WalkTypes, Walk
  <2> QED BY <1>7, <2>1 DEF DeriveBase, closure, github, TypeOK, GitHubTypes, WalkTypes
<1> QED BY <1>1, <1>2, <1>3, <1>4, <1>5, <1>6, <1>7 DEF ResolveStep

(* So do the grant passes, and the Runs from their start to their end.     *)
LEMMA StartType ==
  ASSUME TypeOK, Start
  PROVE  TypeOK'
<1>1. CASE StartPass
  <2>1. pass' \subseteq Issue
    BY <1>1 DEF StartPass, Candidates
  <2>2. memo' \in MemoType
    BY <1>1, NoMemoType DEF StartPass
  <2> QED BY <1>1, <2>1, <2>2 DEF StartPass, closure, github, TypeOK, GitHubTypes, WalkTypes, MemoType
<1>2. ASSUME NEW i \in Issue, Consider(i) PROVE TypeOK'
  <2>1. pass' \subseteq Issue /\ WalkTypes'
    BY <1>2, StartWalkType DEF Consider, TypeOK
  <2> QED BY <1>2, <2>1 DEF Consider, github, TypeOK, GitHubTypes
<1>3. ASSUME NEW i \in Issue, StartRun(i) PROVE TypeOK'
  BY <1>3, StartWalkType DEF StartRun, github, TypeOK, GitHubTypes
<1> QED BY <1>1, <1>2, <1>3 DEF Start

LEMMA SessionType ==
  ASSUME TypeOK, NEW i \in Issue, Session(i) \/ RunFails(i)
  PROVE  TypeOK'
<1> USE DEF closure, github, TypeOK, GitHubTypes, WalkTypes
<1>1. CASE Push(i)
  <2>1. [run[i] EXCEPT !.pc = "pushed"] \in RunState /\ run[i].cut \cup {i} \in SUBSET Issue
    BY RunStateMoves
  <2>2. run' \in [Issue -> RunState]
    BY <1>1, <2>1 DEF Push
  <2>3. work' \in [Branch -> SUBSET Issue] /\ branches' \subseteq Issue
    BY <1>1, <2>1 DEF Push
  <2> QED BY <1>1, <2>2, <2>3 DEF Push
<1>2. CASE ReconcileBase(i)
  <2>1. PICK base \in Branch : run' = [run EXCEPT ![i].pc = "publish", ![i].base = base]
    BY <1>2 DEF ReconcileBase
  <2>2. [run[i] EXCEPT !.pc = "publish", !.base = base] \in RunState
    BY RunStateMoves
  <2>3. run' = [run EXCEPT ![i] = [run[i] EXCEPT !.pc = "publish", !.base = base]]
    BY <2>1
  <2>4. run' \in [Issue -> RunState]
    BY <2>2, <2>3
  <2> QED BY <1>2, <2>4 DEF ReconcileBase
<1>3. CASE Publish(i)
  <2>1. [run[i] EXCEPT !.pc = "shipped"] \in RunState /\ run[i].base \in Branch
    BY RunStateMoves
  <2>2. run' \in [Issue -> RunState]
    BY <1>3, <2>1 DEF Publish
  <2>3. pull' \in [Issue -> Pull]
    BY <1>3, <2>1 DEF Publish, Pull
  <2> QED BY <1>3, <2>2, <2>3 DEF Publish
<1>4. CASE ShipFails(i)
  BY <1>4, ReturnsType DEF ShipFails
<1>5. CASE RunFails(i)
  <2>1. "fault" \in Budget
    BY DEF Budget
  <2> QED BY <1>5, <2>1, ReturnsType, SpendType DEF RunFails
<1> QED BY <1>1, <1>2, <1>3, <1>4, <1>5 DEF Session

(* So does what happens on GitHub.                                         *)
LEMMA PullMoves ==
  ASSUME NEW p \in Pull
  PROVE  /\ [p EXCEPT !.state = "merged"] \in Pull
         /\ [p EXCEPT !.state = "closed"] \in Pull
         /\ \A a \in BOOLEAN : [p EXCEPT !.approved = a] \in Pull
         /\ \A b \in Branch : [p EXCEPT !.base = b] \in Pull
         /\ p.base \in Branch
BY DEF Pull

LEMMA HumanType ==
  ASSUME TypeOK, NEW i \in Issue, Human(i)
  PROVE  TypeOK'
<1> USE DEF internal, TypeOK, GitHubTypes, WalkTypes
<1>1. "reject" \in Budget
  BY DEF Budget
<1>2. CASE Approve(i)
  <2>1. [pull[i] EXCEPT !.approved = TRUE] \in Pull
    BY PullMoves
  <2> HIDE DEF TypeOK, GitHubTypes, WalkTypes
  <2>2. pull' \in [Issue -> Pull]
    BY <1>2, <2>1 DEF Approve, TypeOK, GitHubTypes
  <2> QED BY <1>2, <2>2 DEF Approve, TypeOK, GitHubTypes, WalkTypes
<1>3. CASE Reject(i)
  <2>1. [pull[i] EXCEPT !.approved = FALSE] \in Pull
    BY PullMoves
  <2> HIDE DEF TypeOK, GitHubTypes, WalkTypes
  <2>2. pull' \in [Issue -> Pull]
    BY <1>3, <2>1 DEF Reject, TypeOK, GitHubTypes
  <2>3. left' \in [Budget -> Nat]
    BY <1>1, <1>3, SpendType DEF Reject, TypeOK
  <2> QED BY <1>3, <2>2, <2>3 DEF Reject, TypeOK, GitHubTypes, WalkTypes
<1>4. CASE Merge(i)
  <2>1. pull[i].base \in Branch /\ i \in Branch
    BY PullMoves DEF Branch
  <2>2. \A j \in Issue : /\ [pull[i] EXCEPT !.state = "merged"] \in Pull
                         /\ [pull[j] EXCEPT !.base = pull[i].base] \in Pull
    BY <2>1, PullMoves
  <2>3. pull' \in [Issue -> Pull]
    BY <1>4, <2>2 DEF Merge
  <2>4. work' \in [Branch -> SUBSET Issue] /\ branches' \subseteq Issue
    BY <1>4, <2>1 DEF Merge
  <2>5. status' \in [Issue -> Status]
    BY <1>4 DEF Merge, Status
  <2> QED BY <1>4, <2>3, <2>4, <2>5 DEF Merge
<1>5. CASE Complete(i)
  BY <1>5 DEF Complete, Status
<1>6. CASE Abandon(i)
  <2>1. [pull[i] EXCEPT !.state = "closed"] \in Pull
    BY PullMoves
  <2> HIDE DEF TypeOK, GitHubTypes, WalkTypes
  <2>3. pull' \in [Issue -> Pull]
    BY <1>6, <2>1 DEF Abandon, TypeOK, GitHubTypes
  <2>2. status' \in [Issue -> Status] /\ left' \in [Budget -> Nat]
    BY <1>1, <1>6, SpendType DEF Abandon, Status, TypeOK, GitHubTypes
  <2> QED BY <1>6, <2>2, <2>3 DEF Abandon, TypeOK, GitHubTypes, WalkTypes
<1>7. CASE DeleteBranch(i)
  <2>1. \A j \in Issue : [pull[j] EXCEPT !.state = "closed"] \in Pull
    BY PullMoves
  <2>2. pull' \in [Issue -> Pull] /\ branches' \subseteq Issue
    BY <1>7, <2>1 DEF DeleteBranch
  <2> QED BY <1>7, <2>2 DEF DeleteBranch
<1> QED BY <1>2, <1>3, <1>4, <1>5, <1>6, <1>7 DEF Human

LEMMA EditType ==
  ASSUME TypeOK, NEW i \in Issue, NEW b \in Issue \cup {Foreign}, EditEdge(i, b)
  PROVE  TypeOK'
<1>1. "edit" \in Budget
  BY DEF Budget
<1>2. blockedBy' \in [Issue -> SUBSET (Issue \cup {Foreign})] /\ left' \in [Budget -> Nat]
  BY <1>1, SpendType DEF EditEdge, TypeOK, GitHubTypes
<1> QED BY <1>2 DEF EditEdge, internal, TypeOK, GitHubTypes, WalkTypes

(* The initial states are well typed, and no step or stutter breaks that.  *)
LEMMA InitType == Init => TypeOK
<1> SUFFICES ASSUME Init PROVE TypeOK
  OBVIOUS
<1>1. GitHubTypes
  BY DependenciesAssumption DEF Init, GitHubTypes, Status, NoPull, Pull, Branch
<1>2. WalkTypes
  BY DEF Init, WalkTypes, NoWalk, Walk, Branch, Unread
<1>3. run \in [Issue -> RunState] /\ pass \subseteq Issue
  BY DEF Init, InPool, RunState, Branch
<1>4. memo \in MemoType
  BY NoMemoType DEF Init
<1>5. left \in [Budget -> Nat]
  BY DependenciesAssumption DEF Init, Budget
<1> QED BY <1>1, <1>2, <1>3, <1>4, <1>5 DEF TypeOK, MemoType

LEMMA NextType ==
  ASSUME TypeOK, [Next]_vars
  PROVE  TypeOK'
<1>1. CASE WalkStep
  BY <1>1, WalkStepType
<1>2. CASE ResolveStep
  BY <1>2, ResolveStepType
<1>3. CASE Start
  BY <1>3, StartType
<1>4. ASSUME NEW i \in Issue, Session(i) \/ RunFails(i) \/ Human(i) PROVE TypeOK'
  BY <1>4, SessionType, HumanType
<1>5. ASSUME NEW i \in Issue, NEW b \in Issue \cup {Foreign}, EditEdge(i, b) PROVE TypeOK'
  BY <1>5, EditType
<1>6. CASE UNCHANGED vars
  BY <1>6 DEF vars, TypeOK, GitHubTypes, WalkTypes
<1> QED BY <1>1, <1>2, <1>3, <1>4, <1>5, <1>6 DEF Next

(* Every variable keeps its type: in particular no blocker of another      *)
(* repository gets into a walk (walk_closure, CrossRepoEdgeError).         *)
THEOREM TypeCorrect == Spec => []TypeOK
<1>1. Init => TypeOK
  BY InitType
<1>2. TypeOK /\ [Next]_vars => TypeOK'
  BY NextType
<1> QED BY <1>1, <1>2, PTL DEF Spec

----------------------------------------------------------------------------
(* The loop invariant of walk_closure. One lemma per action of the walk;   *)
(* the other actions start a walk, end one, or leave it alone.             *)

(* A walk without frames and done issues.                                  *)
LEMMA FreshWalkKeeps ==
  ASSUME DependenciesAssumption, path' = <<>>, order' = <<>>,
         \/ walk'.pc = "idle" /\ walk'.at = None
         \/ walk'.pc = "read" /\ walk'.at \in Issue /\ walk'.at = walk'.root
  PROVE  WalkInvariant'
<1>1. Len(path') = 0 /\ Len(order') = 0
  OBVIOUS
<1>2. OrderIsTopological' /\ OrderIsComplete' /\ CyclesAreRead' /\ FramesAreCovered'
  BY <1>1 DEF OrderIsTopological, OrderIsComplete, CyclesAreRead, FramesAreCovered
<1>3. PathIsSimple'
  BY <1>1 DEF PathIsSimple, OnPath, Done
<1>4. PathIsStack'
  BY <1>1 DEF PathIsStack
<1> QED BY <1>2, <1>3, <1>4 DEF WalkInvariant

LEMMA StartWalkKeeps ==
  ASSUME NEW i \in Issue, NEW by \in {"dispatch", "driver"}, StartWalk(by, i)
  PROVE  WalkInvariant'
BY FreshWalkKeeps, DependenciesAssumption DEF StartWalk, NoWalk

LEMMA ClearWalkKeeps ==
  ASSUME ClearWalk
  PROVE  WalkInvariant'
BY FreshWalkKeeps, DependenciesAssumption DEF ClearWalk, NoWalk

(* A step that leaves the path and the order alone, and at most ends the   *)
(* walk.                                                                   *)
LEMMA SameWalkKeeps ==
  ASSUME WalkInvariant, UNCHANGED <<path, todo, order, edges>>,
         \/ walk' = walk
         \/ walk'.pc = "checkout" /\ walk.pc = "resolve" /\ walk'.at = walk.at
            /\ walk'.root = walk.root
  PROVE  WalkInvariant'
<1>1. walk'.at = walk.at /\ walk'.root = walk.root /\ walk'.pc \in {walk.pc, "checkout"}
      /\ (walk'.pc # walk.pc => walk.pc = "resolve")
  OBVIOUS
<1>2. Done' = Done /\ OnPath' = OnPath /\ Current' = Current
  BY DEF Done, OnPath, Current
<1>3. OrderIsTopological' /\ CyclesAreRead'
  BY DEF WalkInvariant, OrderIsTopological, CyclesAreRead
<1>4. OrderIsComplete'
  BY <1>1 DEF WalkInvariant, OrderIsComplete
<1>5. FramesAreCovered'
  BY <1>1, <1>2 DEF WalkInvariant, FramesAreCovered
<1>6. PathIsSimple'
  BY <1>1, <1>2 DEF WalkInvariant, PathIsSimple
<1>7. PathIsStack'
  BY <1>1, <1>2 DEF WalkInvariant, PathIsStack
<1> QED BY <1>3, <1>4, <1>5, <1>6, <1>7 DEF WalkInvariant

(* The base is derived: the walk is over and its order stands.             *)
LEMMA DeriveBaseKeeps ==
  ASSUME TypeOK, WalkInvariant, NEW b \in Branch, DeriveBase(b)
  PROVE  WalkInvariant'
<1>1. /\ walk'.pc = "checkout" /\ walk'.at = walk.at /\ walk'.root = walk.root
      /\ walk.pc = "resolve" /\ UNCHANGED <<path, todo, order, edges>>
  BY DEF DeriveBase, Resolved, closure, TypeOK, WalkTypes, Walk
<1> QED BY <1>1, SameWalkKeeps

(* A blocker that is done is left out of the frame.                        *)
LEMMA VisitDoneKeeps ==
  ASSUME TypeOK, WalkInvariant, NEW b \in Issue, VisitDone(b)
  PROVE  WalkInvariant'
<1>1. /\ b \in Done /\ UNCHANGED <<walk, path, order, edges>>
      /\ todo' = [todo EXCEPT ![Current] = @ \ {b}]
  BY DEF VisitDone
<1>2. \A j \in Issue : todo'[j] \subseteq todo[j] /\ todo[j] \subseteq todo'[j] \cup {b}
  BY <1>1 DEF TypeOK, WalkTypes
<1>3. \A k \in 1 .. Len(path) : path[k] \in Issue
  BY DEF TypeOK, WalkTypes
<1>4. OrderIsTopological' /\ OrderIsComplete' /\ CyclesAreRead'
  BY <1>1 DEF WalkInvariant, OrderIsTopological, OrderIsComplete, CyclesAreRead
<1>5. Done' = Done /\ OnPath' = OnPath
  BY <1>1 DEF Done, OnPath
<1>8. PathIsSimple'
  BY <1>1, <1>5 DEF WalkInvariant, PathIsSimple
<1>6. FramesAreCovered'
  BY <1>1, <1>2, <1>3, <1>5 DEF WalkInvariant, FramesAreCovered
<1>7. PathIsStack'
  BY <1>1, <1>2, <1>3 DEF WalkInvariant, PathIsStack, Current
<1> QED BY <1>4, <1>6, <1>7, <1>8 DEF WalkInvariant

(* A blocker that is neither done nor on the path is visited.              *)
LEMMA VisitNewKeeps ==
  ASSUME TypeOK, WalkInvariant, NEW b \in Issue, VisitNew(b)
  PROVE  WalkInvariant'
<1>1. /\ b \notin Done /\ b \notin OnPath /\ UNCHANGED <<path, order, edges>>
      /\ todo' = [todo EXCEPT ![Current] = @ \ {b}]
      /\ walk.pc = "visit" /\ path # <<>> /\ b \in todo[Current]
  BY DEF VisitNew, NextBlocker, Least
<1>2. walk'.pc = "read" /\ walk'.at = b /\ walk'.root = walk.root
  BY DEF VisitNew, TypeOK, WalkTypes, Walk
<1>3. \A j \in Issue : todo'[j] \subseteq todo[j]
  BY <1>1 DEF TypeOK, WalkTypes
<1>4. /\ Len(path) \in Nat \ {0} /\ Current \in Issue /\ Current = path[Len(path)]
      /\ \A k \in 1 .. Len(path) : path[k] \in Issue
  BY <1>1, FrontOf DEF TypeOK, WalkTypes, Current
<1>5. Done' = Done /\ OnPath' = OnPath /\ Current' = Current
  BY <1>1 DEF Done, OnPath, Current
<1>6. b \in edges[Current]
  BY <1>1, <1>4 DEF WalkInvariant, PathIsStack
<1>7. OrderIsTopological' /\ OrderIsComplete' /\ CyclesAreRead'
  BY <1>1, <1>2 DEF WalkInvariant, OrderIsTopological, OrderIsComplete, CyclesAreRead
<1>8. PathIsSimple'
  BY <1>1, <1>2, <1>5 DEF WalkInvariant, PathIsSimple
<1>9. PathIsStack'
  BY <1>1, <1>2, <1>3, <1>4, <1>5, <1>6 DEF WalkInvariant, PathIsStack
<1>10. FramesAreCovered'
  <2> SUFFICES ASSUME NEW k \in 1 .. Len(path), NEW c \in edges[path[k]]
               PROVE  c \in Done \cup todo'[path[k]] \cup {path[j] : j \in {k + 1} \cap DOMAIN path}
                            \cup (IF k = Len(path) THEN {b} ELSE {})
    BY <1>1, <1>2, <1>5 DEF FramesAreCovered
  <2>1. c \in Done \cup todo[path[k]] \cup {path[j] : j \in {k + 1} \cap DOMAIN path}
                   \cup (IF k = Len(path) THEN {walk.at} ELSE {})
    BY DEF WalkInvariant, FramesAreCovered
  <2>2. walk.at = None /\ None \notin Issue /\ c \in Issue
    BY <1>1, <1>4, DependenciesAssumption DEF WalkInvariant, PathIsSimple, TypeOK, WalkTypes
  <2>3. CASE c \notin todo[path[k]]
    BY <2>1, <2>2, <2>3
  <2>4. CASE c \in todo[path[k]] /\ k = Len(path)
    BY <1>1, <1>4, <2>4 DEF TypeOK, WalkTypes
  <2>5. CASE c \in todo[path[k]] /\ k # Len(path)
    <3>1. path[k] # Current
      BY <1>4, <2>5 DEF WalkInvariant, PathIsSimple
    <3> QED BY <1>1, <1>4, <2>5, <3>1 DEF TypeOK, WalkTypes
  <2> QED BY <2>3, <2>4, <2>5
<1> QED BY <1>7, <1>8, <1>9, <1>10 DEF WalkInvariant

(* An issue is read: a new frame, whose blockers are all yet to be visited.*)
LEMMA ReadBlockersKeeps ==
  ASSUME TypeOK, WalkInvariant, ReadBlockers
  PROVE  WalkInvariant'
<1> DEFINE D == DOMAIN Reads("blocked", walk.at, ListBlockedBy(walk.at))
           i == walk.at
           n == Len(path)
<1>1. /\ i \in Issue /\ i \notin OnPath /\ i \notin Done
      /\ path \in Seq(Issue) /\ order \in Seq(Issue) /\ n \in Nat
      /\ edges \in [Issue -> SUBSET Issue] /\ todo \in [Issue -> SUBSET Issue]
  BY DEF ReadBlockers, WalkInvariant, PathIsSimple, TypeOK, WalkTypes
<1>2. /\ path' = Append(path, i) /\ order' = order
      /\ todo' = [todo EXCEPT ![i] = D] /\ edges' = [edges EXCEPT ![i] = D]
  BY DEF ReadBlockers
<1>3. walk'.pc = "visit" /\ walk'.at = None /\ walk'.root = walk.root /\ walk.pc = "read"
  BY DEF ReadBlockers, TypeOK, WalkTypes, Walk
<1> HIDE DEF D, i
<1>4. /\ Len(path') = n + 1 /\ path'[n + 1] = i
      /\ \A k \in 1 .. n : path'[k] = path[k]
  BY <1>1, <1>2
<1>5. /\ \A k \in 1 .. n : path[k] \in Issue /\ path[k] # i
      /\ \A k \in 1 .. Len(order) : order[k] \in Issue /\ order[k] # i
  BY <1>1 DEF OnPath, Done
<1>6. /\ edges'[i] = D /\ todo'[i] = D
      /\ \A j \in Issue : j # i => edges'[j] = edges[j] /\ todo'[j] = todo[j]
  BY <1>1, <1>2
<1> HIDE DEF n
<1>7. Done' = Done
  BY <1>2 DEF Done
<1>8. OnPath' = OnPath \cup {i}
  <2>1. OnPath' = {path'[k] : k \in 1 .. n + 1} /\ OnPath = {path[k] : k \in 1 .. n}
    BY <1>4 DEF OnPath, n
  <2>2. 1 .. n + 1 = (1 .. n) \cup {n + 1}
    BY <1>1
  <2>3. {path'[k] : k \in 1 .. n} = {path[k] : k \in 1 .. n}
    BY <1>4
  <2> QED BY <1>4, <2>1, <2>2, <2>3
<1>9. OrderIsTopological'
  <2> SUFFICES ASSUME NEW k \in 1 .. Len(order)
               PROVE  edges'[order[k]] \subseteq {order[j] : j \in 1 .. k - 1}
    BY <1>2 DEF OrderIsTopological
  <2>1. edges'[order[k]] = edges[order[k]]
    BY <1>5, <1>6
  <2> QED BY <2>1 DEF WalkInvariant, OrderIsTopological
<1>10. OrderIsComplete'
  BY <1>2, <1>3 DEF WalkInvariant, OrderIsComplete
<1>11. n > 0 => i \in edges[path[n]]
  BY <1>1, <1>3 DEF WalkInvariant, PathIsStack, Current, n, i
<1>12. CyclesAreRead'
  <2> SUFFICES ASSUME NEW k \in 1 .. n PROVE path'[k + 1] \in edges'[path'[k]]
    BY <1>1, <1>4 DEF CyclesAreRead
  <2>1. edges'[path'[k]] = edges[path[k]]
    BY <1>4, <1>5, <1>6
  <2>2. CASE k = n
    BY <1>4, <1>11, <2>1, <2>2
  <2>3. CASE k # n
    <3>1. k \in 1 .. Len(path) - 1 /\ k + 1 \in 1 .. n
      BY <1>1, <2>3 DEF n
    <3> QED BY <1>4, <2>1, <3>1 DEF WalkInvariant, CyclesAreRead
  <2> QED BY <2>2, <2>3
<1>13. PathIsSimple'
  <2>1. \A j, k \in 1 .. n + 1 : path'[j] = path'[k] => j = k
    <3>1. \A j, k \in 1 .. n : path[j] = path[k] => j = k
      BY DEF WalkInvariant, PathIsSimple, n
    <3> QED BY <1>1, <1>4, <1>5, <3>1
  <2>2. OnPath' \cap Done' = {}
    BY <1>1, <1>7, <1>8 DEF WalkInvariant, PathIsSimple
  <2> QED BY <1>3, <1>4, <2>1, <2>2 DEF PathIsSimple
<1>14. PathIsStack'
  <2>1. path' # <<>>
    BY <1>1, <1>4
  <2>2. path'[1] = walk.root
    <3>1. CASE path = <<>>
      BY <1>3, <1>4, <3>1 DEF WalkInvariant, PathIsStack, n, i
    <3>2. CASE path # <<>>
      BY <1>1, <1>4, <3>2 DEF WalkInvariant, PathIsStack, n
    <3> QED BY <3>1, <3>2
  <2>3. \A k \in 1 .. n + 1 : todo'[path'[k]] \subseteq edges'[path'[k]]
    <3>1. \A k \in 1 .. n : todo[path[k]] \subseteq edges[path[k]]
      BY DEF WalkInvariant, PathIsStack, n
    <3> QED BY <1>1, <1>4, <1>5, <1>6, <3>1
  <2> QED BY <1>3, <1>4, <2>1, <2>2, <2>3 DEF PathIsStack
<1>15. FramesAreCovered'
  <2> SUFFICES ASSUME NEW k \in 1 .. n + 1, NEW c \in edges'[path'[k]]
               PROVE  c \in Done \cup todo'[path'[k]]
                            \cup {path'[j] : j \in {k + 1} \cap DOMAIN path'}
    BY <1>4, <1>7 DEF FramesAreCovered
  <2>1. CASE k = n + 1
    BY <1>4, <1>6, <2>1
  <2>2. CASE k # n + 1
    <3>1. k \in 1 .. n /\ edges'[path'[k]] = edges[path[k]] /\ todo'[path'[k]] = todo[path[k]]
          /\ k + 1 \in DOMAIN path' /\ DOMAIN path = 1 .. n
      BY <1>1, <1>2, <1>4, <1>5, <1>6, <2>2 DEF n
    <3>2. c \in Done \cup todo[path[k]] \cup {path[j] : j \in {k + 1} \cap DOMAIN path}
                     \cup (IF k = Len(path) THEN {walk.at} ELSE {})
      BY <3>1 DEF WalkInvariant, FramesAreCovered, n
    <3>3. k = n => path'[k + 1] = walk.at
      BY <1>4 DEF i
    <3>4. k # n => k + 1 \in 1 .. n /\ path'[k + 1] = path[k + 1]
      BY <1>1, <1>4, <3>1
    <3>5. CASE k = n
      <4>1. k + 1 \notin DOMAIN path
        BY <1>1, <3>1, <3>5
      <4> QED BY <3>1, <3>2, <3>3, <3>5, <4>1
    <3>6. CASE k # n
      <4>1. k # Len(path)
        BY <3>6 DEF n
      <4> QED BY <3>1, <3>2, <3>4, <3>6, <4>1
    <3> QED BY <3>5, <3>6
  <2> QED BY <2>1, <2>2
<1> QED BY <1>9, <1>10, <1>12, <1>13, <1>14, <1>15 DEF WalkInvariant

(* The frame of an issue whose blockers are all done is left.              *)
LEMMA LeaveKeeps ==
  ASSUME TypeOK, WalkInvariant, Leave
  PROVE  WalkInvariant'
<1> DEFINE n == Len(path)
           m == Len(order)
           c == path[n]
<1>1. /\ path \in Seq(Issue) /\ path # <<>> /\ order \in Seq(Issue)
      /\ walk.pc = "visit" /\ walk.at = None /\ Current = c /\ todo[c] = {}
      /\ UNCHANGED <<todo, edges>>
  BY DEF Leave, TypeOK, WalkTypes, WalkInvariant, PathIsSimple, Current
<1>2. n \in Nat \ {0} /\ m \in Nat /\ c \in Issue
  BY <1>1, FrontOf
<1>3. /\ Len(path') = n - 1 /\ \A k \in 1 .. n - 1 : path'[k] = path[k]
      /\ path' \in Seq(Issue)
  BY <1>1, FrontOf DEF Leave
<1>4. order' = Append(order, c)
  BY <1>1 DEF Leave
<1>5. Len(order') = m + 1 /\ order'[m + 1] = c /\ \A k \in 1 .. m : order'[k] = order[k]
  BY <1>1, <1>2, <1>4
<1>6. /\ walk'.at = None /\ walk'.root = walk.root
      /\ n = 1 => walk'.pc = "resolve"
      /\ n # 1 => walk'.pc = "visit"
  <2>1. CASE n = 1
    BY <1>1, <2>1 DEF Leave, TypeOK, WalkTypes, Walk
  <2>2. CASE n # 1
    BY <1>1, <2>2 DEF Leave
  <2> QED BY <2>1, <2>2
<1>7. /\ \A j, k \in 1 .. n : path[j] = path[k] => j = k
      /\ c \notin Done
  <2>1. c \in OnPath
    BY <1>2 DEF OnPath
  <2> QED BY <1>2, <2>1 DEF WalkInvariant, PathIsSimple
<1>8. edges[c] \subseteq Done
  <2>1. edges[c] \subseteq Done \cup todo[c] \cup {path[j] : j \in {n + 1} \cap DOMAIN path}
                           \cup {walk.at}
    BY <1>2 DEF WalkInvariant, FramesAreCovered
  <2>2. n + 1 \notin DOMAIN path
    BY <1>1, <1>2
  <2>3. edges[c] \subseteq Issue /\ None \notin Issue
    BY <1>2, DependenciesAssumption DEF TypeOK, WalkTypes
  <2> QED BY <1>1, <2>1, <2>2, <2>3
<1> HIDE DEF c, n, m
<1>9. Done' = Done \cup {c}
  <2>1. Done' = {order'[k] : k \in 1 .. m + 1} /\ Done = {order[k] : k \in 1 .. m}
    BY <1>5 DEF Done, m
  <2>2. 1 .. m + 1 = (1 .. m) \cup {m + 1}
    BY <1>2
  <2>3. {order'[k] : k \in 1 .. m} = {order[k] : k \in 1 .. m}
    BY <1>5
  <2> QED BY <1>5, <2>1, <2>2, <2>3
<1>10. OnPath' \subseteq OnPath \ {c}
  BY <1>2, <1>3, <1>7 DEF OnPath, n, c
<1>11. OrderIsTopological'
  <2> SUFFICES ASSUME NEW k \in 1 .. m + 1
               PROVE  edges[order'[k]] \subseteq {order'[j] : j \in 1 .. k - 1}
    BY <1>1, <1>5 DEF OrderIsTopological
  <2>1. {order'[j] : j \in 1 .. k - 1} = {order[j] : j \in 1 .. k - 1}
    BY <1>2, <1>5
  <2>2. CASE k = m + 1
    <3>1. {order[j] : j \in 1 .. k - 1} = Done
      BY <1>2, <2>2 DEF Done, m
    <3> QED BY <1>5, <1>8, <2>1, <2>2, <3>1
  <2>3. CASE k # m + 1
    <3>1. k \in 1 .. Len(order) /\ order'[k] = order[k]
      BY <1>2, <1>5, <2>3 DEF m
    <3> QED BY <2>1, <3>1 DEF WalkInvariant, OrderIsTopological
  <2> QED BY <2>2, <2>3
<1>12. OrderIsComplete'
  <2>1. \A j, k \in 1 .. m : order[j] = order[k] => j = k
    BY DEF WalkInvariant, OrderIsComplete, m
  <2>2. \A k \in 1 .. m : order[k] # c
    BY <1>7 DEF Done, m
  <2>3. \A j, k \in 1 .. m + 1 : order'[j] = order'[k] => j = k
    BY <1>2, <1>5, <2>1, <2>2
  <2>4. n = 1 => c = walk.root
    BY <1>1 DEF WalkInvariant, PathIsStack, n, c
  <2> QED BY <1>2, <1>5, <1>6, <2>3, <2>4 DEF OrderIsComplete
<1>13. CyclesAreRead'
  BY <1>1, <1>2, <1>3 DEF WalkInvariant, CyclesAreRead, n
<1>14. PathIsSimple'
  <2>1. \A j, k \in 1 .. Len(path') : path'[j] = path'[k] => j = k
    BY <1>2, <1>3, <1>7
  <2>2. OnPath' \cap Done' = {}
    BY <1>9, <1>10 DEF WalkInvariant, PathIsSimple
  <2> QED BY <1>6, <2>1, <2>2 DEF PathIsSimple
<1>15. PathIsStack'
  <2>1. walk'.pc = "visit" => path' # <<>>
    BY <1>2, <1>3, <1>6
  <2>2. path' # <<>> => path'[1] = walk.root
    <3>1. path' # <<>> => 1 \in 1 .. n - 1
      BY <1>2, <1>3
    <3> QED BY <1>1, <1>3, <3>1 DEF WalkInvariant, PathIsStack
  <2>3. \A k \in 1 .. Len(path') : todo'[path'[k]] \subseteq edges'[path'[k]]
    <3> SUFFICES ASSUME NEW k \in 1 .. n - 1
                 PROVE  todo[path[k]] \subseteq edges[path[k]]
      BY <1>1, <1>3
    <3>1. k \in 1 .. Len(path)
      BY <1>2 DEF n
    <3>2. \A l \in 1 .. Len(path) : todo[path[l]] \subseteq edges[path[l]]
      BY DEF WalkInvariant, PathIsStack
    <3> QED BY <3>1, <3>2
  <2> QED BY <1>6, <2>1, <2>2, <2>3 DEF PathIsStack
<1>16. FramesAreCovered'
  <2> SUFFICES ASSUME NEW k \in 1 .. n - 1, NEW d \in edges[path[k]]
               PROVE  d \in Done' \cup todo[path[k]]
                            \cup {path'[j] : j \in {k + 1} \cap DOMAIN path'}
    BY <1>1, <1>3 DEF FramesAreCovered
  <2>1. d \in Done \cup todo[path[k]] \cup {path[j] : j \in {k + 1} \cap DOMAIN path}
    BY <1>2 DEF WalkInvariant, FramesAreCovered, n
  <2>2. CASE k = n - 1
    <3>1. path[k + 1] = c
      BY <1>2, <2>2 DEF c
    <3> QED BY <1>9, <2>1, <3>1
  <2>3. CASE k # n - 1
    <3>1. k + 1 \in 1 .. n - 1 /\ DOMAIN path' = 1 .. n - 1
      BY <1>2, <1>3, <2>3
    <3>2. path'[k + 1] = path[k + 1]
      BY <1>3, <3>1
    <3> QED BY <1>9, <2>1, <3>1, <3>2
  <2> QED BY <2>2, <2>3
<1> QED BY <1>11, <1>12, <1>13, <1>14, <1>15, <1>16 DEF WalkInvariant

(* Every step keeps the loop invariant.                                    *)
LEMMA NextKeeps ==
  ASSUME TypeOK, WalkInvariant, [Next]_vars
  PROVE  WalkInvariant'
<1>1. CASE WalkStep
  <2>1. CASE ReadBlockers
    BY <2>1, ReadBlockersKeeps
  <2>2. CASE ReadForeign \/ ReadFails
    BY <2>2, ClearWalkKeeps DEF ReadForeign, ReadFails, NoGoAhead
  <2>3. CASE Leave
    BY <2>3, LeaveKeeps
  <2>4. ASSUME NEW b \in Issue, VisitCycle(b) PROVE WalkInvariant'
    BY <2>4, ClearWalkKeeps DEF VisitCycle, NoGoAhead
  <2>5. ASSUME NEW b \in Issue, VisitDone(b) PROVE WalkInvariant'
    BY <2>5, VisitDoneKeeps
  <2>6. ASSUME NEW b \in Issue, VisitNew(b) PROVE WalkInvariant'
    BY <2>6, VisitNewKeeps
  <2> QED BY <1>1, <2>1, <2>2, <2>3, <2>4, <2>5, <2>6 DEF WalkStep
<1>2. CASE ResolveStep
  <2>1. CASE ResolveNone \/ Checkout \/ CheckoutFails
    BY <2>1, ClearWalkKeeps DEF ResolveNone, Checkout, CheckoutFails, NoGoAhead
  <2>2. ASSUME NEW b \in Issue, ReadPull(b) PROVE WalkInvariant'
    BY <2>2, SameWalkKeeps DEF ReadPull
  <2>3. ASSUME NEW b \in Issue, ReadPullWaits(b) PROVE WalkInvariant'
    BY <2>3, ClearWalkKeeps DEF ReadPullWaits
  <2>4. ASSUME NEW b \in Branch, Grant(b) PROVE WalkInvariant'
    BY <2>4, ClearWalkKeeps DEF Grant
  <2>5. ASSUME NEW b \in Branch, DeriveBase(b) PROVE WalkInvariant'
    BY <2>5, DeriveBaseKeeps
  <2> QED BY <1>2, <2>1, <2>2, <2>3, <2>4, <2>5 DEF ResolveStep
<1>3. CASE Start
  <2>1. CASE StartPass
    BY <2>1, SameWalkKeeps DEF StartPass, closure
  <2>2. ASSUME NEW i \in Issue, Consider(i) \/ StartRun(i) PROVE WalkInvariant'
    BY <2>2, StartWalkKeeps DEF Consider, StartRun
  <2> QED BY <1>3, <2>1, <2>2 DEF Start
<1>4. ASSUME NEW i \in Issue, Session(i) \/ RunFails(i) PROVE WalkInvariant'
  BY <1>4, SameWalkKeeps
     DEF Session, Push, ReconcileBase, Publish, ShipFails, RunFails, closure
<1>5. ASSUME NEW i \in Issue, Human(i) PROVE WalkInvariant'
  BY <1>5, SameWalkKeeps
     DEF Human, Approve, Reject, Merge, Complete, Abandon, DeleteBranch, internal
<1>6. ASSUME NEW i \in Issue, NEW b \in Issue \cup {Foreign}, EditEdge(i, b)
      PROVE  WalkInvariant'
  BY <1>6, SameWalkKeeps DEF EditEdge, internal
<1>7. CASE UNCHANGED vars
  BY <1>7, SameWalkKeeps DEF vars
<1> QED BY <1>1, <1>2, <1>3, <1>4, <1>5, <1>6, <1>7 DEF Next

LEMMA InitWalk == Init => WalkInvariant
<1> SUFFICES ASSUME Init PROVE WalkInvariant
  OBVIOUS
<1>1. path = <<>> /\ order = <<>> /\ walk.pc = "idle" /\ walk.at = None
  BY DEF Init, NoWalk
<1>2. Len(path) = 0 /\ Len(order) = 0
  BY <1>1
<1>3. OrderIsTopological /\ OrderIsComplete /\ CyclesAreRead /\ FramesAreCovered
  BY <1>1, <1>2 DEF OrderIsTopological, OrderIsComplete, CyclesAreRead, FramesAreCovered
<1>4. PathIsSimple /\ PathIsStack
  BY <1>1, <1>2 DEF PathIsSimple, PathIsStack, OnPath, Done
<1> QED BY <1>3, <1>4 DEF WalkInvariant

(* walk_closure is correct on any graph, whatever humans do to it between  *)
(* two reads: at each of its steps the order lists blockers first and each *)
(* issue once, what it takes for a cycle it has read edge by edge, and no  *)
(* blocker it read is forgotten. The frames and the stack are what makes   *)
(* the order's part inductive.                                             *)
THEOREM WalkIsCorrect == Spec => []WalkInvariant
<1>1. Init => TypeOK /\ WalkInvariant
  BY InitType, InitWalk
<1>2. TypeOK /\ WalkInvariant /\ [Next]_vars => TypeOK' /\ WalkInvariant'
  BY NextType, NextKeeps
<1> QED BY <1>1, <1>2, PTL DEF Spec

(* What resolve gets is the whole closure: the walked issue, and with each *)
(* issue every blocker the walk read of it (DependencyClosure).            *)
THEOREM ClosureIsComplete ==
  Spec => [](walk.pc = "resolve" =>
               walk.root \in Done /\ \A i \in Done : edges[i] \subseteq Done)
<1>1. ASSUME TypeOK, WalkInvariant, walk.pc = "resolve"
      PROVE  walk.root \in Done /\ \A i \in Done : edges[i] \subseteq Done
  <2>1. Len(order) \in 1 .. Len(order) /\ order[Len(order)] = walk.root
    BY <1>1 DEF TypeOK, WalkTypes, WalkInvariant, OrderIsComplete
  <2>2. ASSUME NEW k \in 1 .. Len(order) PROVE edges[order[k]] \subseteq Done
    <3>1. edges[order[k]] \subseteq {order[j] : j \in 1 .. k - 1}
      BY <1>1 DEF WalkInvariant, OrderIsTopological
    <3>2. Len(order) \in Nat
      BY <1>1 DEF TypeOK, WalkTypes
    <3> QED BY <3>1, <3>2 DEF Done
  <2> QED BY <2>1, <2>2 DEF Done
<1> QED BY <1>1, TypeCorrect, WalkIsCorrect, PTL

----------------------------------------------------------------------------
(* What is reached: it holds the start, it is closed, and it is the least  *)
(* set that is.                                                            *)
LEMMA ReachClosed ==
  ASSUME NEW U, NEW next \in [U -> SUBSET U], NEW start \in SUBSET U
  PROVE  /\ ReachedFrom(start, next) \subseteq U
         /\ start \subseteq ReachedFrom(start, next)
         /\ \A x \in ReachedFrom(start, next) : next[x] \subseteq ReachedFrom(start, next)
<1>1. DOMAIN next = U
  OBVIOUS
<1>2. ASSUME NEW x \in ReachedFrom(start, next), NEW y \in next[x]
      PROVE  y \in ReachedFrom(start, next)
  <2>1. x \in U /\ y \in U
    BY <1>1, <1>2 DEF ReachedFrom
  <2>2. ASSUME NEW S \in SUBSET U, start \subseteq S, \A z \in S : next[z] \subseteq S
        PROVE  y \in S
    BY <1>1, <1>2, <2>2 DEF ReachedFrom
  <2> QED BY <1>1, <2>1, <2>2 DEF ReachedFrom
<1> QED BY <1>1, <1>2 DEF ReachedFrom

LEMMA ReachLeast ==
  ASSUME NEW U, NEW next \in [U -> SUBSET U], NEW start \in SUBSET U,
         NEW S \in SUBSET U, start \subseteq S, \A x \in S : next[x] \subseteq S
  PROVE  ReachedFrom(start, next) \subseteq S
BY DEF ReachedFrom

(* So the layers of an issue, given the pull requests p.                   *)
LayersOf(p, i) ==
  ReachedFrom({i}, [b \in Issue |-> {j \in Issue : p[j].state = "merged" /\ p[j].base = b}])

LEMMA LayersAre ==
  ASSUME NEW p, NEW i \in Issue
  PROVE  /\ LayersOf(p, i) \subseteq Issue /\ i \in LayersOf(p, i)
         /\ \A j \in LayersOf(p, i), k \in Issue :
              p[k].state = "merged" /\ p[k].base = j => k \in LayersOf(p, i)
<1> DEFINE next == [b \in Issue |-> {j \in Issue : p[j].state = "merged" /\ p[j].base = b}]
<1>1. next \in [Issue -> SUBSET Issue] /\ {i} \in SUBSET Issue
  OBVIOUS
<1>2. \A j, k \in Issue : p[k].state = "merged" /\ p[k].base = j => k \in next[j]
  OBVIOUS
<1>3. LayersOf(p, i) = ReachedFrom({i}, next)
  BY DEF LayersOf
<1> HIDE DEF next
<1>4. /\ ReachedFrom({i}, next) \subseteq Issue /\ {i} \subseteq ReachedFrom({i}, next)
      /\ \A x \in ReachedFrom({i}, next) : next[x] \subseteq ReachedFrom({i}, next)
  BY <1>1, ReachClosed
<1>5. ASSUME NEW j \in LayersOf(p, i), NEW k \in Issue, p[k].state = "merged", p[k].base = j
      PROVE  k \in LayersOf(p, i)
  <2>1. j \in Issue /\ next[j] \subseteq LayersOf(p, i)
    BY <1>3, <1>4
  <2> QED BY <1>2, <1>5, <2>1
<1> QED BY <1>3, <1>4, <1>5

LEMMA LayersLeast ==
  ASSUME NEW p, NEW i \in Issue, NEW S \in SUBSET Issue, i \in S,
         \A j \in S, k \in Issue : p[k].state = "merged" /\ p[k].base = j => k \in S
  PROVE  LayersOf(p, i) \subseteq S
<1> DEFINE next == [b \in Issue |-> {j \in Issue : p[j].state = "merged" /\ p[j].base = b}]
<1>1. next \in [Issue -> SUBSET Issue] /\ {i} \in SUBSET Issue
  OBVIOUS
<1>2. \A j \in S : next[j] \subseteq S
  OBVIOUS
<1>3. LayersOf(p, i) = ReachedFrom({i}, next)
  BY DEF LayersOf
<1> HIDE DEF next
<1> QED BY <1>1, <1>2, <1>3, ReachLeast

(* Merges only add layers.                                                 *)
LEMMA LayersGrow ==
  ASSUME NEW p, NEW q, NEW i \in Issue,
         \A k \in Issue : p[k].state = "merged" => q[k].state = "merged" /\ q[k].base = p[k].base
  PROVE  LayersOf(p, i) \subseteq LayersOf(q, i)
<1> DEFINE S == LayersOf(q, i)
<1>1. S \in SUBSET Issue /\ i \in S
  BY LayersAre
<1>2. \A j \in S, k \in Issue : p[k].state = "merged" /\ p[k].base = j => k \in S
  BY LayersAre
<1> HIDE DEF S
<1>3. LayersOf(p, i) \subseteq S
  BY <1>1, <1>2, LayersLeast
<1> QED BY <1>3 DEF S

LEMMA LayersNest ==
  ASSUME NEW p, NEW i \in Issue, NEW j \in LayersOf(p, i)
  PROVE  LayersOf(p, j) \subseteq LayersOf(p, i)
<1>1. LayersOf(p, i) \in SUBSET Issue /\ j \in Issue
  BY LayersAre
<1>2. \A l \in LayersOf(p, i), k \in Issue :
        p[k].state = "merged" /\ p[k].base = l => k \in LayersOf(p, i)
  BY LayersAre
<1> QED BY <1>1, <1>2, LayersLeast

LEMMA LayersName == \A i : Layers(i) = LayersOf(pull, i)
BY DEF Layers, LayersOf

----------------------------------------------------------------------------
(* DiffIsOwn, with what makes it inductive: a branch is only built on once *)
(* it is published, and then only merges change it.                        *)

(* A base was published before anything was based on it.                   *)
Shipped(b) == b = Default \/ (b \in Issue /\ pull[b].state # "none")

(* Each issue has its pull request once its Run has shipped it, and one    *)
(* walk at most works for it.                                              *)
RunsAreStaged ==
  /\ \A i \in Issue : pull[i].state = "none" <=> run[i].pc # "shipped"
  /\ \A i \in pass : run[i].pc = "pool"
  /\ walk.pc # "idle" =>
       /\ walk.root \in Issue
       /\ run[walk.root].pc = IF walk.by = "driver" THEN "granted" ELSE "pool"
  /\ walk.pc = "checkout" => walk.by = "driver"

(* What a chain may be built on, read or remembered, was published.        *)
BasesAreShipped ==
  /\ \A i \in Issue : Shipped(pull[i].base) /\ Shipped(run[i].base)
  /\ Shipped(walk.base)
  /\ \A b \in Issue : /\ memo.pull[b] # None /\ memo.pull[b].state = "open" => Shipped(b)
                      /\ read[b] # None => Shipped(b)

(* A Run's branch is what it started from and its own work, and its base   *)
(* still holds what it started from.                                       *)
CutsAreHeld ==
  \A i \in Issue :
    /\ run[i].pc \in {"working", "pushed", "publish"} => run[i].cut \subseteq work[run[i].base]
    /\ run[i].pc \in {"pushed", "publish"} => work[i] = run[i].cut \cup {i}

DiffInvariant == RunsAreStaged /\ BasesAreShipped /\ CutsAreHeld /\ DiffIsOwn

(* A Run that comes back has neither base nor cut, and the others go on.   *)
LEMMA RunReturned ==
  ASSUME TypeOK, NEW i \in Issue, Returns(i)
  PROVE  /\ \A j \in Issue \ {i} : run'[j] = run[j]
         /\ run'[i].pc \in {"pool", "granted"} /\ run'[i].base = Default
BY DEF TypeOK, Returns, InPool, Granted

(* What is read of a pull request, or remembered, is of a published one.   *)
LEMMA ReplyShipped ==
  ASSUME TypeOK, BasesAreShipped, NEW b \in Issue,
         Reads("pull", b, FindOpenPr(b)).state = "open"
  PROVE  Shipped(b)
<1>1. CASE walk.by = "dispatch" /\ memo["pull"][b] # None
  BY <1>1 DEF Reads, BasesAreShipped
<1>2. CASE ~(walk.by = "dispatch" /\ memo["pull"][b] # None)
  BY <1>2 DEF Reads, FindOpenPr, NoPull, Shipped
<1> QED BY <1>1, <1>2

LEMMA RememberShipped ==
  ASSUME TypeOK, BasesAreShipped, NEW b \in Issue,
         Remember("pull", b, Reads("pull", b, FindOpenPr(b)))
  PROVE  \A c \in Issue : memo'.pull[c] # None /\ memo'.pull[c].state = "open" => Shipped(c)
<1> DEFINE reply == Reads("pull", b, FindOpenPr(b))
<1>1. reply.state = "open" => Shipped(b)
  BY ReplyShipped
<1>2. \A c \in Issue : memo.pull[c] # None /\ memo.pull[c].state = "open" => Shipped(c)
  BY DEF BasesAreShipped
<1>3. memo \in MemoType
  BY DEF TypeOK, MemoType
<1>4. memo' = IF walk.by = "dispatch" THEN [memo EXCEPT !["pull"][b] = reply] ELSE memo
  BY DEF Remember
<1> HIDE DEF reply
<1>5. \A c \in Issue : memo'.pull[c] = memo.pull[c] \/ (c = b /\ memo'.pull[c] = reply)
  BY <1>3, <1>4 DEF MemoType
<1> QED BY <1>1, <1>2, <1>5

(* A step that leaves the Runs and their branches alone.                   *)
LEMMA QuietKeepsDiff ==
  ASSUME DiffInvariant, UNCHANGED <<pull, work, run>>,
         \A i \in pass' : run[i].pc = "pool",
         walk'.pc # "idle" =>
           walk'.root \in Issue /\ run[walk'.root].pc = IF walk'.by = "driver" THEN "granted" ELSE "pool",
         walk'.pc = "checkout" => walk'.by = "driver",
         Shipped(walk'.base),
         \A b \in Issue : memo'.pull[b] # None /\ memo'.pull[b].state = "open" => Shipped(b),
         \A b \in Issue : read'[b] # None => Shipped(b)
  PROVE  DiffInvariant'
<1>1. RunsAreStaged'
  BY DEF DiffInvariant, RunsAreStaged
<1>2. BasesAreShipped'
  BY DEF DiffInvariant, BasesAreShipped, Shipped
<1>3. CutsAreHeld'
  BY DEF DiffInvariant, CutsAreHeld
<1>4. DiffIsOwn'
  BY DEF DiffInvariant, DiffIsOwn, Layers
<1> QED BY <1>1, <1>2, <1>3, <1>4 DEF DiffInvariant

(* The walk ends without a go-ahead.                                       *)
LEMMA NoGoAheadKeepsDiff ==
  ASSUME TypeOK, DiffInvariant, walk.pc # "idle", ClearWalk, SkipOrFail, UNCHANGED github,
         pass' \in {pass, {}},
         \A b \in Issue : memo'.pull[b] # None /\ memo'.pull[b].state = "open" => Shipped(b)
  PROVE  DiffInvariant'
<1>1. /\ walk'.pc = "idle" /\ walk'.base = Default /\ read' = [j \in Issue |-> None]
      /\ UNCHANGED <<pull, work>>
  BY DEF ClearWalk, NoWalk, Unread, github
<1>2. CASE walk.by # "driver"
  BY <1>1, <1>2, QuietKeepsDiff DEF SkipOrFail, DiffInvariant, RunsAreStaged, Shipped
<1>3. CASE walk.by = "driver"
  <2>1. /\ walk.root \in Issue /\ run[walk.root].pc = "granted" /\ pull[walk.root].state = "none"
        /\ Returns(walk.root)
    BY <1>3 DEF SkipOrFail, DiffInvariant, RunsAreStaged
  <2>2. /\ \A j \in Issue : j # walk.root => run'[j] = run[j]
        /\ run'[walk.root].pc \in {"pool", "granted"} /\ run'[walk.root].base = Default
    BY <2>1, RunReturned
  <2>3. RunsAreStaged'
    BY <1>1, <2>1, <2>2 DEF DiffInvariant, RunsAreStaged, TypeOK
  <2>4. BasesAreShipped'
    <3>1. \A i \in Issue : Shipped(pull[i].base) /\ Shipped(run[i].base)
      BY DEF DiffInvariant, BasesAreShipped
    <3>2. Shipped(Default)
      BY DEF Shipped
    <3>3. \A b : Shipped(b) => Shipped(b)'
      BY <1>1 DEF Shipped
    <3> QED BY <1>1, <2>2, <3>1, <3>2, <3>3 DEF BasesAreShipped
  <2>5. CutsAreHeld'
    BY <1>1, <2>2 DEF DiffInvariant, CutsAreHeld
  <2>6. DiffIsOwn'
    BY <1>1 DEF DiffInvariant, DiffIsOwn, Layers
  <2> QED BY <2>3, <2>4, <2>5, <2>6 DEF DiffInvariant
<1> QED BY <1>2, <1>3

LEMMA WalkStepKeepsDiff ==
  ASSUME TypeOK, DiffInvariant, WalkStep
  PROVE  DiffInvariant'
<1>1. \A b \in Issue : memo.pull[b] # None /\ memo.pull[b].state = "open" => Shipped(b)
  BY DEF DiffInvariant, BasesAreShipped
<1>2. \A b \in Issue : read[b] # None => Shipped(b)
  BY DEF DiffInvariant, BasesAreShipped
<1>3. Shipped(walk.base) /\ \A i \in pass : run[i].pc = "pool"
  BY DEF DiffInvariant, BasesAreShipped, RunsAreStaged
<1>4. walk.pc # "idle" =>
        /\ walk.root \in Issue /\ run[walk.root].pc = IF walk.by = "driver" THEN "granted" ELSE "pool"
        /\ walk.pc = "checkout" => walk.by = "driver"
  BY DEF DiffInvariant, RunsAreStaged
<1>5. CASE ReadBlockers
  <2>1. walk'.root = walk.root /\ walk'.by = walk.by /\ walk'.base = walk.base
        /\ walk'.pc # "checkout" /\ walk.pc = "read"
        /\ UNCHANGED <<pull, work, run, pass, read>>
    BY <1>5 DEF ReadBlockers, TypeOK, WalkTypes, Walk, github
  <2>2. memo'.pull = memo.pull
    BY <1>5 DEF ReadBlockers, Remember, TypeOK
  <2> QED BY <1>1, <1>2, <1>3, <1>4, <2>1, <2>2, QuietKeepsDiff
<1>6. CASE ReadForeign
  BY <1>1, <1>6, NoGoAheadKeepsDiff DEF ReadForeign, NoGoAhead
<1>7. CASE Leave
  <2>1. walk'.root = walk.root /\ walk'.by = walk.by /\ walk'.base = walk.base
        /\ walk'.pc # "checkout" /\ walk.pc = "visit"
        /\ UNCHANGED <<pull, work, run, pass, read, memo>>
    BY <1>7 DEF Leave, TypeOK, WalkTypes, Walk, github
  <2> QED BY <1>1, <1>2, <1>3, <1>4, <2>1, QuietKeepsDiff
<1>8. CASE ReadFails
  <2>1. walk.pc # "idle" /\ pass' \in {pass, {}} /\ ClearWalk /\ SkipOrFail /\ UNCHANGED <<github, memo>>
    BY <1>8 DEF ReadFails
  <2> QED BY <1>1, <2>1, NoGoAheadKeepsDiff
<1>9. ASSUME NEW b \in Issue, VisitCycle(b) PROVE DiffInvariant'
  BY <1>1, <1>9, NoGoAheadKeepsDiff DEF VisitCycle, NoGoAhead
<1>10. ASSUME NEW b \in Issue, VisitDone(b) PROVE DiffInvariant'
  <2>1. UNCHANGED <<pull, work, run, pass, read, memo, walk>>
    BY <1>10 DEF VisitDone, github
  <2> QED BY <1>1, <1>2, <1>3, <1>4, <2>1, QuietKeepsDiff
<1>11. ASSUME NEW b \in Issue, VisitNew(b) PROVE DiffInvariant'
  <2>1. walk'.root = walk.root /\ walk'.by = walk.by /\ walk'.base = walk.base
        /\ walk'.pc # "checkout" /\ walk.pc = "visit"
        /\ UNCHANGED <<pull, work, run, pass, read, memo>>
    BY <1>11 DEF VisitNew, TypeOK, WalkTypes, Walk, github
  <2> QED BY <1>1, <1>2, <1>3, <1>4, <2>1, QuietKeepsDiff
<1> QED BY <1>5, <1>6, <1>7, <1>8, <1>9, <1>10, <1>11 DEF WalkStep

LEMMA ResolveStepKeepsDiff ==
  ASSUME TypeOK, DiffInvariant, ResolveStep
  PROVE  DiffInvariant'
<1>1. \A b \in Issue : memo.pull[b] # None /\ memo.pull[b].state = "open" => Shipped(b)
  BY DEF DiffInvariant, BasesAreShipped
<1>2. \A b \in Issue : read[b] # None => Shipped(b)
  BY DEF DiffInvariant, BasesAreShipped
<1>3. Shipped(walk.base) /\ \A i \in pass : run[i].pc = "pool"
  BY DEF DiffInvariant, BasesAreShipped, RunsAreStaged
<1>4. walk.pc # "idle" =>
        /\ walk.root \in Issue /\ run[walk.root].pc = IF walk.by = "driver" THEN "granted" ELSE "pool"
        /\ walk.pc = "checkout" => walk.by = "driver"
  BY DEF DiffInvariant, RunsAreStaged
<1>5. CASE ResolveNone
  BY <1>1, <1>5, NoGoAheadKeepsDiff DEF ResolveNone, NoGoAhead
<1>6. CASE CheckoutFails
  BY <1>1, <1>6, NoGoAheadKeepsDiff DEF CheckoutFails, NoGoAhead
<1>7. ASSUME NEW b \in Issue, ReadPull(b) PROVE DiffInvariant'
  <2>1. /\ UNCHANGED <<pull, work, run, pass, walk>> /\ read' = [read EXCEPT ![b] = Reads("pull", b, FindOpenPr(b))]
        /\ GoAheadPull(Reads("pull", b, FindOpenPr(b)))
        /\ Remember("pull", b, Reads("pull", b, FindOpenPr(b)))
    BY <1>7 DEF ReadPull, github
  <2>2. Shipped(b)
    BY <2>1, ReplyShipped DEF GoAheadPull, DiffInvariant
  <2>3. \A c \in Issue : memo'.pull[c] # None /\ memo'.pull[c].state = "open" => Shipped(c)
    BY <2>1, RememberShipped DEF DiffInvariant
  <2>4. \A c \in Issue : read'[c] # None => Shipped(c)
    BY <1>2, <2>1, <2>2 DEF TypeOK, WalkTypes
  <2> QED BY <1>3, <1>4, <2>1, <2>3, <2>4, QuietKeepsDiff
<1>8. ASSUME NEW b \in Issue, ReadPullWaits(b) PROVE DiffInvariant'
  <2>1. /\ walk.pc # "idle" /\ ClearWalk /\ SkipOrFail /\ UNCHANGED <<github, pass>>
        /\ Remember("pull", b, Reads("pull", b, FindOpenPr(b)))
    BY <1>8 DEF ReadPullWaits, NextPull
  <2>2. \A c \in Issue : memo'.pull[c] # None /\ memo'.pull[c].state = "open" => Shipped(c)
    BY <2>1, RememberShipped DEF DiffInvariant
  <2> QED BY <2>1, <2>2, NoGoAheadKeepsDiff
<1>9. ASSUME NEW b \in Branch, DeriveBase(b) PROVE DiffInvariant'
  <2>1. /\ walk' = [walk EXCEPT !.pc = "checkout", !.base = b] /\ walk.pc # "idle"
        /\ UNCHANGED <<pull, work, run, pass, memo, read>> /\ Base(b) /\ AllRead
    BY <1>9 DEF DeriveBase, Resolved, github
  <2>2. walk'.root = walk.root /\ walk'.by = walk.by /\ walk'.base = b
        /\ walk.by = "driver"
    BY <1>9, <2>1 DEF DeriveBase, TypeOK, WalkTypes, Walk
  <2>3. Shipped(b)
    <3>1. CASE b = Default
      BY <3>1 DEF Shipped
    <3>2. CASE b \in OpenBlockers
      <4>1. b \in Issue
        BY <3>2, DependenciesAssumption
           DEF OpenBlockers, Blockers, Done, TypeOK, WalkTypes
      <4> QED BY <1>2, <2>1, <3>2, <4>1 DEF AllRead
    <3> QED BY <2>1, <3>1, <3>2 DEF Base
  <2> QED BY <1>1, <1>2, <1>3, <1>4, <2>1, <2>2, <2>3, QuietKeepsDiff
<1>10. ASSUME Checkout \/ \E b \in Branch : Grant(b) PROVE DiffInvariant'
  <2>1. /\ walk.root \in Issue /\ UNCHANGED github /\ ClearWalk
        /\ \A i \in Issue : i # walk.root => run'[i] = run[i]
        /\ run[walk.root].pc \in {"pool", "granted"}
        /\ \A i \in pass' : i # walk.root /\ run[i].pc = "pool" /\ i \in Issue
        /\ memo' = memo
    <3>1. CASE Checkout
      <4>1. walk.by = "driver"
        BY <1>4, <3>1 DEF Checkout
      <4> QED BY <1>3, <1>4, <3>1, <4>1 DEF Checkout, TypeOK
    <3>2. CASE \E b \in Branch : Grant(b)
      BY <1>4, <3>2 DEF Grant, Resolved, TypeOK
    <3> QED BY <1>10, <3>1, <3>2
  <2>2. /\ run'[walk.root].pc \in {"granted", "working"}
        /\ Shipped(run'[walk.root].base)
        /\ run'[walk.root].pc = "working" =>
             run'[walk.root].cut \subseteq work[run'[walk.root].base]
    <3>1. CASE Checkout
      <4>1. run' = [run EXCEPT ![walk.root] = [pc |-> "working", base |-> walk.base,
                                               cut |-> work[walk.base]]]
        BY <3>1 DEF Checkout
      <4>2. run'[walk.root] = [pc |-> "working", base |-> walk.base, cut |-> work[walk.base]]
        BY <2>1, <4>1 DEF TypeOK
      <4> QED BY <1>3, <4>2
    <3>2. CASE \E b \in Branch : Grant(b)
      <4>1. run' = [run EXCEPT ![walk.root].pc = "granted"]
        BY <3>2 DEF Grant
      <4>2. run'[walk.root].pc = "granted" /\ run'[walk.root].base = run[walk.root].base
        BY <2>1, <4>1 DEF TypeOK, RunState
      <4> QED BY <2>1, <4>2 DEF DiffInvariant, BasesAreShipped
    <3> QED BY <1>10, <3>1, <3>2
  <2>3. /\ walk'.pc = "idle" /\ walk'.base = Default /\ read' = [j \in Issue |-> None]
        /\ UNCHANGED <<pull, work>>
    BY <2>1 DEF ClearWalk, NoWalk, Unread, github
  <2>4. RunsAreStaged'
    <3>1. pull[walk.root].state = "none"
      BY <2>1 DEF DiffInvariant, RunsAreStaged
    <3> QED BY <2>1, <2>2, <2>3, <3>1 DEF DiffInvariant, RunsAreStaged
  <2>5. BasesAreShipped'
    <3>1. \A i \in Issue : Shipped(pull[i].base) /\ Shipped(run[i].base)
      BY DEF DiffInvariant, BasesAreShipped
    <3>2. Shipped(Default)
      BY DEF Shipped
    <3>3. \A b : Shipped(b) => Shipped(b)'
      BY <2>3 DEF Shipped
    <3>4. \A i \in Issue : Shipped(run'[i].base)
      BY <2>1, <2>2, <3>1
    <3> QED BY <1>1, <2>1, <2>3, <3>1, <3>2, <3>3, <3>4 DEF BasesAreShipped
  <2>6. CutsAreHeld'
    BY <2>1, <2>2, <2>3 DEF DiffInvariant, CutsAreHeld
  <2>7. DiffIsOwn'
    BY <2>3 DEF DiffInvariant, DiffIsOwn, Layers
  <2> QED BY <2>4, <2>5, <2>6, <2>7 DEF DiffInvariant
<1> QED BY <1>5, <1>6, <1>7, <1>8, <1>9, <1>10 DEF ResolveStep

LEMMA StartKeepsDiff ==
  ASSUME TypeOK, DiffInvariant, Start
  PROVE  DiffInvariant'
<1>1. \A b \in Issue : memo.pull[b] # None /\ memo.pull[b].state = "open" => Shipped(b)
  BY DEF DiffInvariant, BasesAreShipped
<1>2. \A b \in Issue : read[b] # None => Shipped(b)
  BY DEF DiffInvariant, BasesAreShipped
<1>3. Shipped(walk.base) /\ (\A i \in pass : run[i].pc = "pool") /\ Shipped(Default)
  BY DEF DiffInvariant, BasesAreShipped, RunsAreStaged, Shipped
<1>4. CASE StartPass
  <2>1. /\ UNCHANGED <<pull, work, run, walk, read>> /\ walk.pc = "idle"
        /\ \A i \in pass' : run[i].pc = "pool"
        /\ memo'.pull = [j \in Issue |-> None]
    BY <1>4 DEF StartPass, Candidates, github, NoMemo, Unread
  <2> QED BY <1>2, <1>3, <2>1, QuietKeepsDiff
<1>5. ASSUME NEW i \in Issue, Consider(i) \/ StartRun(i) PROVE DiffInvariant'
  <2>1. PICK by \in {"dispatch", "driver"} :
          StartWalk(by, i) /\ run[i].pc = IF by = "driver" THEN "granted" ELSE "pool"
    BY <1>3, <1>5 DEF Consider, StartRun, Least
  <2>2. walk'.pc = "read" /\ walk'.root = i /\ walk'.by = by /\ walk'.base = Default /\ read' = [j \in Issue |-> None]
    BY <2>1 DEF StartWalk, NoWalk, Unread
  <2>3. UNCHANGED <<pull, work, run, memo>> /\ pass' \subseteq pass
    BY <1>5 DEF Consider, StartRun, github
  <2> QED BY <1>1, <1>3, <2>1, <2>2, <2>3, QuietKeepsDiff
<1> QED BY <1>4, <1>5 DEF Start

(* The steps of a Run, from its push on. Nothing is based on its branch    *)
(* before its pull request is open.                                        *)
LEMMA PushKeepsDiff ==
  ASSUME TypeOK, DiffInvariant, NEW i \in Issue, Push(i)
  PROVE  DiffInvariant'
<1>1. /\ run[i].pc = "working" /\ run' = [run EXCEPT ![i].pc = "pushed"]
      /\ work' = [work EXCEPT ![i] = run[i].cut \cup {i}]
      /\ UNCHANGED <<pull, pass, memo, walk, read>>
  BY DEF Push
<1>2. /\ run'[i].pc = "pushed" /\ run'[i].base = run[i].base /\ run'[i].cut = run[i].cut
      /\ \A j \in Issue : j # i => run'[j] = run[j]
  BY <1>1 DEF TypeOK, RunState
<1>3. i # Default /\ pull[i].state = "none" /\ ~Shipped(i)
  BY <1>1, DependenciesAssumption DEF DiffInvariant, RunsAreStaged, Shipped
<1>4. /\ work'[i] = run[i].cut \cup {i}
      /\ \A b : Shipped(b) => work'[b] = work[b]
  <2>1. \A b \in Branch : b # i => work'[b] = work[b]
    BY <1>1 DEF TypeOK, GitHubTypes
  <2>2. \A b : Shipped(b) => b \in Branch /\ b # i
    BY <1>3 DEF Shipped, Branch
  <2> QED BY <1>1, <2>1, <2>2 DEF TypeOK, GitHubTypes, Branch
<1>5. \A j \in Issue : Shipped(pull[j].base) /\ Shipped(run[j].base)
  BY DEF DiffInvariant, BasesAreShipped
<1>6. RunsAreStaged'
  BY <1>1, <1>2 DEF DiffInvariant, RunsAreStaged
<1>7. BasesAreShipped'
  <2>1. \A b : Shipped(b) => Shipped(b)'
    BY <1>1 DEF Shipped
  <2> QED BY <1>1, <1>2, <1>5, <2>1 DEF DiffInvariant, BasesAreShipped
<1>8. CutsAreHeld'
  <2> SUFFICES ASSUME NEW j \in Issue
               PROVE  /\ run'[j].pc \in {"working", "pushed", "publish"} =>
                           run'[j].cut \subseteq work'[run'[j].base]
                      /\ run'[j].pc \in {"pushed", "publish"} => work'[j] = run'[j].cut \cup {j}
    BY DEF CutsAreHeld
  <2>1. work'[run[j].base] = work[run[j].base]
    BY <1>4, <1>5
  <2>2. CASE j = i
    <3>1. run[i].cut \subseteq work[run[i].base]
      BY <1>1 DEF DiffInvariant, CutsAreHeld
    <3> QED BY <1>2, <1>4, <2>1, <2>2, <3>1
  <2>3. CASE j # i
    <3>1. work'[j] = work[j]
      BY <1>1, <2>3 DEF TypeOK, GitHubTypes
    <3> QED BY <1>2, <2>1, <2>3, <3>1 DEF DiffInvariant, CutsAreHeld
  <2> QED BY <2>2, <2>3
<1>9. DiffIsOwn'
  <2> SUFFICES ASSUME NEW j \in Issue, pull[j].state = "open"
               PROVE  work'[j] \ LayersOf(pull, j) \subseteq work'[pull[j].base]
    BY <1>1 DEF DiffIsOwn, Layers, LayersOf
  <2>1. work[j] \ LayersOf(pull, j) \subseteq work[pull[j].base]
    BY LayersName DEF DiffInvariant, DiffIsOwn
  <2>2. Shipped(j)
    BY DEF Shipped
  <2> QED BY <1>4, <1>5, <2>1, <2>2
<1> QED BY <1>6, <1>7, <1>8, <1>9 DEF DiffInvariant

(* The base is led down to one that was published and holds the cut.       *)
LEMMA LiveBaseShipped ==
  ASSUME TypeOK, BasesAreShipped, NEW b \in Branch, Shipped(b), NEW c \in LiveBases(b)
  PROVE  c \in Branch /\ Shipped(c)
<1> DEFINE next == [d \in Branch |-> MergedInto(d)]
           S == {d \in Branch : Shipped(d)}
<1>1. \A d \in Branch : MergedInto(d) \subseteq S
  BY DEF MergedInto, Exists, Branch, TypeOK, GitHubTypes, Pull, BasesAreShipped
<1>2. next \in [Branch -> SUBSET Branch] /\ \A d \in S : next[d] \subseteq S
  BY <1>1
<1>3. {b} \in SUBSET Branch /\ {b} \subseteq S /\ S \in SUBSET Branch
  OBVIOUS
<1>4. c \in ReachedFrom({b}, next)
  BY DEF LiveBases
<1> HIDE DEF next, S
<1>5. ReachedFrom({b}, next) \subseteq S
  BY <1>2, <1>3, ReachLeast
<1> QED BY <1>4, <1>5 DEF S

LEMMA ReconcileKeepsDiff ==
  ASSUME TypeOK, DiffInvariant, NEW i \in Issue, ReconcileBase(i)
  PROVE  DiffInvariant'
<1>1. PICK base \in Branch :
        ShipBase(i, base) /\ run' = [run EXCEPT ![i].pc = "publish", ![i].base = base]
  BY DEF ReconcileBase
<1>2. run[i].pc = "pushed" /\ UNCHANGED <<pull, work, pass, memo, walk, read>>
  BY DEF ReconcileBase, github
<1>3. /\ run'[i].pc = "publish" /\ run'[i].base = base /\ run'[i].cut = run[i].cut
      /\ \A j \in Issue : j # i => run'[j] = run[j]
  BY <1>1 DEF TypeOK, RunState
<1>4. \A j \in Issue : Shipped(pull[j].base) /\ Shipped(run[j].base)
  BY DEF DiffInvariant, BasesAreShipped
<1>5. Shipped(base)
  BY <1>1, <1>4, LiveBaseShipped DEF ShipBase, DiffInvariant, TypeOK, RunState
<1>6. run[i].cut \subseteq work[base]
  BY <1>1, <1>2 DEF ShipBase, DiffInvariant, CutsAreHeld
<1>7. RunsAreStaged'
  <2>1. walk.pc # "idle" => walk.root # i /\ walk.root \in Issue
    BY <1>2 DEF DiffInvariant, RunsAreStaged
  <2>2. \A j \in pass : j # i /\ j \in Issue
    BY <1>2 DEF DiffInvariant, RunsAreStaged, TypeOK
  <2> QED BY <1>2, <1>3, <2>1, <2>2 DEF DiffInvariant, RunsAreStaged
<1>8. BasesAreShipped'
  <2>1. \A b : Shipped(b) => Shipped(b)'
    BY <1>2 DEF Shipped
  <2> QED BY <1>2, <1>3, <1>4, <1>5, <2>1 DEF DiffInvariant, BasesAreShipped
<1>9. CutsAreHeld'
  BY <1>2, <1>3, <1>6 DEF DiffInvariant, CutsAreHeld
<1>10. DiffIsOwn'
  BY <1>2 DEF DiffInvariant, DiffIsOwn, Layers
<1> QED BY <1>7, <1>8, <1>9, <1>10 DEF DiffInvariant

LEMMA PublishKeepsDiff ==
  ASSUME TypeOK, DiffInvariant, NEW i \in Issue, Publish(i)
  PROVE  DiffInvariant'
<1> DEFINE p == [state |-> "open", base |-> run[i].base, approved |-> FALSE]
<1>1. /\ run[i].pc = "publish" /\ run' = [run EXCEPT ![i].pc = "shipped"]
      /\ pull' = [pull EXCEPT ![i] = p] /\ UNCHANGED <<work, pass, memo, walk, read>>
  BY DEF Publish
<1>2. /\ run'[i].pc = "shipped" /\ run'[i].base = run[i].base
      /\ \A j \in Issue : j # i => run'[j] = run[j]
  BY <1>1 DEF TypeOK, RunState
<1>3. /\ pull'[i] = p /\ p.state = "open" /\ p.base = run[i].base
      /\ \A j \in Issue : j # i => pull'[j] = pull[j]
  BY <1>1 DEF TypeOK, GitHubTypes
<1> HIDE DEF p
<1>4. \A b : Shipped(b) => Shipped(b)'
  BY <1>3 DEF Shipped
<1>5. \A j \in Issue : Shipped(pull[j].base) /\ Shipped(run[j].base)
  BY DEF DiffInvariant, BasesAreShipped
<1>6. RunsAreStaged'
  BY <1>1, <1>2, <1>3 DEF DiffInvariant, RunsAreStaged
<1>7. BasesAreShipped'
  <2>1. \A j \in Issue : Shipped(pull'[j].base) /\ Shipped(run'[j].base)
    BY <1>2, <1>3, <1>5
  <2> QED BY <1>1, <1>4, <2>1 DEF DiffInvariant, BasesAreShipped
<1>8. CutsAreHeld'
  BY <1>1, <1>2 DEF DiffInvariant, CutsAreHeld
<1>9. DiffIsOwn'
  <2> SUFFICES ASSUME NEW j \in Issue, pull'[j].state = "open"
               PROVE  work[j] \ LayersOf(pull', j) \subseteq work[pull'[j].base]
    BY <1>1 DEF DiffIsOwn, Layers, LayersOf
  <2>1. \A k \in Issue : pull[k].state = "merged" => pull'[k] = pull[k]
    BY <1>1, <1>3 DEF DiffInvariant, RunsAreStaged
  <2>2. CASE j = i
    <3>1. work[i] = run[i].cut \cup {i} /\ run[i].cut \subseteq work[run[i].base]
      BY <1>1 DEF DiffInvariant, CutsAreHeld
    <3>2. i \in LayersOf(pull', i)
      BY LayersAre
    <3> QED BY <1>3, <2>2, <3>1, <3>2
  <2>3. CASE j # i
    <3>1. work[j] \ LayersOf(pull, j) \subseteq work[pull[j].base]
      BY <1>3, <2>3, LayersName DEF DiffInvariant, DiffIsOwn
    <3>2. LayersOf(pull, j) \subseteq LayersOf(pull', j)
      BY <2>1, LayersGrow
    <3> QED BY <1>3, <2>3, <3>1, <3>2
  <2> QED BY <2>2, <2>3
<1> QED BY <1>6, <1>7, <1>8, <1>9 DEF DiffInvariant

LEMMA RunBackKeepsDiff ==
  ASSUME TypeOK, DiffInvariant, NEW i \in Issue, ShipFails(i) \/ RunFails(i)
  PROVE  DiffInvariant'
<1>1. /\ Returns(i) /\ run[i].pc \in {"working", "pushed", "publish"}
      /\ UNCHANGED <<pull, work, pass, memo, walk, read>>
  BY DEF ShipFails, RunFails, github
<1>2. /\ \A j \in Issue \ {i} : run'[j] = run[j]
      /\ run'[i].pc \in {"pool", "granted"} /\ run'[i].base = Default
  BY <1>1, RunReturned
<1>3. \A b : Shipped(b) => Shipped(b)'
  BY <1>1 DEF Shipped
<1>4. RunsAreStaged'
  <2>1. walk.pc # "idle" => walk.root # i /\ walk.root \in Issue
    BY <1>1 DEF DiffInvariant, RunsAreStaged
  <2>2. \A j \in pass : j # i /\ j \in Issue
    BY <1>1 DEF DiffInvariant, RunsAreStaged, TypeOK
  <2> QED BY <1>1, <1>2, <2>1, <2>2 DEF DiffInvariant, RunsAreStaged
<1>5. BasesAreShipped'
  <2>1. \A j \in Issue : Shipped(pull[j].base) /\ Shipped(run'[j].base)
    BY <1>2 DEF DiffInvariant, BasesAreShipped, Shipped
  <2> QED BY <1>1, <1>3, <2>1 DEF DiffInvariant, BasesAreShipped
<1>6. CutsAreHeld'
  BY <1>1, <1>2 DEF DiffInvariant, CutsAreHeld
<1>7. DiffIsOwn'
  BY <1>1 DEF DiffInvariant, DiffIsOwn, Layers
<1> QED BY <1>4, <1>5, <1>6, <1>7 DEF DiffInvariant

(* What happens on GitHub: no pull request is ever gone again.             *)
LEMMA HumanKeepsShipped ==
  ASSUME TypeOK, NEW i \in Issue, Human(i)
  PROVE  /\ \A j \in Issue : pull'[j].state = "none" <=> pull[j].state = "none"
         /\ \A j \in Issue : pull'[j].base \in {pull[j].base, pull[i].base}
         /\ UNCHANGED internal
<1> USE DEF TypeOK, GitHubTypes, Pull, internal
<1>1. CASE Approve(i) \/ Reject(i)
  <2>1. PICK a \in BOOLEAN : pull' = [pull EXCEPT ![i].approved = a]
    BY <1>1 DEF Approve, Reject
  <2>2. \A j \in Issue : pull'[j].state = pull[j].state /\ pull'[j].base = pull[j].base
    BY <2>1
  <2> QED BY <1>1, <2>2 DEF Approve, Reject
<1>2. CASE Merge(i)
  BY <1>2 DEF Merge
<1>3. CASE Complete(i) \/ Abandon(i)
  BY <1>3 DEF Complete, Abandon
<1>4. CASE DeleteBranch(i)
  BY <1>4 DEF DeleteBranch
<1> QED BY <1>1, <1>2, <1>3, <1>4 DEF Human

(* A merge: the layers of the merged issue become layers of the issue      *)
(* whose branch it went into, and the pull requests on it move down.       *)
LEMMA MergeKeepsDiff ==
  ASSUME TypeOK, DiffInvariant, NEW i \in Issue, Merge(i)
  PROVE  CutsAreHeld' /\ DiffIsOwn'
<1> DEFINE B == pull[i].base
<1>1. /\ pull[i].state = "open" /\ UNCHANGED run /\ B \in Branch /\ Shipped(B)
      /\ work' = [work EXCEPT ![B] = @ \cup work[i]]
  BY DEF Merge, internal, DiffInvariant, BasesAreShipped, TypeOK, GitHubTypes, Pull
<1>2. /\ pull'[i].state = "merged" /\ pull'[i].base = B
      /\ \A j \in Issue : j # i /\ pull[j].state = "open" /\ pull[j].base = i =>
           pull'[j].state = "open" /\ pull'[j].base = B
      /\ \A j \in Issue : j # i /\ ~(pull[j].state = "open" /\ pull[j].base = i) => pull'[j] = pull[j]
  BY DEF Merge, TypeOK, GitHubTypes, Pull
<1>3. /\ work'[B] = work[B] \cup work[i]
      /\ \A b \in Branch : b # B => work'[b] = work[b]
      /\ \A b \in Branch : work[b] \subseteq work'[b]
  BY <1>1 DEF TypeOK, GitHubTypes
<1> HIDE DEF B
<1>4. \A j \in Issue : j \in Branch /\ pull[j].base \in Branch /\ run[j].base \in Branch
  BY DEF Branch, TypeOK, GitHubTypes, Pull, RunState
<1>5. CutsAreHeld'
  <2> SUFFICES ASSUME NEW j \in Issue
               PROVE  /\ run[j].pc \in {"working", "pushed", "publish"} =>
                           run[j].cut \subseteq work'[run[j].base]
                      /\ run[j].pc \in {"pushed", "publish"} => work'[j] = run[j].cut \cup {j}
    BY <1>1 DEF CutsAreHeld
  <2>1. run[j].pc \in {"working", "pushed", "publish"} => run[j].cut \subseteq work'[run[j].base]
    BY <1>3, <1>4 DEF DiffInvariant, CutsAreHeld
  <2>2. ASSUME run[j].pc \in {"pushed", "publish"} PROVE work'[j] = run[j].cut \cup {j}
    <3>1. j # B
      BY <1>1, <2>2, DependenciesAssumption DEF DiffInvariant, RunsAreStaged, Shipped
    <3> QED BY <1>3, <1>4, <2>2, <3>1 DEF DiffInvariant, CutsAreHeld
  <2> QED BY <2>1, <2>2
<1>6. DiffIsOwn'
  <2> SUFFICES ASSUME NEW j \in Issue, pull'[j].state = "open"
               PROVE  work'[j] \ LayersOf(pull', j) \subseteq work'[pull'[j].base]
    BY DEF DiffIsOwn, Layers, LayersOf
  <2>1. j # i /\ pull[j].state = "open"
    BY <1>2
  <2>2. /\ LayersOf(pull, j) \subseteq LayersOf(pull', j)
        /\ LayersOf(pull, i) \subseteq LayersOf(pull', i)
    BY <1>1, <1>2, LayersGrow
  <2>3. /\ work[j] \ LayersOf(pull, j) \subseteq work[pull[j].base]
        /\ work[i] \ LayersOf(pull, i) \subseteq work[B]
    BY <1>1, <2>1, LayersName DEF DiffInvariant, DiffIsOwn, B
  <2>4. CASE pull[j].base = i
    <3>1. pull'[j].base = B
      BY <1>2, <2>1, <2>4
    <3>2. CASE j = B
      BY <3>1, <3>2
    <3>3. CASE j # B
      BY <1>3, <1>4, <2>2, <2>3, <2>4, <3>1, <3>3
    <3> QED BY <3>2, <3>3
  <2>5. CASE pull[j].base # i
    <3>1. pull'[j].base = pull[j].base
      BY <1>2, <2>1, <2>5
    <3>2. CASE j # B
      BY <1>3, <1>4, <2>2, <2>3, <3>1, <3>2
    <3>3. CASE j = B
      <4>1. i \in LayersOf(pull', j)
        BY <1>2, <3>3, LayersAre
      <4>2. LayersOf(pull', i) \subseteq LayersOf(pull', j)
        BY <4>1, LayersNest
      <4> QED BY <1>3, <1>4, <2>2, <2>3, <3>1, <3>3, <4>2
    <3> QED BY <3>2, <3>3
  <2> QED BY <2>4, <2>5
<1> QED BY <1>5, <1>6

LEMMA HumanKeepsDiff ==
  ASSUME TypeOK, DiffInvariant, NEW i \in Issue, Human(i)
  PROVE  DiffInvariant'
<1>1. /\ \A j \in Issue : pull'[j].state = "none" <=> pull[j].state = "none"
      /\ \A j \in Issue : pull'[j].base \in {pull[j].base, pull[i].base}
      /\ UNCHANGED <<run, pass, memo, walk, read>>
  BY HumanKeepsShipped DEF internal
<1>2. \A b : Shipped(b) => Shipped(b)'
  BY <1>1 DEF Shipped
<1>3. RunsAreStaged'
  BY <1>1 DEF DiffInvariant, RunsAreStaged
<1>4. BasesAreShipped'
  <2>1. \A j \in Issue : Shipped(pull[j].base) /\ Shipped(run[j].base)
    BY DEF DiffInvariant, BasesAreShipped
  <2>2. \A j \in Issue : Shipped(pull'[j].base)
    BY <1>1, <2>1
  <2> QED BY <1>1, <1>2, <2>1, <2>2 DEF DiffInvariant, BasesAreShipped
<1>5. CASE Merge(i)
  BY <1>3, <1>4, <1>5, MergeKeepsDiff DEF DiffInvariant
<1>6. CASE ~Merge(i)
  <2>1. /\ work' = work
        /\ \A j \in Issue : pull[j].state = "merged" => pull'[j] = pull[j]
        /\ \A j \in Issue : pull'[j].state = "open" => pull[j].state = "open" /\ pull'[j].base = pull[j].base
    <3> USE DEF TypeOK, GitHubTypes, Pull
    <3>1. CASE Approve(i) \/ Reject(i)
      <4>1. PICK a \in BOOLEAN : pull' = [pull EXCEPT ![i].approved = a]
        BY <3>1 DEF Approve, Reject
      <4>2. \A j \in Issue : /\ pull'[j].state = pull[j].state /\ pull'[j].base = pull[j].base
                             /\ j # i => pull'[j] = pull[j]
        BY <4>1
      <4> QED BY <3>1, <4>2 DEF Approve, Reject
    <3>2. CASE Complete(i) \/ Abandon(i)
      BY <3>2 DEF Complete, Abandon
    <3>3. CASE DeleteBranch(i)
      BY <3>3 DEF DeleteBranch
    <3> QED BY <1>6, <3>1, <3>2, <3>3 DEF Human
  <2>2. CutsAreHeld'
    BY <1>1, <2>1 DEF DiffInvariant, CutsAreHeld
  <2>3. DiffIsOwn'
    <3> SUFFICES ASSUME NEW j \in Issue, pull'[j].state = "open"
                 PROVE  work[j] \ LayersOf(pull', j) \subseteq work[pull'[j].base]
      BY <2>1 DEF DiffIsOwn, Layers, LayersOf
    <3>1. work[j] \ LayersOf(pull, j) \subseteq work[pull[j].base]
      BY <2>1, LayersName DEF DiffInvariant, DiffIsOwn
    <3>2. LayersOf(pull, j) \subseteq LayersOf(pull', j)
      BY <2>1, LayersGrow
    <3> QED BY <2>1, <3>1, <3>2
  <2> QED BY <1>3, <1>4, <2>2, <2>3 DEF DiffInvariant
<1> QED BY <1>5, <1>6

LEMMA NextKeepsDiff ==
  ASSUME TypeOK, DiffInvariant, [Next]_vars
  PROVE  DiffInvariant'
<1>1. ASSUME NEW i \in Issue, Session(i) \/ RunFails(i) PROVE DiffInvariant'
  BY <1>1, PushKeepsDiff, ReconcileKeepsDiff, PublishKeepsDiff, RunBackKeepsDiff DEF Session
<1>2. CASE UNCHANGED vars \/ \E i \in Issue, b \in Issue \cup {Foreign} : EditEdge(i, b)
  <2>1. UNCHANGED <<pull, work, run, pass, memo, walk, read>>
    BY <1>2 DEF vars, EditEdge, internal
  <2> QED BY <2>1, QuietKeepsDiff DEF DiffInvariant, BasesAreShipped, RunsAreStaged
<1> QED BY <1>1, <1>2, WalkStepKeepsDiff, ResolveStepKeepsDiff, StartKeepsDiff, HumanKeepsDiff
        DEF Next

LEMMA InitDiff == Init => DiffInvariant
<1> SUFFICES ASSUME Init PROVE DiffInvariant
  OBVIOUS
<1> USE DEF Init, InPool, NoPull, NoWalk, Unread, NoMemo
<1>1. RunsAreStaged
  BY DEF RunsAreStaged
<1>2. BasesAreShipped
  BY DEF BasesAreShipped, Shipped
<1>3. CutsAreHeld /\ DiffIsOwn
  BY DEF CutsAreHeld, DiffIsOwn
<1> QED BY <1>1, <1>2, <1>3 DEF DiffInvariant

(* A pull request carries its own issue and the layers merged into it,     *)
(* never a blocker's changes, wherever merges in any order, deleted        *)
(* branches and retargeting have led it (_resolve_deleted_base,            *)
(* _verify_ship_base), for any number of layers.                           *)
THEOREM DiffsAreOwn == Spec => []DiffIsOwn
<1>1. Init => TypeOK /\ DiffInvariant
  BY InitType, InitDiff
<1>2. TypeOK /\ DiffInvariant /\ [Next]_vars => TypeOK' /\ DiffInvariant'
  BY NextType, NextKeepsDiff
<1>3. DiffInvariant => DiffIsOwn
  BY DEF DiffInvariant
<1> QED BY <1>1, <1>2, <1>3, PTL DEF Spec

----------------------------------------------------------------------------
(* StartsInOrder. First the closure of the relations bb from an issue.     *)
ClosureOf(bb, i) ==
  ReachedFrom(bb[i], [b \in Issue \cup {Foreign} |-> IF b = Foreign THEN {} ELSE bb[b]])

LEMMA ClosureIs ==
  ASSUME NEW bb \in [Issue -> SUBSET (Issue \cup {Foreign})], NEW i \in Issue
  PROVE  /\ ClosureOf(bb, i) \subseteq Issue \cup {Foreign}
         /\ bb[i] \subseteq ClosureOf(bb, i)
         /\ \A j \in ClosureOf(bb, i) : j \in Issue => bb[j] \subseteq ClosureOf(bb, i)
<1> DEFINE next == [b \in Issue \cup {Foreign} |-> IF b = Foreign THEN {} ELSE bb[b]]
<1>1. next \in [Issue \cup {Foreign} -> SUBSET (Issue \cup {Foreign})]
      /\ bb[i] \in SUBSET (Issue \cup {Foreign}) /\ \A j \in Issue : next[j] = bb[j]
  BY DependenciesAssumption
<1>2. ClosureOf(bb, i) = ReachedFrom(bb[i], next)
  BY DEF ClosureOf
<1> HIDE DEF next
<1>3. /\ ReachedFrom(bb[i], next) \subseteq Issue \cup {Foreign}
      /\ bb[i] \subseteq ReachedFrom(bb[i], next)
      /\ \A x \in ReachedFrom(bb[i], next) : next[x] \subseteq ReachedFrom(bb[i], next)
  BY <1>1, ReachClosed
<1> QED BY <1>1, <1>2, <1>3

LEMMA ClosureLeast ==
  ASSUME NEW bb \in [Issue -> SUBSET (Issue \cup {Foreign})], NEW i \in Issue,
         NEW S \in SUBSET (Issue \cup {Foreign}), bb[i] \subseteq S,
         \A j \in S : j \in Issue => bb[j] \subseteq S
  PROVE  ClosureOf(bb, i) \subseteq S
<1> DEFINE next == [b \in Issue \cup {Foreign} |-> IF b = Foreign THEN {} ELSE bb[b]]
<1>1. next \in [Issue \cup {Foreign} -> SUBSET (Issue \cup {Foreign})]
      /\ bb[i] \in SUBSET (Issue \cup {Foreign}) /\ \A j \in S : next[j] \subseteq S
  BY DependenciesAssumption
<1>2. ClosureOf(bb, i) = ReachedFrom(bb[i], next)
  BY DEF ClosureOf
<1> HIDE DEF next
<1> QED BY <1>1, <1>2, ReachLeast

LEMMA ClosureNest ==
  ASSUME NEW bb \in [Issue -> SUBSET (Issue \cup {Foreign})], NEW i \in Issue,
         NEW j \in ClosureOf(bb, i), j \in Issue
  PROVE  ClosureOf(bb, j) \subseteq ClosureOf(bb, i)
BY ClosureIs, ClosureLeast

LEMMA ClosureName == \A i : LiveClosure(i) = ClosureOf(blockedBy, i)
BY DEF LiveClosure, ClosureOf

(* A blocker a dependent may start on.                                     *)
Settled(b) == pull[b].state = "merged" \/ GoAheadPull(pull[b])

(* What no human has disturbed only moves forward.                         *)
WorkLands ==
  \A i \in Issue : pull[i].state # "closed" /\ (status[i] = "completed" => pull[i].state = "merged")

(* What a grant pass remembers is still so.                                *)
MemoHolds ==
  \A j \in Issue :
    /\ memo.blocked[j] # None =>
         /\ DOMAIN memo.blocked[j] = blockedBy[j]
         /\ \A b \in blockedBy[j] \cap Issue :
              memo.blocked[j][b] = "completed" => status[b] = "completed"
    /\ memo.pull[j] # None /\ GoAheadPull(memo.pull[j]) => Settled(j)

(* What a walk has got to, and what it found there.                        *)
Walked == Done \cup OnPath \cup (IF walk.pc = "read" THEN {walk.at} ELSE {})

WalkHolds ==
  /\ \A j \in Done \cup OnPath : edges[j] = blockedBy[j] /\ \A b \in edges[j] : seen[b] # None
  /\ \A j \in Walked : j = walk.root \/ (j \in ClosureOf(blockedBy, walk.root) /\ seen[j] # None)
  /\ \A b \in Issue : /\ seen[b] = "completed" => status[b] = "completed"
                      /\ read[b] # None => Settled(b)

(* An issue once granted keeps its go-ahead, and does not wait for itself. *)
GrantsHold ==
  \A i \in Issue : run[i].pc # "pool" =>
    i \notin ClosureOf(blockedBy, i) /\ \A b \in ClosureOf(blockedBy, i) : b \in Issue /\ Settled(b)

(* Without chaining it was granted when all its blockers were completed.   *)
UnchainedHolds ==
  ~chaining =>
    /\ \A i \in Issue : /\ run[i].base = Default /\ pull[i].base = Default
                        /\ run[i].pc # "pool" => \A b \in ClosureOf(blockedBy, i) : status[b] = "completed"
    /\ walk.base = Default
    /\ walk.by = "driver" => \A b \in Issue : seen[b] \in {None, "completed"}

StartInvariant ==
  /\ left.edit <= MaxEdit /\ left.reject <= MaxReject
  /\ Undisturbed => WorkLands /\ MemoHolds /\ WalkHolds /\ GrantsHold /\ UnchainedHolds

(* What was settled stays so, and the relations and settings stay.         *)
Forward ==
  /\ UNCHANGED <<blockedBy, chaining>>
  /\ \A i \in Issue : /\ status[i] = "completed" => status'[i] = "completed"
                      /\ Settled(i) => Settled(i)'

(* A budget only shrinks.                                                  *)
LEMMA SpendDisturbs ==
  ASSUME TypeOK, left.edit <= MaxEdit, left.reject <= MaxReject,
         NEW b \in Budget, Spend(b)
  PROVE  /\ left'.edit <= MaxEdit /\ left'.reject <= MaxReject
         /\ Undisturbed' => Undisturbed /\ b = "fault"
<1>1. /\ left.edit \in Nat /\ left.reject \in Nat /\ left[b] > 0
      /\ left' = [left EXCEPT ![b] = @ - 1] /\ left \in [Budget -> Nat]
      /\ MaxEdit \in Nat /\ MaxReject \in Nat
  BY DependenciesAssumption DEF TypeOK, Spend, Budget
<1>2. CASE b = "edit"
  BY <1>1, <1>2 DEF Undisturbed, Budget
<1>3. CASE b = "reject"
  BY <1>1, <1>3 DEF Undisturbed, Budget
<1>4. CASE b = "fault"
  BY <1>1, <1>4 DEF Undisturbed, Budget
<1> QED BY <1>2, <1>3, <1>4 DEF Budget

(* The dispatcher and the drivers only read the graph.                     *)
LEMMA ReadsSpare ==
  ASSUME WalkStep \/ ResolveStep \/ Start
  PROVE  UNCHANGED github /\ (left' = left \/ Spend("fault"))
<1> USE DEF github, closure, NoGoAhead
<1>1. CASE WalkStep
  <2>1. CASE ReadBlockers \/ ReadForeign
    BY <2>1 DEF ReadBlockers, ReadForeign
  <2>2. CASE Leave \/ ReadFails
    BY <2>2 DEF Leave, ReadFails
  <2>3. ASSUME NEW b \in Issue, VisitCycle(b) \/ VisitDone(b) \/ VisitNew(b)
        PROVE  UNCHANGED github /\ left' = left
    BY <2>3 DEF VisitCycle, VisitDone, VisitNew
  <2> QED BY <1>1, <2>1, <2>2, <2>3 DEF WalkStep
<1>2. CASE ResolveStep
  <2>1. CASE ResolveNone \/ Checkout \/ CheckoutFails
    BY <2>1 DEF ResolveNone, Checkout, CheckoutFails
  <2>2. ASSUME NEW b \in Issue, ReadPull(b) \/ ReadPullWaits(b)
        PROVE  UNCHANGED github /\ left' = left
    BY <2>2 DEF ReadPull, ReadPullWaits
  <2>3. ASSUME NEW b \in Branch, Grant(b) \/ DeriveBase(b)
        PROVE  UNCHANGED github /\ left' = left
    BY <2>3 DEF Grant, DeriveBase
  <2> QED BY <1>2, <2>1, <2>2, <2>3 DEF ResolveStep
<1>3. CASE Start
  <2>1. CASE StartPass
    BY <2>1 DEF StartPass
  <2>2. ASSUME NEW i \in Issue, Consider(i) \/ StartRun(i) PROVE UNCHANGED github /\ left' = left
    BY <2>2 DEF Consider, StartRun
  <2> QED BY <1>3, <2>1, <2>2 DEF Start
<1> QED BY <1>1, <1>2, <1>3

(* Undisturbed, every step is one forward.                                 *)
GoesForward ==
  /\ left'.edit <= MaxEdit /\ left'.reject <= MaxReject
  /\ Undisturbed' => Undisturbed /\ Forward /\ WorkLands'

LEMMA NextForward ==
  ASSUME TypeOK, DiffInvariant, StartInvariant, [Next]_vars
  PROVE  GoesForward
<1>1. left.edit <= MaxEdit /\ left.reject <= MaxReject
  BY DEF StartInvariant
<1>2. ASSUME UNCHANGED github, left' = left \/ Spend("fault") PROVE GoesForward
  <2>1. left'.edit <= MaxEdit /\ left'.reject <= MaxReject /\ (Undisturbed' => Undisturbed)
    <3>1. CASE left' = left
      BY <1>1, <3>1 DEF Undisturbed
    <3>2. CASE Spend("fault")
      BY <1>1, <3>2, SpendDisturbs DEF Budget
    <3> QED BY <1>2, <3>1, <3>2
  <2> QED BY <1>2, <2>1 DEF GoesForward, github, Forward, Settled, StartInvariant, WorkLands
<1>3. ASSUME left' = left, UNCHANGED <<blockedBy, chaining>>,
             Undisturbed /\ WorkLands => Forward /\ WorkLands'
      PROVE  GoesForward
  BY <1>1, <1>3 DEF GoesForward, Undisturbed, StartInvariant
<1>4. ASSUME Spend("edit") \/ Spend("reject") PROVE GoesForward
  BY <1>1, <1>4, SpendDisturbs DEF Budget, GoesForward
<1>5. CASE WalkStep \/ ResolveStep \/ Start
  BY <1>2, <1>5, ReadsSpare DEF github
<1>8. ASSUME NEW i \in Issue, Session(i) \/ RunFails(i) PROVE GoesForward
  <2>1. CASE ReconcileBase(i) \/ ShipFails(i) \/ RunFails(i)
    BY <1>2, <2>1 DEF ReconcileBase, ShipFails, RunFails
  <2>2. CASE Push(i)
    BY <1>3, <2>2 DEF Push, Forward, Settled, WorkLands
  <2>3. CASE Publish(i)
    <3>1. /\ left' = left /\ UNCHANGED <<blockedBy, chaining, status>> /\ pull[i].state = "none"
          /\ pull'[i].state = "open" /\ \A j \in Issue : j # i => pull'[j] = pull[j]
      BY <2>3 DEF Publish, DiffInvariant, RunsAreStaged, TypeOK, GitHubTypes
    <3>2. ~Settled(i) /\ \A j \in Issue : Settled(j) => Settled(j)'
      BY <3>1 DEF Settled, GoAheadPull
    <3> QED BY <1>3, <3>1, <3>2 DEF Forward, WorkLands
  <2> QED BY <1>8, <2>1, <2>2, <2>3 DEF Session
<1>9. ASSUME NEW i \in Issue, Human(i) PROVE GoesForward
  <2>1. CASE Reject(i) \/ Abandon(i)
    BY <1>4, <2>1 DEF Reject, Abandon
  <2>2. CASE Approve(i)
    <3>1. /\ left' = left /\ UNCHANGED <<blockedBy, chaining, status>>
          /\ pull' = [pull EXCEPT ![i].approved = TRUE]
      BY <2>2 DEF Approve
    <3>2. \A j \in Issue : /\ pull'[j].state = pull[j].state
                           /\ pull'[j].approved \in {pull[j].approved, TRUE}
      BY <3>1 DEF TypeOK, GitHubTypes, Pull
    <3>3. \A j \in Issue : Settled(j) => Settled(j)'
      BY <3>2 DEF Settled, GoAheadPull
    <3> QED BY <1>3, <3>1, <3>2, <3>3 DEF Forward, WorkLands
  <2>3. CASE Merge(i)
    <3>1. /\ left' = left /\ UNCHANGED <<blockedBy, chaining>> /\ pull'[i].state = "merged"
          /\ \A j \in Issue : j # i => pull'[j].state = pull[j].state /\ pull'[j].approved = pull[j].approved
          /\ \A j \in Issue : status'[j] = status[j] \/ (j = i /\ status'[j] = "completed")
      BY <2>3 DEF Merge, TypeOK, GitHubTypes, Pull
    <3>2. \A j \in Issue : Settled(j) => Settled(j)'
      BY <3>1 DEF Settled, GoAheadPull
    <3> QED BY <1>3, <3>1, <3>2 DEF Forward, WorkLands
  <2>4. CASE Complete(i)
    <3>1. /\ left' = left /\ UNCHANGED <<blockedBy, chaining, pull>> /\ pull[i].state = "merged"
          /\ \A j \in Issue : status'[j] = status[j] \/ (j = i /\ status'[j] = "completed")
      BY <2>4 DEF Complete, TypeOK, GitHubTypes
    <3> QED BY <1>3, <3>1 DEF Forward, Settled, WorkLands
  <2>5. CASE DeleteBranch(i)
    <3>1. pull[i].state = "closed" /\ left' = left /\ UNCHANGED <<blockedBy, chaining>>
      BY <2>5 DEF DeleteBranch
    <3> QED BY <1>3, <3>1 DEF WorkLands
  <2> QED BY <1>9, <2>1, <2>2, <2>3, <2>4, <2>5 DEF Human
<1>10. CASE UNCHANGED vars
  <2>1. UNCHANGED github /\ left' = left
    BY <1>10 DEF vars, github
  <2> QED BY <1>2, <2>1 DEF github
<1>11. ASSUME NEW i \in Issue, NEW b \in Issue \cup {Foreign}, EditEdge(i, b) PROVE GoesForward
  <2>1. Spend("edit")
    BY <1>11 DEF EditEdge
  <2> QED BY <1>4, <2>1
<1> QED BY <1>5, <1>8, <1>9, <1>10, <1>11 DEF Next

(* What a walk reads of an issue is what GitHub says, or said before.      *)
LEMMA ReadsHold ==
  ASSUME TypeOK, MemoHolds, NEW i \in Issue,
         NEW reply, reply = Reads("blocked", i, ListBlockedBy(i))
  PROVE  /\ DOMAIN reply = blockedBy[i]
         /\ \A b \in blockedBy[i] \cap Issue : reply[b] = "completed" => status[b] = "completed"
         /\ walk.by = "driver" => \A b \in blockedBy[i] \cap Issue : reply[b] = status[b]
<1>1. \A b \in blockedBy[i] \cap Issue : ListBlockedBy(i)[b] = status[b]
  BY DependenciesAssumption DEF ListBlockedBy
<1>2. CASE walk.by = "dispatch" /\ memo["blocked"][i] # None
  BY <1>2 DEF Reads, MemoHolds
<1>3. CASE ~(walk.by = "dispatch" /\ memo["blocked"][i] # None)
  BY <1>1, <1>3 DEF Reads, ListBlockedBy
<1> QED BY <1>2, <1>3

LEMMA PullReadHolds ==
  ASSUME TypeOK, MemoHolds, NEW b \in Issue,
         GoAheadPull(Reads("pull", b, FindOpenPr(b)))
  PROVE  Settled(b)
<1>1. CASE walk.by = "dispatch" /\ memo["pull"][b] # None
  BY <1>1 DEF Reads, MemoHolds
<1>2. CASE ~(walk.by = "dispatch" /\ memo["pull"][b] # None)
  BY <1>2 DEF Reads, FindOpenPr, NoPull, Settled, GoAheadPull
<1> QED BY <1>1, <1>2

(* So the memo holds, whatever is remembered in it.                        *)
LEMMA MemoKept ==
  ASSUME TypeOK, MemoHolds, Forward, memo' = memo
  PROVE  MemoHolds'
BY DEF MemoHolds, Forward

LEMMA BlockedRemembered ==
  ASSUME TypeOK, MemoHolds, Forward, NEW i \in Issue,
         Remember("blocked", i, Reads("blocked", i, ListBlockedBy(i)))
  PROVE  MemoHolds'
<1> DEFINE reply == Reads("blocked", i, ListBlockedBy(i))
<1>1. /\ DOMAIN reply = blockedBy[i]
      /\ \A b \in blockedBy[i] \cap Issue : reply[b] = "completed" => status[b] = "completed"
  BY ReadsHold
<1>2. memo \in MemoType
  BY DEF TypeOK, MemoType
<1>3. memo' = IF walk.by = "dispatch" THEN [memo EXCEPT !["blocked"][i] = reply] ELSE memo
  BY DEF Remember
<1> HIDE DEF reply
<1>4. /\ memo'.pull = memo.pull
      /\ \A j \in Issue : memo'.blocked[j] = memo.blocked[j] \/ (j = i /\ memo'.blocked[j] = reply)
  BY <1>2, <1>3 DEF MemoType
<1> QED BY <1>1, <1>4 DEF MemoHolds, Forward

LEMMA PullRemembered ==
  ASSUME TypeOK, MemoHolds, Forward, NEW b \in Issue,
         Remember("pull", b, Reads("pull", b, FindOpenPr(b)))
  PROVE  MemoHolds'
<1> DEFINE reply == Reads("pull", b, FindOpenPr(b))
<1>1. GoAheadPull(reply) => Settled(b)
  BY PullReadHolds
<1>2. memo \in MemoType
  BY DEF TypeOK, MemoType
<1>3. memo' = IF walk.by = "dispatch" THEN [memo EXCEPT !["pull"][b] = reply] ELSE memo
  BY DEF Remember
<1> HIDE DEF reply
<1>4. /\ memo'.blocked = memo.blocked
      /\ \A j \in Issue : memo'.pull[j] = memo.pull[j] \/ (j = b /\ memo'.pull[j] = reply)
  BY <1>2, <1>3 DEF MemoType
<1> QED BY <1>1, <1>4 DEF MemoHolds, Forward

LEMMA NextKeepsMemo ==
  ASSUME TypeOK, MemoHolds, Forward, [Next]_vars
  PROVE  MemoHolds'
<1>1. CASE ReadBlockers
  <2>1. walk.at \in Issue
    BY <1>1 DEF ReadBlockers, TypeOK, WalkTypes
  <2>2. Remember("blocked", walk.at, Reads("blocked", walk.at, ListBlockedBy(walk.at)))
    BY <1>1 DEF ReadBlockers
  <2> QED BY <2>1, <2>2, BlockedRemembered
<1>2. ASSUME NEW b \in Issue, ReadPull(b) \/ ReadPullWaits(b) PROVE MemoHolds'
  BY <1>2, PullRemembered DEF ReadPull, ReadPullWaits
<1>3. CASE StartPass
  BY <1>3 DEF StartPass, NoMemo, Unread, MemoHolds
<1>4. ASSUME memo' = memo PROVE MemoHolds'
  BY <1>4, MemoKept
<1>5. CASE WalkStep
  <2>1. ASSUME NEW b \in Issue, VisitCycle(b) \/ VisitDone(b) \/ VisitNew(b) PROVE memo' = memo
    BY <2>1 DEF VisitCycle, VisitDone, VisitNew, NoGoAhead
  <2>2. CASE ReadForeign \/ Leave \/ ReadFails
    BY <1>4, <2>2 DEF ReadForeign, Leave, ReadFails, NoGoAhead
  <2> QED BY <1>1, <1>4, <1>5, <2>1, <2>2 DEF WalkStep
<1>6. CASE ResolveStep
  <2>1. ASSUME NEW b \in Branch, Grant(b) \/ DeriveBase(b) PROVE memo' = memo
    BY <2>1 DEF Grant, DeriveBase
  <2>2. CASE ResolveNone \/ Checkout \/ CheckoutFails
    BY <1>4, <2>2 DEF ResolveNone, Checkout, CheckoutFails, NoGoAhead
  <2> QED BY <1>2, <1>4, <1>6, <2>1, <2>2 DEF ResolveStep
<1>7. CASE Start
  BY <1>3, <1>4, <1>7 DEF Start, Consider, StartRun
<1>8. ASSUME NEW i \in Issue, Session(i) \/ RunFails(i) PROVE MemoHolds'
  BY <1>4, <1>8 DEF Session, Push, ReconcileBase, Publish, ShipFails, RunFails
<1>9. ASSUME NEW i \in Issue, Human(i) PROVE MemoHolds'
  BY <1>4, <1>9 DEF Human, Approve, Reject, Merge, Complete, Abandon, DeleteBranch, internal
<1>10. ASSUME NEW i \in Issue, NEW b \in Issue \cup {Foreign}, EditEdge(i, b) PROVE MemoHolds'
  BY <1>4, <1>10 DEF EditEdge, internal
<1>11. CASE UNCHANGED vars
  BY <1>4, <1>11 DEF vars
<1> QED BY <1>5, <1>6, <1>7, <1>8, <1>9, <1>10, <1>11 DEF Next

(* What a walk has got to is its closure, read as it still is.             *)
LEMMA SameWalkHolds ==
  ASSUME WalkHolds, Forward, UNCHANGED <<path, order, edges, seen, read>>,
         \/ walk' = walk
         \/ walk'.pc = "checkout" /\ walk.pc # "read" /\ walk'.root = walk.root
  PROVE  WalkHolds'
<1>1. Done' = Done /\ OnPath' = OnPath /\ blockedBy' = blockedBy
  BY DEF Done, OnPath, Forward
<1>2. Walked' = Walked /\ walk'.root = walk.root
  BY <1>1 DEF Walked
<1> QED BY <1>1, <1>2 DEF WalkHolds, Forward

LEMMA FreshWalkHolds ==
  ASSUME DependenciesAssumption, path' = <<>>, order' = <<>>, seen' = Unread, read' = Unread,
         walk'.pc = "read" => walk'.at = walk'.root
  PROVE  WalkHolds'
<1>1. Done' = {} /\ OnPath' = {}
  BY DEF Done, OnPath
<1>2. \A b \in Issue : seen'[b] = None /\ read'[b] = None /\ None # "completed"
  BY DEF Unread, Status
<1> QED BY <1>1, <1>2 DEF WalkHolds, Walked

LEMMA ClearWalkHolds ==
  ASSUME ClearWalk
  PROVE  WalkHolds'
BY FreshWalkHolds, DependenciesAssumption DEF ClearWalk, NoWalk

LEMMA StartWalkHolds ==
  ASSUME NEW i \in Issue, NEW by \in {"dispatch", "driver"}, StartWalk(by, i)
  PROVE  WalkHolds'
BY FreshWalkHolds, DependenciesAssumption DEF StartWalk, NoWalk

(* An issue that is read, and one that is left, stays among the walked.    *)
LEMMA ReadMoves ==
  ASSUME TypeOK, ReadBlockers
  PROVE  Done' = Done /\ OnPath' = OnPath \cup {walk.at}
<1>1. path \in Seq(Issue) /\ walk.at \in Issue /\ path' = Append(path, walk.at) /\ order' = order
  BY DEF ReadBlockers, TypeOK, WalkTypes
<1> DEFINE n == Len(path)
           i == walk.at
<1>2. n \in Nat /\ Len(path') = n + 1 /\ path'[n + 1] = i /\ \A k \in 1 .. n : path'[k] = path[k]
  BY <1>1
<1> HIDE DEF n, i
<1>3. OnPath' = {path'[k] : k \in 1 .. n + 1} /\ OnPath = {path[k] : k \in 1 .. n}
  BY <1>2 DEF OnPath, n
<1>4. 1 .. n + 1 = (1 .. n) \cup {n + 1} /\ {path'[k] : k \in 1 .. n} = {path[k] : k \in 1 .. n}
  BY <1>2
<1> QED BY <1>1, <1>2, <1>3, <1>4 DEF Done, i

LEMMA LeaveMoves ==
  ASSUME TypeOK, Leave
  PROVE  /\ Current \in OnPath /\ Current \in Issue
         /\ OnPath' \subseteq OnPath /\ OnPath \subseteq OnPath' \cup {Current}
         /\ Done' = Done \cup {Current}
<1> DEFINE n == Len(path)
           m == Len(order)
<1>1. /\ path \in Seq(Issue) /\ path # <<>> /\ order \in Seq(Issue) /\ Current = path[n]
      /\ path' = SubSeq(path, 1, n - 1) /\ order' = Append(order, Current)
  BY DEF Leave, TypeOK, WalkTypes, Current
<1>2. /\ n \in Nat \ {0} /\ m \in Nat /\ Current \in Issue
      /\ Len(path') = n - 1 /\ \A k \in 1 .. n - 1 : path'[k] = path[k]
  BY <1>1, FrontOf
<1>3. Len(order') = m + 1 /\ order'[m + 1] = Current /\ \A k \in 1 .. m : order'[k] = order[k]
  BY <1>1, <1>2
<1> HIDE DEF n, m
<1>4. Current \in OnPath /\ OnPath' \subseteq OnPath /\ OnPath \subseteq OnPath' \cup {Current}
  <2>1. OnPath' = {path'[k] : k \in 1 .. n - 1} /\ OnPath = {path[k] : k \in 1 .. n}
    BY <1>2 DEF OnPath, n
  <2>2. 1 .. n = (1 .. n - 1) \cup {n}
    BY <1>2
  <2> QED BY <1>1, <1>2, <2>1, <2>2
<1>5. Done' = Done \cup {Current}
  <2>1. Done' = {order'[k] : k \in 1 .. m + 1} /\ Done = {order[k] : k \in 1 .. m}
    BY <1>3 DEF Done, m
  <2>2. 1 .. m + 1 = (1 .. m) \cup {m + 1}
    BY <1>2
  <2>3. {order'[k] : k \in 1 .. m} = {order[k] : k \in 1 .. m}
    BY <1>3
  <2> QED BY <1>3, <2>1, <2>2, <2>3
<1> QED BY <1>2, <1>4, <1>5

(* What is walked of an issue, and the blockers it has.                    *)
LEMMA WalkedIssues ==
  ASSUME TypeOK, WalkHolds, NEW root \in Issue, root = walk.root,
         NEW j \in Walked, j \in Issue
  PROVE  blockedBy[j] \subseteq ClosureOf(blockedBy, root)
<1>1. blockedBy \in [Issue -> SUBSET (Issue \cup {Foreign})]
  BY DEF TypeOK, GitHubTypes
<1>2. j = root \/ j \in ClosureOf(blockedBy, root)
  BY DEF WalkHolds
<1> QED BY <1>1, <1>2, ClosureIs

LEMMA ReadBlockersHolds ==
  ASSUME TypeOK, MemoHolds, WalkHolds, Forward, ReadBlockers
  PROVE  WalkHolds'
<1> DEFINE i == walk.at
           reply == Reads("blocked", i, ListBlockedBy(i))
<1>1. i \in Issue /\ walk.pc = "read" /\ i \in Walked
  BY DEF ReadBlockers, TypeOK, WalkTypes, Walked
<1>2. /\ DOMAIN reply = blockedBy[i] /\ reply \in Reply /\ Foreign \notin DOMAIN reply
      /\ \A b \in blockedBy[i] \cap Issue : reply[b] = "completed" => status[b] = "completed"
  BY <1>1, ReadsHold, ReadsBlockedType DEF ReadBlockers
<1>3. /\ edges' = [edges EXCEPT ![i] = DOMAIN reply]
      /\ seen' = [b \in Issue |-> IF b \in DOMAIN reply /\ seen[b] = None THEN reply[b] ELSE seen[b]]
      /\ UNCHANGED read /\ walk'.pc = "visit" /\ walk'.root = walk.root
  BY DEF ReadBlockers, TypeOK, WalkTypes, Walk
<1> HIDE DEF reply
<1>4. \A b \in DOMAIN reply : reply[b] # None /\ b \in Issue
  BY <1>2, DependenciesAssumption DEF Reply
<1>5. \A b \in Issue : /\ seen[b] # None => seen'[b] = seen[b]
                       /\ b \in DOMAIN reply => seen'[b] # None
                       /\ seen'[b] = seen[b] \/ (b \in DOMAIN reply /\ seen'[b] = reply[b])
  BY <1>3, <1>4
<1>6. Walked' = Walked /\ Done' \cup OnPath' = Done \cup OnPath \cup {i}
  BY <1>1, <1>3, ReadMoves DEF Walked
<1>7. edges'[i] = DOMAIN reply /\ \A j \in Issue : j # i => edges'[j] = edges[j]
  BY <1>1, <1>3 DEF TypeOK, WalkTypes
<1>8. Walked \subseteq Issue /\ edges \in [Issue -> SUBSET Issue]
  BY <1>1 DEF Walked, Done, OnPath, TypeOK, WalkTypes, i
<1> HIDE DEF i
<1>9. ASSUME NEW j \in Done' \cup OnPath'
      PROVE  edges'[j] = blockedBy[j] /\ \A b \in edges'[j] : seen'[b] # None
  <2>1. CASE j = i
    BY <1>2, <1>4, <1>5, <1>7, <2>1
  <2>2. CASE j # i
    <3>1. j \in Done \cup OnPath /\ j \in Issue
      BY <1>6, <1>8, <1>9, <2>2 DEF Walked
    <3> QED BY <1>5, <1>7, <1>8, <2>2, <3>1 DEF WalkHolds
  <2> QED BY <2>1, <2>2
<1>10. \A j \in Walked' : j = walk.root \/ (j \in ClosureOf(blockedBy, walk.root) /\ seen'[j] # None)
  BY <1>5, <1>6, <1>8 DEF WalkHolds
<1>11. \A b \in Issue : /\ seen'[b] = "completed" => status'[b] = "completed"
                        /\ read'[b] # None => Settled(b)'
  <2>1. \A b \in Issue : seen'[b] = "completed" => status[b] = "completed"
    BY <1>2, <1>5 DEF WalkHolds
  <2> QED BY <1>3, <2>1 DEF Forward, WalkHolds
<1>12. blockedBy' = blockedBy
  BY DEF Forward
<1> QED BY <1>3, <1>9, <1>10, <1>11, <1>12 DEF WalkHolds

LEMMA VisitNewHolds ==
  ASSUME TypeOK, WalkInvariant, RunsAreStaged, WalkHolds, Forward, NEW b \in Issue, VisitNew(b)
  PROVE  WalkHolds'
<1>1. /\ walk.pc = "visit" /\ path # <<>> /\ b \in todo[Current]
      /\ UNCHANGED <<path, order, edges, seen, read>>
  BY DEF VisitNew, NextBlocker, Least
<1>2. walk'.pc = "read" /\ walk'.at = b /\ walk'.root = walk.root /\ walk.root \in Issue
  BY <1>1 DEF VisitNew, TypeOK, WalkTypes, Walk, RunsAreStaged
<1>3. Done' = Done /\ OnPath' = OnPath /\ blockedBy' = blockedBy
  BY <1>1 DEF Done, OnPath, Forward
<1>4. Current \in OnPath /\ Current \in Issue /\ Current \in Walked
  BY <1>1, FrontOf DEF TypeOK, WalkTypes, Current, OnPath, Walked
<1>5. b \in edges[Current]
  <2>1. Len(path) \in 1 .. Len(path) /\ path[Len(path)] = Current
    BY <1>1, FrontOf DEF TypeOK, WalkTypes, Current
  <2>2. todo[path[Len(path)]] \subseteq edges[path[Len(path)]]
    BY <2>1 DEF WalkInvariant, PathIsStack
  <2> QED BY <1>1, <2>1, <2>2
<1>6. b \in blockedBy[Current] /\ seen[b] # None
  BY <1>4, <1>5 DEF WalkHolds
<1>7. b \in ClosureOf(blockedBy, walk.root)
  BY <1>2, <1>4, <1>6, WalkedIssues
<1>8. Walked' = Walked \cup {b}
  BY <1>1, <1>2, <1>3 DEF Walked
<1> QED BY <1>1, <1>2, <1>3, <1>6, <1>7, <1>8 DEF WalkHolds, Forward

LEMMA LeaveHolds ==
  ASSUME TypeOK, WalkHolds, Forward, Leave
  PROVE  WalkHolds'
<1>1. /\ walk'.root = walk.root /\ walk'.pc # "read" /\ walk.pc = "visit"
      /\ UNCHANGED <<edges, seen, read>> /\ blockedBy' = blockedBy
  BY DEF Leave, TypeOK, WalkTypes, Walk, Forward
<1>2. Done' \cup OnPath' = Done \cup OnPath
  BY LeaveMoves
<1>3. Walked' = Walked
  BY <1>1, <1>2 DEF Walked
<1> QED BY <1>1, <1>2, <1>3 DEF WalkHolds, Forward

LEMMA ReadPullHolds ==
  ASSUME TypeOK, MemoHolds, WalkHolds, Forward, NEW b \in Issue, ReadPull(b)
  PROVE  WalkHolds'
<1>1. Settled(b)
  BY PullReadHolds DEF ReadPull
<1>2. /\ UNCHANGED <<path, order, edges, seen, walk, blockedBy>>
      /\ \A c \in Issue : c # b => read'[c] = read[c]
  BY DEF ReadPull, TypeOK, WalkTypes, github
<1>3. Done' = Done /\ OnPath' = OnPath /\ Walked' = Walked
  BY <1>2 DEF Done, OnPath, Walked
<1>4. \A c \in Issue : read'[c] # None => Settled(c)'
  BY <1>1, <1>2 DEF WalkHolds, Forward
<1> QED BY <1>2, <1>3, <1>4 DEF WalkHolds, Forward

LEMMA NextKeepsWalk ==
  ASSUME TypeOK, WalkInvariant, RunsAreStaged, MemoHolds, WalkHolds, Forward, [Next]_vars
  PROVE  WalkHolds'
<1>1. CASE WalkStep
  <2>1. CASE ReadBlockers \/ Leave
    BY <2>1, ReadBlockersHolds, LeaveHolds
  <2>2. CASE ReadForeign \/ ReadFails
    BY <2>2, ClearWalkHolds DEF ReadForeign, ReadFails, NoGoAhead
  <2>3. ASSUME NEW b \in Issue, VisitCycle(b) PROVE WalkHolds'
    BY <2>3, ClearWalkHolds DEF VisitCycle, NoGoAhead
  <2>4. ASSUME NEW b \in Issue, VisitDone(b) PROVE WalkHolds'
    BY <2>4, SameWalkHolds DEF VisitDone
  <2>5. ASSUME NEW b \in Issue, VisitNew(b) PROVE WalkHolds'
    BY <2>5, VisitNewHolds
  <2> QED BY <1>1, <2>1, <2>2, <2>3, <2>4, <2>5 DEF WalkStep
<1>2. CASE ResolveStep
  <2>1. CASE ResolveNone \/ Checkout \/ CheckoutFails
    BY <2>1, ClearWalkHolds DEF ResolveNone, Checkout, CheckoutFails, NoGoAhead
  <2>2. ASSUME NEW b \in Issue, ReadPull(b) PROVE WalkHolds'
    BY <2>2, ReadPullHolds
  <2>3. ASSUME NEW b \in Issue, ReadPullWaits(b) PROVE WalkHolds'
    BY <2>3, ClearWalkHolds DEF ReadPullWaits
  <2>4. ASSUME NEW b \in Branch, Grant(b) PROVE WalkHolds'
    BY <2>4, ClearWalkHolds DEF Grant
  <2>5. ASSUME NEW b \in Branch, DeriveBase(b) PROVE WalkHolds'
    <3>1. /\ walk'.pc = "checkout" /\ walk'.root = walk.root /\ walk.pc = "resolve"
          /\ UNCHANGED <<path, order, edges, seen, read>>
      BY <2>5 DEF DeriveBase, Resolved, closure, TypeOK, WalkTypes, Walk
    <3> QED BY <3>1, SameWalkHolds
  <2> QED BY <1>2, <2>1, <2>2, <2>3, <2>4, <2>5 DEF ResolveStep
<1>3. CASE Start
  <2>1. CASE StartPass
    BY <2>1, SameWalkHolds DEF StartPass, closure
  <2>2. ASSUME NEW i \in Issue, Consider(i) \/ StartRun(i) PROVE WalkHolds'
    BY <2>2, StartWalkHolds DEF Consider, StartRun
  <2> QED BY <1>3, <2>1, <2>2 DEF Start
<1>4. ASSUME NEW i \in Issue, Session(i) \/ RunFails(i) PROVE WalkHolds'
  BY <1>4, SameWalkHolds
     DEF Session, Push, ReconcileBase, Publish, ShipFails, RunFails, closure
<1>5. ASSUME NEW i \in Issue, Human(i) PROVE WalkHolds'
  BY <1>5, SameWalkHolds
     DEF Human, Approve, Reject, Merge, Complete, Abandon, DeleteBranch, internal
<1>6. ASSUME NEW i \in Issue, NEW b \in Issue \cup {Foreign}, EditEdge(i, b) PROVE WalkHolds'
  BY <1>6, SameWalkHolds DEF EditEdge, internal
<1>7. CASE UNCHANGED vars
  BY <1>7, SameWalkHolds DEF vars
<1> QED BY <1>1, <1>2, <1>3, <1>4, <1>5, <1>6, <1>7 DEF Next

(* When the walk hands over to resolve, the blockers it found are the whole*)
(* closure, each with the state it was read in.                            *)
LEMMA BlockersAreClosure ==
  ASSUME TypeOK, WalkInvariant, WalkHolds, walk.pc = "resolve",
         NEW root \in Issue, root = walk.root
  PROVE  /\ Blockers \subseteq Issue /\ root \notin Blockers
         /\ ClosureOf(blockedBy, root) = Blockers
         /\ \A b \in Blockers : seen[b] \in Status
<1> DEFINE m == Len(order)
<1>1. /\ order \in Seq(Issue) /\ m \in Nat \ {0} /\ order[m] = root
      /\ \A j, k \in 1 .. m : order[j] = order[k] => j = k
      /\ \A k \in 1 .. m : order[k] \in Issue
  BY DEF TypeOK, WalkTypes, WalkInvariant, OrderIsComplete
<1>2. Done = {order[k] : k \in 1 .. m} /\ Blockers = Done \ {root}
  BY DEF Done, Blockers
<1>3. \A k \in 1 .. m : edges[order[k]] \subseteq {order[j] : j \in 1 .. k - 1}
  BY DEF WalkInvariant, OrderIsTopological
<1> HIDE DEF m
<1>4. ASSUME NEW j \in Done PROVE blockedBy[j] \subseteq Blockers
  <2>1. PICK k \in 1 .. m : j = order[k]
    BY <1>2
  <2>2. \A l \in 1 .. k - 1 : l \in 1 .. m /\ order[l] # root
    BY <1>1, <2>1
  <2>3. edges[j] = blockedBy[j]
    BY DEF WalkHolds
  <2> QED BY <1>2, <1>3, <2>1, <2>2, <2>3
<1>5. root \in Done /\ Blockers \subseteq Issue
  BY <1>1, <1>2
<1>6. blockedBy \in [Issue -> SUBSET (Issue \cup {Foreign})]
  BY DEF TypeOK, GitHubTypes
<1>7. ClosureOf(blockedBy, root) \subseteq Blockers
  BY <1>2, <1>4, <1>5, <1>6, ClosureLeast
<1>8. \A b \in Blockers : b \in ClosureOf(blockedBy, root) /\ seen[b] # None
  BY <1>2 DEF WalkHolds, Walked
<1>9. \A b \in Blockers : seen[b] \in Status
  BY <1>5, <1>8 DEF TypeOK, WalkTypes
<1> QED BY <1>2, <1>5, <1>7, <1>8, <1>9

(* A go-ahead is one for each blocker.                                     *)
LEMMA ResolvedBlockers ==
  ASSUME TypeOK, WalkInvariant, WorkLands, WalkHolds, Resolved,
         NEW root \in Issue, root = walk.root
  PROVE  \A b \in Blockers : /\ Settled(b)
                             /\ b \in OpenBlockers => read[b] # None
                             /\ b \notin OpenBlockers => status[b] = "completed" /\ pull[b].state = "merged"
<1> SUFFICES ASSUME NEW b \in Blockers
             PROVE  /\ Settled(b)
                    /\ b \in OpenBlockers => read[b] # None
                    /\ b \notin OpenBlockers => status[b] = "completed" /\ pull[b].state = "merged"
  OBVIOUS
<1>1. walk.pc = "resolve" /\ ~Malformed /\ AllRead
  BY DEF Resolved
<1>2. b \in Issue /\ seen[b] \in Status
  BY <1>1, BlockersAreClosure
<1>3. seen[b] # "not_planned"
  BY <1>1 DEF Malformed
<1>4. CASE b \in OpenBlockers
  BY <1>1, <1>2, <1>4 DEF AllRead, WalkHolds
<1>5. CASE b \notin OpenBlockers
  <2>1. seen[b] = "completed"
    BY <1>2, <1>3, <1>5 DEF OpenBlockers, Status
  <2> QED BY <1>2, <1>5, <2>1 DEF WalkHolds, WorkLands, Settled
<1> QED BY <1>4, <1>5

(* The steps that change a Run.                                            *)
LEMMA RunMoves ==
  ASSUME TypeOK, RunsAreStaged, [Next]_vars
  PROVE  \/ run' = run \/ Checkout \/ \E b \in Branch : Grant(b)
         \/ \E j \in Issue : Push(j) \/ ReconcileBase(j) \/ Publish(j)
         \/ \E j \in Issue : run[j].pc # "pool" /\ Returns(j)
<1> DEFINE GoesBack == \E j \in Issue : run[j].pc # "pool" /\ Returns(j)
<1>1. ASSUME walk.pc # "idle", SkipOrFail PROVE run' = run \/ GoesBack
  BY <1>1 DEF SkipOrFail, RunsAreStaged
<1>2. CASE WalkStep
  <2>1. CASE ReadBlockers \/ Leave
    BY <2>1 DEF ReadBlockers, Leave
  <2>2. CASE ReadForeign \/ ReadFails
    BY <1>1, <2>2 DEF ReadForeign, ReadFails, NoGoAhead
  <2>3. ASSUME NEW b \in Issue, VisitCycle(b) PROVE run' = run \/ GoesBack
    BY <1>1, <2>3 DEF VisitCycle, NoGoAhead
  <2>4. ASSUME NEW b \in Issue, VisitDone(b) \/ VisitNew(b) PROVE run' = run
    BY <2>4 DEF VisitDone, VisitNew
  <2> QED BY <1>2, <2>1, <2>2, <2>3, <2>4 DEF WalkStep
<1>3. CASE ResolveStep
  <2>1. CASE ResolveNone \/ CheckoutFails
    BY <1>1, <2>1 DEF ResolveNone, CheckoutFails, NoGoAhead
  <2>2. ASSUME NEW b \in Issue, ReadPull(b) PROVE run' = run
    BY <2>2 DEF ReadPull
  <2>3. ASSUME NEW b \in Issue, ReadPullWaits(b) PROVE run' = run \/ GoesBack
    BY <1>1, <2>3 DEF ReadPullWaits, NextPull
  <2>4. ASSUME NEW b \in Branch, DeriveBase(b) PROVE run' = run
    BY <2>4 DEF DeriveBase
  <2> QED BY <1>3, <2>1, <2>2, <2>3, <2>4 DEF ResolveStep
<1>4. CASE Start
  BY <1>4 DEF Start, StartPass, Consider, StartRun
<1>5. ASSUME NEW j \in Issue, ShipFails(j) \/ RunFails(j) PROVE GoesBack
  BY <1>5 DEF ShipFails, RunFails
<1>6. ASSUME NEW j \in Issue, Human(j) PROVE run' = run
  BY <1>6 DEF Human, Approve, Reject, Merge, Complete, Abandon, DeleteBranch, internal
<1>7. CASE UNCHANGED vars \/ \E j \in Issue, b \in Issue \cup {Foreign} : EditEdge(j, b)
  BY <1>7 DEF vars, EditEdge, internal
<1>8. CASE \E i \in Issue : Session(i) \/ RunFails(i) \/ Human(i)
  BY <1>5, <1>6, <1>8 DEF Session
<1> QED BY <1>2, <1>3, <1>4, <1>7, <1>8 DEF Next

(* A Run leaves the pool only by a grant, works on the base of a checkout, *)
(* and its base is afterwards led down merged pull requests.               *)
LEMMA OnlyGrants ==
  ASSUME TypeOK, RunsAreStaged, [Next]_vars,
         NEW i \in Issue, run[i].pc = "pool", run'[i].pc # "pool"
  PROVE  i = walk.root /\ \E b \in Branch : Grant(b)
<1>1. ASSUME NEW j \in Issue, run[j].pc # "pool", Returns(j) PROVE FALSE
  BY <1>1, RunReturned
<1>2. ASSUME NEW j \in Issue, Push(j) \/ ReconcileBase(j) \/ Publish(j) PROVE FALSE
  BY <1>2 DEF Push, ReconcileBase, Publish, TypeOK
<1>3. ~Checkout
  BY DEF Checkout, RunsAreStaged, TypeOK
<1>4. ASSUME NEW b \in Branch, Grant(b) PROVE i = walk.root
  BY <1>4 DEF Grant, TypeOK
<1> QED BY <1>1, <1>2, <1>3, <1>4, RunMoves

LEMMA CheckoutRuns ==
  ASSUME TypeOK, RunsAreStaged, Checkout
  PROVE  /\ walk.root \in Issue /\ run'[walk.root].base = walk.base
         /\ \A i \in Issue : i # walk.root => run'[i] = run[i]
<1>1. walk.root \in Issue
      /\ run' = [run EXCEPT ![walk.root] = [pc |-> "working", base |-> walk.base,
                                            cut |-> work[walk.base]]]
  BY DEF Checkout, RunsAreStaged
<1> QED BY <1>1 DEF TypeOK

LEMMA RunBases ==
  ASSUME TypeOK, RunsAreStaged, [Next]_vars, NEW i \in Issue
  PROVE  \/ run'[i].base \in {run[i].base, Default} \cup LiveBases(run[i].base)
         \/ Checkout /\ i = walk.root /\ run'[i].base = walk.base
<1>1. ASSUME NEW j \in Issue, Returns(j) PROVE run'[i].base \in {run[i].base, Default}
  <2>1. /\ \A l \in Issue \ {j} : run'[l] = run[l]
        /\ run'[j].base = Default
    BY <1>1, RunReturned
  <2> QED BY <2>1
<1>2. ASSUME NEW b \in Branch, Grant(b) PROVE run'[i].base = run[i].base
  BY <1>2 DEF Grant, TypeOK, RunState
<1>3. ASSUME NEW j \in Issue, Push(j) \/ Publish(j) PROVE run'[i].base = run[i].base
  BY <1>3 DEF Push, Publish, TypeOK, RunState
<1>4. ASSUME NEW j \in Issue, ReconcileBase(j)
      PROVE  run'[i].base \in {run[i].base} \cup LiveBases(run[i].base)
  <2>1. PICK base \in Branch :
          ShipBase(j, base) /\ run' = [run EXCEPT ![j].pc = "publish", ![j].base = base]
    BY <1>4 DEF ReconcileBase
  <2>2. run'[i].base = run[i].base \/ (i = j /\ run'[j].base = base)
    BY <2>1 DEF TypeOK, RunState
  <2> QED BY <2>1, <2>2 DEF ShipBase
<1> QED BY <1>1, <1>2, <1>3, <1>4, RunMoves, CheckoutRuns

LEMMA RunWorks ==
  ASSUME TypeOK, RunsAreStaged, [Next]_vars, NEW i \in Issue, run'[i].pc = "working"
  PROVE  \/ run[i].pc = "working" /\ run'[i].base = run[i].base
         \/ Checkout /\ i = walk.root /\ run'[i].base = walk.base
<1>1. ASSUME NEW j \in Issue, Returns(j) PROVE run'[i] = run[i]
  BY <1>1, RunReturned
<1>2. ASSUME NEW b \in Branch, Grant(b) PROVE run'[i] = run[i]
  BY <1>2 DEF Grant, TypeOK, RunState
<1>3. ASSUME NEW j \in Issue, Push(j) \/ ReconcileBase(j) \/ Publish(j) PROVE run'[i] = run[i]
  BY <1>3 DEF Push, ReconcileBase, Publish, TypeOK, RunState
<1> QED BY <1>1, <1>2, <1>3, RunMoves, CheckoutRuns

(* What is granted has its go-ahead, and keeps it.                         *)
LEMMA NextKeepsGrants ==
  ASSUME TypeOK, WalkInvariant, RunsAreStaged, WorkLands, WalkHolds, GrantsHold, Forward,
         [Next]_vars
  PROVE  GrantsHold'
<1> SUFFICES ASSUME NEW i \in Issue, run'[i].pc # "pool"
             PROVE  i \notin ClosureOf(blockedBy, i)
                    /\ \A b \in ClosureOf(blockedBy, i) : b \in Issue /\ Settled(b)
  BY DEF GrantsHold, Forward
<1>1. CASE run[i].pc # "pool"
  BY <1>1 DEF GrantsHold
<1>2. CASE run[i].pc = "pool"
  <2>1. i = walk.root /\ Resolved
    BY <1>2, OnlyGrants DEF Grant
  <2>2. walk.pc = "resolve"
    BY <2>1 DEF Resolved
  <2>3. Blockers \subseteq Issue /\ i \notin Blockers /\ ClosureOf(blockedBy, i) = Blockers
    BY <2>1, <2>2, BlockersAreClosure
  <2>4. \A b \in Blockers : Settled(b)
    BY <2>1, ResolvedBlockers
  <2> QED BY <2>3, <2>4
<1> QED BY <1>1, <1>2

(* Where the bases of a pull request and of a walk come from.             *)
LEMMA PullBases ==
  ASSUME TypeOK, [Next]_vars, NEW i \in Issue
  PROVE  \/ pull'[i].base = pull[i].base
         \/ pull'[i].base = run[i].base
         \/ /\ pull[i].base \in Issue /\ pull[pull[i].base].state = "open"
            /\ pull'[i].base = pull[pull[i].base].base
<1>1. CASE WalkStep \/ ResolveStep \/ Start
  <2>1. UNCHANGED pull
    BY <1>1, ReadsSpare DEF github
  <2> QED BY <2>1
<1>2. ASSUME NEW j \in Issue, Session(j) \/ RunFails(j)
      PROVE  pull'[i].base \in {pull[i].base, run[i].base}
  <2>1. CASE Publish(j)
    BY <2>1 DEF Publish, TypeOK, GitHubTypes
  <2>2. CASE ~Publish(j)
    BY <1>2, <2>2 DEF Session, Push, ReconcileBase, ShipFails, RunFails, github
  <2> QED BY <2>1, <2>2
<1>3. ASSUME NEW j \in Issue, Human(j)
      PROVE  \/ pull'[i].base = pull[i].base
             \/ pull[i].base = j /\ pull[j].state = "open" /\ pull'[i].base = pull[j].base
  <2> USE DEF TypeOK, GitHubTypes, Pull
  <2>1. CASE Approve(j) \/ Reject(j)
    <3>1. PICK a \in BOOLEAN : pull' = [pull EXCEPT ![j].approved = a]
      BY <2>1 DEF Approve, Reject
    <3> QED BY <3>1
  <2>2. CASE Merge(j)
    BY <2>2 DEF Merge
  <2>3. CASE Complete(j) \/ Abandon(j) \/ DeleteBranch(j)
    BY <2>3 DEF Complete, Abandon, DeleteBranch
  <2> QED BY <1>3, <2>1, <2>2, <2>3 DEF Human
<1>4. CASE UNCHANGED vars \/ \E j \in Issue, b \in Issue \cup {Foreign} : EditEdge(j, b)
  <2>1. UNCHANGED pull
    BY <1>4 DEF vars, EditEdge
  <2> QED BY <2>1
<1> QED BY <1>1, <1>2, <1>3, <1>4 DEF Next

LEMMA WalkBases ==
  ASSUME TypeOK, [Next]_vars
  PROVE  \/ walk'.base = Default /\ walk'.pc # "checkout"
         \/ walk'.base = walk.base /\ walk'.root = walk.root /\ walk'.pc = walk.pc
         \/ walk'.base = walk.base /\ walk'.pc # "checkout"
         \/ \E b \in Branch : DeriveBase(b) /\ walk'.base = b /\ walk'.root = walk.root
<1> USE DEF TypeOK, WalkTypes, Walk
<1>1. ASSUME ClearWalk PROVE walk'.base = Default /\ walk'.pc # "checkout"
  BY <1>1 DEF ClearWalk, NoWalk
<1>2. CASE WalkStep
  <2>1. CASE ReadBlockers \/ Leave
    BY <2>1 DEF ReadBlockers, Leave
  <2>2. CASE ReadForeign \/ ReadFails
    BY <1>1, <2>2 DEF ReadForeign, ReadFails, NoGoAhead
  <2>3. ASSUME NEW b \in Issue, VisitCycle(b) PROVE walk'.base = Default /\ walk'.pc # "checkout"
    BY <1>1, <2>3 DEF VisitCycle, NoGoAhead
  <2>4. ASSUME NEW b \in Issue, VisitDone(b) \/ VisitNew(b)
        PROVE  walk'.base = walk.base /\ walk'.pc # "checkout"
    BY <2>4 DEF VisitDone, VisitNew
  <2> QED BY <1>2, <2>1, <2>2, <2>3, <2>4 DEF WalkStep
<1>3. CASE ResolveStep
  <2>1. CASE ResolveNone \/ CheckoutFails \/ Checkout
    BY <1>1, <2>1 DEF ResolveNone, CheckoutFails, Checkout, NoGoAhead
  <2>2. ASSUME NEW b \in Issue, ReadPull(b) PROVE walk' = walk
    BY <2>2 DEF ReadPull
  <2>3. ASSUME NEW b \in Issue, ReadPullWaits(b) PROVE walk'.base = Default /\ walk'.pc # "checkout"
    BY <1>1, <2>3 DEF ReadPullWaits
  <2>4. ASSUME NEW b \in Branch, DeriveBase(b) PROVE walk'.base = b /\ walk'.root = walk.root
    BY <2>4 DEF DeriveBase
  <2>5. ASSUME NEW b \in Branch, Grant(b) PROVE walk'.base = Default /\ walk'.pc # "checkout"
    BY <1>1, <2>5 DEF Grant
  <2> QED BY <1>3, <2>1, <2>2, <2>3, <2>4, <2>5 DEF ResolveStep
<1>4. CASE Start
  BY <1>4 DEF Start, StartPass, Consider, StartRun, StartWalk, NoWalk
<1>5. ASSUME NEW j \in Issue, Session(j) \/ RunFails(j) PROVE walk' = walk
  BY <1>5 DEF Session, Push, ReconcileBase, Publish, ShipFails, RunFails
<1>6. ASSUME NEW j \in Issue, Human(j) PROVE walk' = walk
  BY <1>6 DEF Human, Approve, Reject, Merge, Complete, Abandon, DeleteBranch, internal
<1>7. CASE UNCHANGED vars \/ \E j \in Issue, b \in Issue \cup {Foreign} : EditEdge(j, b)
  BY <1>7 DEF vars, EditEdge, internal
<1> QED BY <1>2, <1>3, <1>4, <1>5, <1>6, <1>7 DEF Next

LEMMA DefaultLives == LiveBases(Default) \subseteq {Default}
<1> DEFINE next == [d \in Branch |-> MergedInto(d)]
<1>1. next[Default] = {} /\ DOMAIN next = Branch /\ Default \in Branch
  BY DEF MergedInto, Exists, Branch
<1>2. ReachedFrom({Default}, next) \subseteq {Default}
  <2> HIDE DEF next
  <2> QED BY <1>1 DEF ReachedFrom
<1> QED BY <1>2 DEF LiveBases

(* A driver that walks without chaining reads its blockers as completed.   *)
LEMMA DriverReads ==
  ASSUME TypeOK, RunsAreStaged, MemoHolds, WalkHolds, UnchainedHolds, ~chaining, [Next]_vars,
         walk'.by = "driver", NEW b \in Issue
  PROVE  seen'[b] \in {None, "completed"}
<1> USE DEF TypeOK, WalkTypes, Walk
<1>1. walk.by = "driver" => seen[b] \in {None, "completed"}
  BY DEF UnchainedHolds
<1>2. ASSUME ClearWalk PROVE FALSE
  BY <1>2 DEF ClearWalk, NoWalk
<1>3. ASSUME UNCHANGED seen, walk'.by = walk.by PROVE seen'[b] \in {None, "completed"}
  BY <1>1, <1>3
<1>4. CASE ReadBlockers
  <2> DEFINE i == walk.at
             reply == Reads("blocked", i, ListBlockedBy(i))
  <2>1. /\ i \in Issue /\ walk.pc = "read" /\ walk.by = "driver" /\ i \in Walked
        /\ walk.root \in Issue /\ run[walk.root].pc = "granted"
    BY <1>4 DEF ReadBlockers, RunsAreStaged, Walked
  <2> HIDE DEF TypeOK, WalkTypes, Walk
  <2>2. DOMAIN reply = blockedBy[i] /\ \A c \in blockedBy[i] \cap Issue : reply[c] = status[c]
    BY <2>1, ReadsHold
  <2>3. seen'[b] = IF b \in DOMAIN reply /\ seen[b] = None THEN reply[b] ELSE seen[b]
    BY <1>4 DEF ReadBlockers
  <2> HIDE DEF reply, i
  <2>4. CASE b \in blockedBy[i]
    <3>1. b \in ClosureOf(blockedBy, walk.root)
      BY <2>1, <2>4, WalkedIssues
    <3>2. status[b] = "completed"
      BY <2>1, <3>1 DEF UnchainedHolds
    <3> QED BY <1>1, <2>1, <2>2, <2>3, <2>4, <3>2
  <2>5. CASE b \notin blockedBy[i]
    BY <1>1, <2>1, <2>2, <2>3, <2>5
  <2> QED BY <2>4, <2>5
<1>5. CASE WalkStep
  <2>1. CASE ReadForeign \/ ReadFails
    BY <1>2, <2>1 DEF ReadForeign, ReadFails, NoGoAhead
  <2>2. CASE Leave
    BY <1>3, <2>2 DEF Leave
  <2>3. ASSUME NEW c \in Issue, VisitCycle(c) PROVE FALSE
    BY <1>2, <2>3 DEF VisitCycle, NoGoAhead
  <2>4. ASSUME NEW c \in Issue, VisitDone(c) \/ VisitNew(c) PROVE UNCHANGED seen /\ walk'.by = walk.by
    BY <2>4 DEF VisitDone, VisitNew
  <2> QED BY <1>3, <1>4, <1>5, <2>1, <2>2, <2>3, <2>4 DEF WalkStep
<1>6. CASE ResolveStep
  <2>1. CASE ResolveNone \/ CheckoutFails \/ Checkout
    BY <1>2, <2>1 DEF ResolveNone, CheckoutFails, Checkout, NoGoAhead
  <2>2. ASSUME NEW c \in Issue, ReadPull(c) PROVE UNCHANGED seen /\ walk'.by = walk.by
    BY <2>2 DEF ReadPull
  <2>3. ASSUME NEW c \in Issue, ReadPullWaits(c) PROVE FALSE
    BY <1>2, <2>3 DEF ReadPullWaits
  <2>4. ASSUME NEW c \in Branch, DeriveBase(c) PROVE UNCHANGED seen /\ walk'.by = walk.by
    BY <2>4 DEF DeriveBase, closure
  <2>5. ASSUME NEW c \in Branch, Grant(c) PROVE FALSE
    BY <1>2, <2>5 DEF Grant
  <2> QED BY <1>3, <1>6, <2>1, <2>2, <2>3, <2>4, <2>5 DEF ResolveStep
<1>7. CASE Start
  <2>1. CASE StartPass
    BY <1>3, <2>1 DEF StartPass, closure
  <2>2. ASSUME NEW i \in Issue, Consider(i) \/ StartRun(i) PROVE seen'[b] = None
    BY <2>2 DEF Consider, StartRun, StartWalk, Unread
  <2> QED BY <1>7, <2>1, <2>2 DEF Start
<1>8. ASSUME NEW j \in Issue, Session(j) \/ RunFails(j) PROVE UNCHANGED seen /\ walk'.by = walk.by
  BY <1>8 DEF Session, Push, ReconcileBase, Publish, ShipFails, RunFails, closure
<1>9. ASSUME NEW j \in Issue, Human(j) PROVE UNCHANGED seen /\ walk'.by = walk.by
  BY <1>9 DEF Human, Approve, Reject, Merge, Complete, Abandon, DeleteBranch, internal
<1>10. CASE UNCHANGED vars \/ \E j \in Issue, c \in Issue \cup {Foreign} : EditEdge(j, c)
  BY <1>3, <1>10 DEF vars, EditEdge, internal
<1> QED BY <1>3, <1>5, <1>6, <1>7, <1>8, <1>9, <1>10 DEF Next

LEMMA NextKeepsUnchained ==
  ASSUME TypeOK, WalkInvariant, RunsAreStaged, WorkLands, MemoHolds, WalkHolds, UnchainedHolds,
         GrantsHold', Forward, [Next]_vars
  PROVE  UnchainedHolds'
<1> SUFFICES ASSUME ~chaining
             PROVE  /\ \A i \in Issue : /\ run'[i].base = Default /\ pull'[i].base = Default
                                        /\ run'[i].pc # "pool" =>
                                             \A b \in ClosureOf(blockedBy, i) : status'[b] = "completed"
                    /\ walk'.base = Default
                    /\ walk'.by = "driver" => \A b \in Issue : seen'[b] \in {None, "completed"}
  BY DEF UnchainedHolds, Forward
<1>1. walk.base = Default /\ \A i \in Issue : run[i].base = Default /\ pull[i].base = Default
  BY DEF UnchainedHolds
<1>2. ASSUME NEW i \in Issue PROVE run'[i].base = Default /\ pull'[i].base = Default
  <2>1. run'[i].base = Default
    BY <1>1, RunBases, DefaultLives
  <2>2. pull'[i].base = Default
    BY <1>1, PullBases, DependenciesAssumption
  <2> QED BY <2>1, <2>2
<1>3. walk'.base = Default
  <2>1. ASSUME NEW b \in Branch, DeriveBase(b) PROVE b = Default
    <3>1. Base(b) /\ walk.by = "driver" /\ walk.pc = "resolve"
      BY <2>1 DEF DeriveBase, Resolved
    <3>2. walk.root \in Issue
      BY <3>1 DEF RunsAreStaged
    <3>3. \A c \in Blockers : c \in Issue /\ seen[c] \in {None, "completed"}
      BY <3>1, <3>2, BlockersAreClosure DEF UnchainedHolds
    <3>4. OpenBlockers = {}
      BY <3>3, DependenciesAssumption DEF OpenBlockers, Status
    <3> QED BY <3>1, <3>4 DEF Base
  <2> QED BY <1>1, <2>1, WalkBases
<1>4. ASSUME NEW i \in Issue, run'[i].pc # "pool", NEW b \in ClosureOf(blockedBy, i)
      PROVE  status'[b] = "completed"
  <2>1. status[b] = "completed"
    <3>1. CASE run[i].pc # "pool"
      BY <3>1 DEF UnchainedHolds
    <3>2. CASE run[i].pc = "pool"
      <4>1. PICK c \in Branch : Grant(c)
        BY <1>4, <3>2, OnlyGrants
      <4>2. i = walk.root /\ Resolved /\ Base(c) /\ walk.by = "dispatch" /\ walk.pc = "resolve"
        BY <1>4, <3>2, <4>1, OnlyGrants DEF Grant, Resolved
      <4>3. OpenBlockers = {}
        BY <4>2 DEF Base
      <4>4. b \in Blockers
        BY <4>2, BlockersAreClosure
      <4> QED BY <4>2, <4>3, <4>4, ResolvedBlockers
    <3> QED BY <3>1, <3>2
  <2>2. b \in Issue
    BY <1>4 DEF GrantsHold, Forward
  <2> QED BY <2>1, <2>2 DEF Forward
<1> QED BY <1>2, <1>3, <1>4, DriverReads

LEMMA NextKeepsStart ==
  ASSUME TypeOK, WalkInvariant, DiffInvariant, StartInvariant, [Next]_vars
  PROVE  StartInvariant'
<1>1. /\ left'.edit <= MaxEdit /\ left'.reject <= MaxReject
      /\ Undisturbed' => Undisturbed /\ Forward /\ WorkLands'
  BY NextForward DEF GoesForward
<1>2. RunsAreStaged
  BY DEF DiffInvariant
<1>3. ASSUME Undisturbed, Forward, WorkLands'
      PROVE  MemoHolds' /\ WalkHolds' /\ GrantsHold' /\ UnchainedHolds'
  <2>1. WorkLands /\ MemoHolds /\ WalkHolds /\ GrantsHold /\ UnchainedHolds
    BY <1>3 DEF StartInvariant
  <2>2. MemoHolds'
    BY <1>3, <2>1, NextKeepsMemo
  <2>3. WalkHolds'
    BY <1>2, <1>3, <2>1, NextKeepsWalk
  <2>4. GrantsHold'
    BY <1>2, <1>3, <2>1, NextKeepsGrants
  <2>5. UnchainedHolds'
    BY <1>2, <1>3, <2>1, <2>4, NextKeepsUnchained
  <2> QED BY <2>2, <2>3, <2>4, <2>5
<1> QED BY <1>1, <1>3 DEF StartInvariant

LEMMA InitStart == Init => StartInvariant
<1> SUFFICES ASSUME Init PROVE StartInvariant
  OBVIOUS
<1> USE DEF Init, InPool, NoPull, NoWalk, Unread, NoMemo
<1>1. left.edit <= MaxEdit /\ left.reject <= MaxReject
  BY DependenciesAssumption
<1>2. WorkLands /\ MemoHolds /\ GrantsHold
  BY DependenciesAssumption DEF WorkLands, MemoHolds, GrantsHold, Status
<1>3. WalkHolds
  BY DependenciesAssumption DEF WalkHolds, Walked, Done, OnPath, Status
<1>4. UnchainedHolds
  BY DEF UnchainedHolds
<1> QED BY <1>1, <1>2, <1>3, <1>4 DEF StartInvariant

(* Unless a human withdraws it, what dispatch grants and a Run works on has*)
(* its go-ahead: every blocker in its closure merged or approved           *)
(* (grant_work, _derive_checkout_base), though the closure is read one call*)
(* at a time and partly from the memo of the pass; and where merge settings*)
(* forbid chaining, every base is the default branch (chain_preconditions).*)
THEOREM WorkStartsInOrder == Spec => []StartsInOrder
<1>1. Init => TypeOK /\ WalkInvariant /\ DiffInvariant /\ StartInvariant
  BY InitType, InitWalk, InitDiff, InitStart
<1>2. TypeOK /\ WalkInvariant /\ DiffInvariant /\ StartInvariant /\ [Next]_vars
        => TypeOK' /\ WalkInvariant' /\ DiffInvariant' /\ StartInvariant'
  BY NextType, NextKeeps, NextKeepsDiff, NextKeepsStart
<1>3. StartInvariant => StartsInOrder
  <2> SUFFICES ASSUME StartInvariant PROVE StartsInOrder
    OBVIOUS
  <2>1. GoAheadHolds
    BY ClosureName DEF GoAheadHolds, StartInvariant, GrantsHold, Settled, GoAheadPull
  <2>2. UnchainedWaits
    BY DEF UnchainedWaits, StartInvariant, UnchainedHolds
  <2> QED BY <2>1, <2>2 DEF StartsInOrder
<1> QED BY <1>1, <1>2, <1>3, PTL DEF Spec

----------------------------------------------------------------------------
(* NoWorkDropped. First the branches below a branch, given the pull        *)
(* requests p, and the work w in them.                                     *)
BelowOf(p, b) == ReachedFrom({b}, [c \in Branch |-> IF c = Default THEN {} ELSE {p[c].base}])
WorkBelow(p, w, b) == UNION {w[c] : c \in BelowOf(p, b)}
Based(p) == \A c \in Issue : p[c].base \in Branch

LEMMA BelowIs ==
  ASSUME NEW p, Based(p), NEW b \in Branch
  PROVE  /\ BelowOf(p, b) \subseteq Branch /\ b \in BelowOf(p, b)
         /\ \A c \in BelowOf(p, b) : c \in Issue => p[c].base \in BelowOf(p, b)
<1> DEFINE next == [c \in Branch |-> IF c = Default THEN {} ELSE {p[c].base}]
<1>1. next \in [Branch -> SUBSET Branch] /\ {b} \in SUBSET Branch
      /\ \A c \in Issue : c \in Branch /\ next[c] = {p[c].base}
  BY DependenciesAssumption DEF Branch, Based
<1>2. BelowOf(p, b) = ReachedFrom({b}, next)
  BY DEF BelowOf
<1> HIDE DEF next
<1>3. /\ ReachedFrom({b}, next) \subseteq Branch /\ {b} \subseteq ReachedFrom({b}, next)
      /\ \A x \in ReachedFrom({b}, next) : next[x] \subseteq ReachedFrom({b}, next)
  BY <1>1, ReachClosed
<1> QED BY <1>1, <1>2, <1>3, ZenonT(60)

LEMMA BelowLeast ==
  ASSUME NEW p, Based(p), NEW b \in Branch, NEW S \in SUBSET Branch, b \in S,
         \A c \in S : c \in Issue => p[c].base \in S
  PROVE  BelowOf(p, b) \subseteq S
<1> DEFINE next == [c \in Branch |-> IF c = Default THEN {} ELSE {p[c].base}]
<1>1. next \in [Branch -> SUBSET Branch] /\ {b} \in SUBSET Branch /\ \A c \in S : next[c] \subseteq S
  BY DEF Branch, Based
<1>2. BelowOf(p, b) = ReachedFrom({b}, next)
  BY DEF BelowOf
<1> HIDE DEF next
<1> QED BY <1>1, <1>2, ReachLeast

LEMMA BelowNests ==
  ASSUME NEW p, Based(p), NEW b \in Branch, NEW c \in BelowOf(p, b)
  PROVE  BelowOf(p, c) \subseteq BelowOf(p, b)
BY BelowIs, BelowLeast

(* A branch is above itself and what is below its base.                    *)
LEMMA BelowBase ==
  ASSUME NEW p, Based(p), NEW b \in Issue
  PROVE  BelowOf(p, b) \subseteq {b} \cup BelowOf(p, p[b].base)
         /\ BelowOf(p, p[b].base) \subseteq BelowOf(p, b)
<1>1. b \in Branch /\ p[b].base \in Branch
  BY DEF Branch, Based
<1>2. /\ {b} \cup BelowOf(p, p[b].base) \in SUBSET Branch /\ p[b].base \in BelowOf(p, p[b].base)
      /\ \A c \in BelowOf(p, p[b].base) : c \in Issue => p[c].base \in BelowOf(p, p[b].base)
  BY <1>1, BelowIs
<1>3. BelowOf(p, b) \subseteq {b} \cup BelowOf(p, p[b].base)
  BY <1>1, <1>2, BelowLeast, ZenonT(60)
<1>4. p[b].base \in BelowOf(p, b)
  BY <1>1, BelowIs
<1> QED BY <1>1, <1>3, <1>4, BelowNests

(* Pull requests that differ in no base below b.                           *)
LEMMA BelowSame ==
  ASSUME NEW p, NEW q, Based(p), Based(q), NEW b \in Branch,
         \A c \in BelowOf(p, b) : c \in Issue => q[c].base = p[c].base
  PROVE  BelowOf(q, b) = BelowOf(p, b)
<1>1. /\ BelowOf(p, b) \in SUBSET Branch /\ b \in BelowOf(p, b)
      /\ \A c \in BelowOf(p, b) : c \in Issue => q[c].base \in BelowOf(p, b)
  BY BelowIs
<1>2. BelowOf(q, b) \subseteq BelowOf(p, b)
  BY <1>1, BelowLeast
<1>3. /\ BelowOf(q, b) \in SUBSET Branch /\ b \in BelowOf(q, b)
      /\ \A c \in BelowOf(q, b) : c \in Issue => p[c].base \in BelowOf(q, b)
  BY <1>2, BelowIs
<1>4. BelowOf(p, b) \subseteq BelowOf(q, b)
  BY <1>3, BelowLeast
<1> QED BY <1>2, <1>4

(* k is merged into B and what was on k moves to B: k alone may be left    *)
(* out below a branch, and then B is below it.                             *)
LEMMA BelowMoves ==
  ASSUME NEW p, NEW q, Based(p), Based(q), NEW k \in Issue, NEW B \in Branch,
         p[k].base = B, q[k].base = B,
         \A j \in Issue : q[j].base = p[j].base \/ (p[j].base = k /\ q[j].base = B),
         NEW b \in Branch
  PROVE  /\ BelowOf(q, b) \subseteq BelowOf(p, b)
         /\ BelowOf(p, b) \subseteq BelowOf(q, b) \cup {k}
         /\ k \in BelowOf(p, b) => B \in BelowOf(q, b)
<1>1. /\ BelowOf(p, b) \in SUBSET Branch /\ b \in BelowOf(p, b)
      /\ \A c \in BelowOf(p, b) : c \in Issue => p[c].base \in BelowOf(p, b)
  BY BelowIs
<1>2. \A c \in BelowOf(p, b) : c \in Issue => q[c].base \in BelowOf(p, b)
  BY <1>1
<1>3. BelowOf(q, b) \subseteq BelowOf(p, b)
  BY <1>1, <1>2, BelowLeast
<1> DEFINE S == BelowOf(q, b) \cup {j \in {k} : B \in BelowOf(q, b)}
<1>4. /\ BelowOf(q, b) \in SUBSET Branch /\ b \in BelowOf(q, b) /\ k \in Branch
      /\ \A c \in BelowOf(q, b) : c \in Issue => q[c].base \in BelowOf(q, b)
  BY BelowIs DEF Branch
<1>5. S \in SUBSET Branch /\ b \in S
  BY <1>4
<1>6. ASSUME NEW c \in S, c \in Issue PROVE p[c].base \in S
  BY <1>4, <1>6
<1>7. BelowOf(p, b) \subseteq S
  <2> HIDE DEF S
  <2> QED BY <1>5, <1>6, BelowLeast
<1>8. k \in S => B \in BelowOf(q, b)
  BY <1>4
<1> QED BY <1>3, <1>7, <1>8

(* What c is built on, b, is below c: its work, and the branches that may  *)
(* still get more.                                                         *)
BuiltOn(p, w, c, b) ==
  /\ WorkBelow(p, w, b) \subseteq WorkBelow(p, w, c)
  /\ \A d \in BelowOf(p, b) : d = Default \/ p[d].state # "merged" => d \in BelowOf(p, c)

(* Bases lead down to the default branch; an open pull request is on a     *)
(* branch that is not yet merged, and what was merged is below its base.   *)
BranchesHold ==
  /\ \A b \in Branch : Default \in BelowOf(pull, b)
  /\ \A i \in Issue :
       /\ pull[i].state # "none" => i \in work[i]
       /\ pull[i].state = "open" => pull[i].base = Default \/ pull[pull[i].base].state = "open"
       /\ pull[i].state = "merged" =>
            i \notin branches /\ work[i] \subseteq WorkBelow(pull, work, pull[i].base)

(* Bases are blockers.                                                     *)
BasesAreBlockers ==
  /\ \A i \in Issue : /\ pull[i].base \in ClosureOf(blockedBy, i) \cup {Default}
                      /\ run[i].base \in ClosureOf(blockedBy, i) \cup {Default}
  /\ walk.pc = "checkout" => walk.base \in ClosureOf(blockedBy, walk.root) \cup {Default}

(* What a driver read of a chain, the base it derived from it, and the base*)
(* a Run works on.                                                         *)
ChainHolds ==
  /\ walk.by = "driver" =>
       \A c \in Issue : read[c] # None =>
         Shipped(read[c].base) /\ BuiltOn(pull, work, c, read[c].base)
  /\ walk.pc = "checkout" =>
       ClosureOf(blockedBy, walk.root) \subseteq WorkBelow(pull, work, walk.base)
  /\ \A i \in Issue : run[i].pc = "working" =>
       ClosureOf(blockedBy, i) \subseteq WorkBelow(pull, work, run[i].base)

WorkInvariant == Undisturbed => BranchesHold /\ BasesAreBlockers /\ ChainHolds

(* Undisturbed, the branches and pull requests change by these steps only. *)
LEMMA BranchesMove ==
  ASSUME TypeOK, StartInvariant, Undisturbed', [Next]_vars
  PROVE  \/ UNCHANGED <<pull, work, branches>>
         \/ \E k \in Issue : Push(k) \/ Publish(k) \/ Approve(k) \/ Merge(k)
<1>1. left.edit <= MaxEdit /\ left.reject <= MaxReject
  BY DEF StartInvariant
<1>2. ~Spend("edit") /\ ~Spend("reject")
  BY <1>1, SpendDisturbs DEF Budget
<1>3. CASE WalkStep \/ ResolveStep \/ Start
  BY <1>3, ReadsSpare DEF github
<1>4. ASSUME NEW i \in Issue, Session(i) \/ RunFails(i)
      PROVE  UNCHANGED <<pull, work, branches>> \/ Push(i) \/ Publish(i)
  BY <1>4 DEF Session, ReconcileBase, ShipFails, RunFails, github
<1>5. ASSUME NEW i \in Issue, Human(i)
      PROVE  UNCHANGED <<pull, work, branches>> \/ Approve(i) \/ Merge(i)
  <2>1. CASE Reject(i) \/ Abandon(i)
    BY <1>2, <2>1 DEF Reject, Abandon
  <2>2. CASE Complete(i)
    BY <2>2 DEF Complete
  <2>3. CASE DeleteBranch(i)
    <3>1. pull[i].state = "closed" /\ left' = left
      BY <2>3 DEF DeleteBranch
    <3>2. Undisturbed
      BY <3>1 DEF Undisturbed
    <3> QED BY <3>1, <3>2 DEF StartInvariant, WorkLands
  <2> QED BY <1>5, <2>1, <2>2, <2>3 DEF Human
<1>6. CASE UNCHANGED vars
  BY <1>6 DEF vars
<1>7. ASSUME NEW i \in Issue, NEW b \in Issue \cup {Foreign}, EditEdge(i, b) PROVE FALSE
  BY <1>2, <1>7 DEF EditEdge
<1> QED BY <1>3, <1>4, <1>5, <1>6, <1>7 DEF Next

(* A published branch is on published ones.                                *)
LEMMA BelowShipped ==
  ASSUME TypeOK, BasesAreShipped, NEW b \in Branch
  PROVE  /\ Based(pull) /\ BelowOf(pull, b) \subseteq Branch
         /\ \A c \in BelowOf(pull, b) : c = b \/ Shipped(c)
<1>1. Based(pull)
  BY DEF Based, TypeOK, GitHubTypes, Pull
<1> DEFINE S == {c \in Branch : c = b \/ Shipped(c)}
<1>2. S \in SUBSET Branch /\ b \in S /\ \A c \in S : c \in Issue => pull[c].base \in S
  BY <1>1 DEF BasesAreShipped, Based
<1>3. BelowOf(pull, b) \subseteq S
  <2> HIDE DEF S
  <2> QED BY <1>1, <1>2, BelowLeast
<1> QED BY <1>1, <1>3

(* What is below a published branch grows, and so does what is below what  *)
(* is built on it.                                                         *)
WorkGrows(p, w, q, v) ==
  /\ \A b \in Branch : Shipped(b) => WorkBelow(p, w, b) \subseteq WorkBelow(q, v, b)
  /\ \A b, c \in Branch :
       Shipped(b) /\ Shipped(c) /\ BuiltOn(p, w, c, b) => BuiltOn(q, v, c, b)

(* The bases and the work below what is published are left alone.          *)
LEMMA SameGrows ==
  ASSUME TypeOK, BasesAreShipped, NEW q, NEW v, Based(q),
         \A c \in Issue : /\ Shipped(c) => q[c].base = pull[c].base
                          /\ q[c].state = "merged" <=> pull[c].state = "merged",
         \A c \in Branch : Shipped(c) => v[c] = work[c]
  PROVE  WorkGrows(pull, work, q, v)
<1>1. \A b \in Branch : Shipped(b) => \A c \in BelowOf(pull, b) : c \in Branch /\ Shipped(c)
  BY BelowShipped
<1>2. ASSUME NEW b \in Branch, Shipped(b)
      PROVE  BelowOf(q, b) = BelowOf(pull, b) /\ WorkBelow(q, v, b) = WorkBelow(pull, work, b)
  <2>1. \A c \in BelowOf(pull, b) : c \in Issue => q[c].base = pull[c].base
    BY <1>1, <1>2
  <2>2. BelowOf(q, b) = BelowOf(pull, b)
    BY <2>1, BelowSame, BelowShipped
  <2> QED BY <1>1, <1>2, <2>2 DEF WorkBelow
<1>3. ASSUME NEW b \in Branch, NEW c \in Branch, Shipped(b), Shipped(c), BuiltOn(pull, work, c, b)
      PROVE  BuiltOn(q, v, c, b)
  <2>1. BelowOf(q, b) = BelowOf(pull, b) /\ BelowOf(q, c) = BelowOf(pull, c)
        /\ WorkBelow(q, v, b) = WorkBelow(pull, work, b) /\ WorkBelow(q, v, c) = WorkBelow(pull, work, c)
    BY <1>2, <1>3
  <2>2. \A d \in BelowOf(pull, b) : d = Default \/ d \in Issue
    BY <1>1, <1>3 DEF Branch
  <2> QED BY <1>3, <2>1, <2>2 DEF BuiltOn
<1> QED BY <1>2, <1>3 DEF WorkGrows

LEMMA PushGrows ==
  ASSUME TypeOK, DiffInvariant, NEW k \in Issue, Push(k), BranchesHold
  PROVE  WorkGrows(pull, work, pull', work') /\ BranchesHold'
<1>1. /\ run[k].pc = "working" /\ UNCHANGED pull /\ work' = [work EXCEPT ![k] = run[k].cut \cup {k}]
      /\ branches' = branches \cup {k}
  BY DEF Push
<1>2. ~Shipped(k) /\ pull[k].state = "none"
  BY <1>1, DependenciesAssumption DEF DiffInvariant, RunsAreStaged, Shipped
<1>3. \A c \in Branch : Shipped(c) => work'[c] = work[c]
  BY <1>1, <1>2 DEF TypeOK, GitHubTypes
<1>4. BasesAreShipped /\ Based(pull)
  BY DEF DiffInvariant, Based, TypeOK, GitHubTypes, Pull
<1>5. WorkGrows(pull, work, pull, work')
  BY <1>3, <1>4, SameGrows
<1>6. \A i \in Issue : pull[i].state # "none" =>
        i # k /\ Shipped(i) /\ i \in Branch /\ Shipped(pull[i].base) /\ pull[i].base \in Branch
  BY <1>2, <1>4 DEF Shipped, Branch, BasesAreShipped, Based
<1>7. ASSUME NEW i \in Issue
      PROVE  /\ pull[i].state # "none" => i \in work'[i]
             /\ pull[i].state = "merged" =>
                  i \notin branches' /\ work'[i] \subseteq WorkBelow(pull, work', pull[i].base)
  <2>1. /\ pull[i].state # "none" => i \in work[i]
        /\ pull[i].state = "merged" =>
             i \notin branches /\ work[i] \subseteq WorkBelow(pull, work, pull[i].base)
    BY DEF BranchesHold
  <2> QED BY <1>1, <1>3, <1>5, <1>6, <2>1 DEF WorkGrows
<1>8. BranchesHold'
  BY <1>1, <1>7 DEF BranchesHold
<1> QED BY <1>1, <1>5, <1>8

LEMMA ApproveGrows ==
  ASSUME TypeOK, DiffInvariant, NEW k \in Issue, Approve(k), BranchesHold
  PROVE  WorkGrows(pull, work, pull', work') /\ BranchesHold'
<1>1. pull' = [pull EXCEPT ![k].approved = TRUE] /\ UNCHANGED <<work, branches>>
  BY DEF Approve
<1>2. \A i \in Issue : pull'[i].state = pull[i].state /\ pull'[i].base = pull[i].base
  BY <1>1 DEF TypeOK, GitHubTypes, Pull
<1>3. BasesAreShipped /\ Based(pull) /\ Based(pull')
  BY <1>2 DEF DiffInvariant, Based, TypeOK, GitHubTypes, Pull
<1>4. WorkGrows(pull, work, pull', work)
  BY <1>2, <1>3, SameGrows
<1>5. \A b \in Branch : BelowOf(pull', b) = BelowOf(pull, b)
  BY <1>2, <1>3, BelowSame
<1>6. \A b \in Branch : WorkBelow(pull', work, b) = WorkBelow(pull, work, b)
  BY <1>5 DEF WorkBelow
<1>7. \A i \in Issue : pull[i].base \in Branch /\ (pull[i].base # Default => pull[i].base \in Issue)
  BY <1>3 DEF Based, Branch
<1>8. ASSUME NEW i \in Issue
      PROVE  /\ pull'[i].state # "none" => i \in work[i]
             /\ pull'[i].state = "open" => pull'[i].base = Default \/ pull'[pull'[i].base].state = "open"
             /\ pull'[i].state = "merged" =>
                  i \notin branches /\ work[i] \subseteq WorkBelow(pull', work, pull'[i].base)
  <2>1. pull'[i].base = pull[i].base /\ pull'[i].state = pull[i].state
        /\ WorkBelow(pull', work, pull[i].base) = WorkBelow(pull, work, pull[i].base)
        /\ (pull[i].base # Default => pull'[pull[i].base].state = pull[pull[i].base].state)
    BY <1>2, <1>6, <1>7
  <2> QED BY <2>1 DEF BranchesHold
<1>9. \A b \in Branch : Default \in BelowOf(pull', b)
  BY <1>5 DEF BranchesHold
<1> QED BY <1>1, <1>4, <1>8, <1>9 DEF BranchesHold

LEMMA PublishGrows ==
  ASSUME TypeOK, DiffInvariant, WorkLands, NEW k \in Issue, Publish(k), BranchesHold
  PROVE  WorkGrows(pull, work, pull', work') /\ BranchesHold'
<1> DEFINE B == run[k].base
<1>1. /\ run[k].pc = "publish" /\ (B = Default \/ B \in branches) /\ UNCHANGED <<work, branches>>
      /\ pull' = [pull EXCEPT ![k] = [state |-> "open", base |-> B, approved |-> FALSE]]
  BY DEF Publish, Exists
<1>2. ~Shipped(k) /\ pull[k].state = "none"
  BY <1>1, DependenciesAssumption DEF DiffInvariant, RunsAreStaged, Shipped
<1>3. BasesAreShipped /\ Based(pull) /\ B \in Branch /\ Shipped(B) /\ B # k
  BY <1>2 DEF DiffInvariant, BasesAreShipped, Based, TypeOK, GitHubTypes, Pull, RunState
<1>4. /\ pull'[k].state = "open" /\ pull'[k].base = B
      /\ \A i \in Issue : i # k => pull'[i] = pull[i]
  BY <1>1 DEF TypeOK, GitHubTypes
<1>5. k \in work[k]
  BY <1>1 DEF DiffInvariant, CutsAreHeld
<1> HIDE DEF B
<1>6. Based(pull')
  BY <1>3, <1>4 DEF Based
<1>7. \A i \in Issue : /\ Shipped(i) => i # k /\ pull'[i] = pull[i]
                       /\ pull'[i].state = "merged" <=> pull[i].state = "merged"
  BY <1>2, <1>4
<1>8. WorkGrows(pull, work, pull', work)
  BY <1>3, <1>6, <1>7, SameGrows
<1>9. ASSUME NEW b \in Branch, b # k PROVE BelowOf(pull', b) = BelowOf(pull, b)
  <2>1. \A c \in BelowOf(pull, b) : c # k
    BY <1>2, <1>3, <1>9, BelowShipped
  <2>2. \A c \in BelowOf(pull, b) : c \in Issue => pull'[c].base = pull[c].base
    BY <1>4, <2>1
  <2> QED BY <1>3, <1>6, <2>2, BelowSame
<1>10. \A b \in Branch : b # k => WorkBelow(pull', work, b) = WorkBelow(pull, work, b)
  BY <1>9 DEF WorkBelow
<1>11. \A b \in Branch : Default \in BelowOf(pull', b)
  <2>1. \A b \in Branch : b # k => Default \in BelowOf(pull', b)
    BY <1>9 DEF BranchesHold
  <2>2. BelowOf(pull', B) \subseteq BelowOf(pull', k)
    BY <1>4, <1>6, BelowBase
  <2> QED BY <1>3, <2>1, <2>2
<1>12. B = Default \/ (pull[B].state = "open" /\ B \in Issue)
  <2>1. B \in Issue => pull[B].state \in {"open", "merged", "closed"} /\ pull[B].state # "closed"
    BY <1>3, DependenciesAssumption DEF Shipped, TypeOK, GitHubTypes, Pull, WorkLands
  <2> QED BY <1>1, <1>3, <2>1 DEF Branch, BranchesHold
<1>13. ASSUME NEW i \in Issue, i # k
       PROVE  /\ pull'[i] = pull[i] /\ pull[i].base \in Branch /\ Shipped(pull[i].base)
              /\ pull[i].base # k /\ (pull[i].base # Default => pull[i].base \in Issue)
  BY <1>2, <1>3, <1>4, <1>13 DEF Based, BasesAreShipped, Branch
<1>14. ASSUME NEW i \in Issue
       PROVE  /\ pull'[i].state # "none" => i \in work[i]
              /\ pull'[i].state = "open" => pull'[i].base = Default \/ pull'[pull'[i].base].state = "open"
              /\ pull'[i].state = "merged" =>
                   i \notin branches /\ work[i] \subseteq WorkBelow(pull', work, pull'[i].base)
  <2>1. CASE i = k
    BY <1>3, <1>4, <1>5, <1>12, <2>1
  <2>2. CASE i # k
    <3>1. /\ pull'[i] = pull[i] /\ pull[i].base \in Branch /\ Shipped(pull[i].base)
          /\ pull[i].base # k /\ (pull[i].base # Default => pull'[pull[i].base] = pull[pull[i].base])
      BY <1>4, <1>13, <2>2
    <3> QED BY <1>10, <3>1 DEF BranchesHold
  <2> QED BY <2>1, <2>2
<1> QED BY <1>1, <1>8, <1>11, <1>14 DEF BranchesHold

LEMMA MergeGrows ==
  ASSUME TypeOK, DiffInvariant, GrantsHold, BasesAreBlockers, NEW k \in Issue, Merge(k), BranchesHold
  PROVE  WorkGrows(pull, work, pull', work') /\ BranchesHold'
<1> DEFINE B == pull[k].base
<1>1. /\ pull[k].state = "open" /\ B \in Branch /\ branches' = branches \ {k}
      /\ work' = [work EXCEPT ![B] = @ \cup work[k]]
  BY DEF Merge, TypeOK, GitHubTypes, Pull
<1>2. /\ pull'[k].state = "merged" /\ pull'[k].base = B
      /\ \A j \in Issue : j # k => pull'[j].state = pull[j].state
      /\ \A j \in Issue : j # k /\ pull[j].state = "open" /\ pull[j].base = k => pull'[j].base = B
      /\ \A j \in Issue : j # k /\ ~(pull[j].state = "open" /\ pull[j].base = k) => pull'[j] = pull[j]
  BY DEF Merge, TypeOK, GitHubTypes, Pull
<1>3. /\ work'[B] = work[B] \cup work[k]
      /\ \A b \in Branch : b # B => work'[b] = work[b]
      /\ \A b \in Branch : work[b] \subseteq work'[b]
  BY <1>1 DEF TypeOK, GitHubTypes
<1>4. B # k
  <2>1. k \notin ClosureOf(blockedBy, k)
    BY <1>1 DEF DiffInvariant, RunsAreStaged, GrantsHold
  <2> QED BY <2>1, DependenciesAssumption DEF BasesAreBlockers
<1>5. B = Default \/ (B \in Issue /\ pull[B].state = "open")
  BY <1>1 DEF BranchesHold, Branch
<1>6. Based(pull) /\ B \in Branch
  BY DEF Based, TypeOK, GitHubTypes, Pull
<1> HIDE DEF B
<1>7. pull[k].base = B
  BY DEF B
<1>8. \A j \in Issue : pull'[j].base = pull[j].base \/ (pull[j].base = k /\ pull'[j].base = B)
  BY <1>2, <1>7
<1>9. Based(pull')
  BY <1>6, <1>8 DEF Based
<1>10. ASSUME NEW b \in Branch
       PROVE  /\ BelowOf(pull', b) \subseteq BelowOf(pull, b)
              /\ BelowOf(pull, b) \subseteq BelowOf(pull', b) \cup {k}
              /\ k \in BelowOf(pull, b) => B \in BelowOf(pull', b)
              /\ BelowOf(pull, b) \subseteq Branch
  BY <1>2, <1>6, <1>7, <1>8, <1>9, BelowMoves, BelowIs
<1>11. ASSUME NEW b \in Branch
       PROVE  WorkBelow(pull, work, b) \subseteq WorkBelow(pull', work', b)
  <2> SUFFICES ASSUME NEW c \in BelowOf(pull, b), NEW x \in work[c]
               PROVE  \E d \in BelowOf(pull', b) : x \in work'[d]
    BY DEF WorkBelow
  <2>1. CASE c = k
    BY <1>3, <1>10, <2>1
  <2>2. CASE c # k
    BY <1>3, <1>10, <2>2
  <2> QED BY <2>1, <2>2
<1>12. ASSUME NEW b \in Branch, NEW c \in Branch, BuiltOn(pull, work, c, b)
       PROVE  BuiltOn(pull', work', c, b)
  <2>1. ASSUME NEW d \in BelowOf(pull', b), d = Default \/ pull'[d].state # "merged"
        PROVE  d \in BelowOf(pull', c)
    <3>1. d \in BelowOf(pull, b) /\ d \in Branch
      BY <1>10
    <3>2. d # k
      BY <1>2, <2>1, DependenciesAssumption
    <3>3. d = Default \/ pull[d].state # "merged"
      BY <1>2, <2>1, <3>1, <3>2 DEF Branch
    <3> QED BY <1>10, <1>12, <3>1, <3>2, <3>3 DEF BuiltOn
  <2>2. ASSUME NEW d \in BelowOf(pull', b), NEW x \in work'[d]
        PROVE  x \in WorkBelow(pull', work', c)
    <3>1. d \in BelowOf(pull, b) /\ d \in Branch
      BY <1>10
    <3>2. CASE d = B
      <4>1. d = Default \/ pull'[d].state # "merged"
        BY <1>2, <1>4, <1>5, <3>2
      <4> QED BY <2>1, <2>2, <4>1 DEF WorkBelow
    <3>3. CASE d # B
      <4>1. x \in WorkBelow(pull, work, c)
        BY <1>3, <1>12, <2>2, <3>1, <3>3 DEF BuiltOn, WorkBelow
      <4> QED BY <1>11, <4>1
    <3> QED BY <3>2, <3>3
  <2>3. WorkBelow(pull', work', b) \subseteq WorkBelow(pull', work', c)
    BY <2>2 DEF WorkBelow
  <2> QED BY <2>1, <2>3 DEF BuiltOn
<1>13. \A b \in Branch : Default \in BelowOf(pull', b)
  <2>1. Default # k
    BY DependenciesAssumption
  <2> QED BY <1>10, <2>1 DEF BranchesHold
<1>14. ASSUME NEW i \in Issue
       PROVE  /\ pull'[i].state # "none" => i \in work'[i]
              /\ pull'[i].state = "open" => pull'[i].base = Default \/ pull'[pull'[i].base].state = "open"
              /\ pull'[i].state = "merged" =>
                   i \notin branches' /\ work'[i] \subseteq WorkBelow(pull', work', pull'[i].base)
  <2>1. i \in Branch /\ pull[i].base \in Branch
    BY <1>6 DEF Based, Branch
  <2>2. pull'[i].state # "none" => i \in work'[i]
    BY <1>1, <1>2, <1>3, <2>1 DEF BranchesHold
  <2>3. ASSUME pull'[i].state = "open"
        PROVE  pull'[i].base = Default \/ pull'[pull'[i].base].state = "open"
    <3>1. i # k /\ pull[i].state = "open"
      BY <1>2, <2>3
    <3>2. CASE pull[i].base = k
      BY <1>2, <1>4, <1>5, <3>1, <3>2
    <3>3. CASE pull[i].base # k
      <4>1. pull'[i].base = pull[i].base
        BY <1>8, <3>3
      <4> QED BY <1>2, <2>1, <3>1, <3>3, <4>1 DEF BranchesHold, Branch
    <3> QED BY <3>2, <3>3
  <2>4. ASSUME pull'[i].state = "merged"
        PROVE  i \notin branches' /\ work'[i] \subseteq WorkBelow(pull', work', pull'[i].base)
    <3>1. CASE i = k
      <4>1. work'[k] = work[k] /\ work[k] \subseteq work'[B]
        BY <1>3, <1>4, <2>1, <3>1
      <4>2. B \in BelowOf(pull', B)
        BY <1>6, <1>9, BelowIs
      <4> QED BY <1>1, <1>2, <3>1, <4>1, <4>2 DEF WorkBelow
    <3>2. CASE i # k
      <4>1. pull[i].state = "merged" /\ pull'[i] = pull[i] /\ i # B
        BY <1>2, <1>5, <2>4, <3>2, DependenciesAssumption
      <4>2. work'[i] = work[i] /\ i \notin branches /\ work[i] \subseteq WorkBelow(pull, work, pull[i].base)
        BY <1>3, <2>1, <4>1 DEF BranchesHold
      <4> QED BY <1>1, <1>11, <2>1, <4>1, <4>2
    <3> QED BY <3>1, <3>2
  <2> QED BY <2>2, <2>3, <2>4
<1>15. BranchesHold'
  BY <1>13, <1>14 DEF BranchesHold
<1> QED BY <1>11, <1>12, <1>15 DEF WorkGrows

(* What is below what was built on grows, and bases still lead down.       *)
LEMMA NextKeepsBranches ==
  ASSUME TypeOK, DiffInvariant, StartInvariant, Undisturbed, Undisturbed', [Next]_vars,
         BranchesHold, BasesAreBlockers
  PROVE  WorkGrows(pull, work, pull', work') /\ BranchesHold'
<1>1. WorkLands /\ GrantsHold
  BY DEF StartInvariant
<1>2. CASE UNCHANGED <<pull, work, branches>>
  BY <1>2 DEF WorkGrows, BranchesHold
<1>3. ASSUME NEW k \in Issue, Push(k) \/ Publish(k) \/ Approve(k) \/ Merge(k)
      PROVE  WorkGrows(pull, work, pull', work') /\ BranchesHold'
  BY <1>1, <1>3, PushGrows, PublishGrows, ApproveGrows, MergeGrows
<1> QED BY <1>2, <1>3, BranchesMove

(* The base of a Run is led down through blockers.                         *)
LEMMA LiveBasesAreBlockers ==
  ASSUME TypeOK, BasesAreBlockers, NEW i \in Issue
  PROVE  LiveBases(run[i].base) \subseteq ClosureOf(blockedBy, i) \cup {Default}
<1> DEFINE next == [d \in Branch |-> MergedInto(d)]
           S == {d \in Branch : d \in ClosureOf(blockedBy, i) \cup {Default}}
<1>1. blockedBy \in [Issue -> SUBSET (Issue \cup {Foreign})] /\ run[i].base \in Branch
      /\ \A d \in Issue : pull[d].base \in Branch
  BY DEF TypeOK, GitHubTypes, RunState, Pull
<1>2. ASSUME NEW d \in S PROVE MergedInto(d) \subseteq S
  <2>1. CASE d = Default
    BY <2>1 DEF MergedInto, Exists
  <2>2. CASE d # Default
    <3>1. d \in Issue /\ d \in ClosureOf(blockedBy, i)
      BY <2>2 DEF Branch
    <3>2. ClosureOf(blockedBy, d) \subseteq ClosureOf(blockedBy, i)
      BY <1>1, <3>1, ClosureNest
    <3>3. pull[d].base \in S
      BY <1>1, <3>1, <3>2 DEF BasesAreBlockers
    <3> QED BY <3>3 DEF MergedInto
  <2> QED BY <2>1, <2>2
<1>3. run[i].base \in S /\ S \in SUBSET Branch
  BY <1>1 DEF BasesAreBlockers
<1>4. next \in [Branch -> SUBSET Branch]
  BY <1>1 DEF MergedInto, Branch, Exists
<1>5. \A d \in S : next[d] \subseteq S
  BY <1>2
<1>6. LiveBases(run[i].base) \subseteq ReachedFrom({run[i].base}, next)
  BY DEF LiveBases
<1> HIDE DEF next, S
<1>7. {run[i].base} \in SUBSET Branch /\ {run[i].base} \subseteq S
  BY <1>1, <1>3
<1>8. ReachedFrom({run[i].base}, next) \subseteq S
  BY <1>3, <1>4, <1>5, <1>7, ReachLeast
<1> QED BY <1>6, <1>8 DEF S

LEMMA NextKeepsBases ==
  ASSUME TypeOK, WalkInvariant, RunsAreStaged, WalkHolds, BasesAreBlockers,
         UNCHANGED blockedBy, [Next]_vars
  PROVE  BasesAreBlockers'
<1>1. blockedBy \in [Issue -> SUBSET (Issue \cup {Foreign})]
  BY DEF TypeOK, GitHubTypes
<1>2. ASSUME NEW i \in Issue
      PROVE  /\ pull'[i].base \in ClosureOf(blockedBy, i) \cup {Default}
             /\ run'[i].base \in ClosureOf(blockedBy, i) \cup {Default}
  <2>1. pull'[i].base \in ClosureOf(blockedBy, i) \cup {Default}
    <3>1. CASE /\ pull[i].base \in Issue
               /\ pull'[i].base = pull[pull[i].base].base
      <4>1. pull[i].base \in ClosureOf(blockedBy, i)
        BY <3>1, DependenciesAssumption DEF BasesAreBlockers
      <4>2. ClosureOf(blockedBy, pull[i].base) \subseteq ClosureOf(blockedBy, i)
        BY <1>1, <3>1, <4>1, ClosureNest
      <4> QED BY <3>1, <4>2 DEF BasesAreBlockers
    <3>2. CASE pull'[i].base \in {pull[i].base, run[i].base}
      BY <3>2 DEF BasesAreBlockers
    <3> QED BY <3>1, <3>2, PullBases
  <2>2. Checkout => walk.pc = "checkout"
    BY DEF Checkout
  <2> QED BY <2>1, <2>2, RunBases, LiveBasesAreBlockers DEF BasesAreBlockers
<1>3. ASSUME NEW b \in Branch, DeriveBase(b)
      PROVE  b \in ClosureOf(blockedBy, walk.root) \cup {Default}
  <2>1. walk.pc = "resolve" /\ (b = Default \/ b \in OpenBlockers)
    BY <1>3 DEF DeriveBase, Resolved, Base
  <2>2. walk.root \in Issue
    BY <2>1 DEF RunsAreStaged
  <2>3. ClosureOf(blockedBy, walk.root) = Blockers
    BY <2>1, <2>2, BlockersAreClosure
  <2> QED BY <2>1, <2>3 DEF OpenBlockers
<1>4. walk'.pc = "checkout" => walk'.base \in ClosureOf(blockedBy, walk'.root) \cup {Default}
  BY <1>3, WalkBases DEF BasesAreBlockers
<1> QED BY <1>2, <1>4 DEF BasesAreBlockers

(* A pull request that was published stays so.                             *)
LEMMA PublishedStays ==
  ASSUME TypeOK, [Next]_vars, NEW i \in Issue, pull[i].state # "none"
  PROVE  pull'[i].state # "none"
<1>1. CASE WalkStep \/ ResolveStep \/ Start
  BY <1>1, ReadsSpare DEF github
<1>2. ASSUME NEW j \in Issue, Session(j) \/ RunFails(j) PROVE pull'[i].state # "none"
  <2>1. CASE Publish(j)
    BY <2>1 DEF Publish, TypeOK, GitHubTypes
  <2>2. CASE ~Publish(j)
    BY <1>2, <2>2 DEF Session, Push, ReconcileBase, ShipFails, RunFails, github
  <2> QED BY <2>1, <2>2
<1>3. ASSUME NEW j \in Issue, Human(j) PROVE pull'[i].state # "none"
  BY <1>3, HumanKeepsShipped
<1>4. CASE UNCHANGED vars \/ \E j \in Issue, b \in Issue \cup {Foreign} : EditEdge(j, b)
  BY <1>4 DEF vars, EditEdge
<1> QED BY <1>1, <1>2, <1>3, <1>4 DEF Next

(* The base a driver derives has all blockers below it: the open ones by   *)
(* the chain it read, and what was merged was merged into a blocker or into*)
(* the default branch.                                                     *)
LEMMA DerivedBase ==
  ASSUME TypeOK, WalkInvariant, DiffInvariant, WorkLands, WalkHolds,
         BranchesHold, BasesAreBlockers, ChainHolds, NEW b \in Branch, DeriveBase(b)
  PROVE  ClosureOf(blockedBy, walk.root) \subseteq WorkBelow(pull, work, b)
<1> DEFINE root == walk.root
           Good == {y \in Branch : WorkBelow(pull, work, y) \subseteq WorkBelow(pull, work, b)}
<1>1. walk.pc = "resolve" /\ Resolved /\ Base(b) /\ walk.by = "driver" /\ root \in Issue
  BY DEF DeriveBase, Resolved, DiffInvariant, RunsAreStaged
<1>2. Blockers \subseteq Issue /\ ClosureOf(blockedBy, root) = Blockers
  BY <1>1, BlockersAreClosure
<1>3. \A y \in Blockers : /\ Settled(y)
                          /\ y \in OpenBlockers => read[y] # None
                          /\ y \notin OpenBlockers => pull[y].state = "merged"
  BY <1>1, ResolvedBlockers
<1>4. OpenBlockers \subseteq Blockers /\ Blockers \subseteq Branch
  BY <1>2 DEF OpenBlockers, Branch
<1>5. Based(pull) /\ Default \in Branch
  BY DEF Based, TypeOK, GitHubTypes, Pull, Branch
<1>6. blockedBy \in [Issue -> SUBSET (Issue \cup {Foreign})]
  BY DEF TypeOK, GitHubTypes
<1> HIDE DEF root
<1>7. b \in Good
  OBVIOUS
<1>8. Default \in Good
  <2>1. BelowOf(pull, Default) \subseteq BelowOf(pull, b)
    BY <1>5, BelowNests DEF BranchesHold
  <2> QED BY <1>5, <2>1 DEF WorkBelow
<1>9. OpenBlockers \subseteq Good
  <2>1. CASE OpenBlockers = {}
    BY <2>1
  <2>2. CASE OpenBlockers # {}
    <3> DEFINE next == [y \in OpenBlockers |-> {read[y].base} \cap OpenBlockers]
               S == OpenBlockers \cap Good
    <3>1. b \in OpenBlockers /\ Chain(b) = OpenBlockers
      BY <1>1, <2>2 DEF Base, SingleChain
    <3>2. Chain(b) = ReachedFrom({b}, next)
      BY DEF Chain
    <3>3. ASSUME NEW y \in S, NEW z \in next[y] PROVE z \in S
      <4>1. z = read[y].base /\ z \in OpenBlockers /\ y \in Issue
        BY <1>2, <1>4, <3>3
      <4>2. BuiltOn(pull, work, y, z)
        BY <1>1, <1>3, <1>4, <4>1 DEF ChainHolds
      <4>3. WorkBelow(pull, work, z) \subseteq WorkBelow(pull, work, b)
        BY <3>3, <4>2 DEF BuiltOn
      <4> QED BY <1>4, <4>1, <4>3
    <3>4. next \in [OpenBlockers -> SUBSET OpenBlockers]
      OBVIOUS
    <3>5. {b} \in SUBSET OpenBlockers /\ {b} \subseteq S /\ S \in SUBSET OpenBlockers
      BY <1>7, <3>1
    <3> HIDE DEF next
    <3>6. \A y \in S : next[y] \subseteq S
      BY <3>3
    <3> HIDE DEF S
    <3>7. ReachedFrom({b}, next) \subseteq S
      BY <3>4, <3>5, <3>6, ReachLeast
    <3> QED BY <3>1, <3>2, <3>7 DEF S
  <2> QED BY <2>1, <2>2
<1>10. ASSUME NEW x \in Blockers PROVE x \in Good
  <2> DEFINE T == Blockers \ Good
  <2> SUFFICES ASSUME x \in T PROVE FALSE
    OBVIOUS
  <2>1. ASSUME NEW y \in T PROVE pull[y].base \in T
    <3>1. /\ y \in Issue /\ y \notin OpenBlockers /\ pull[y].state = "merged" /\ y \in Branch
          /\ pull[y].base \in Branch
      BY <1>2, <1>3, <1>4, <1>5, <1>9 DEF Based
    <3>2. pull[y].base \in Blockers \cup {Default}
      <4>1. ClosureOf(blockedBy, y) \subseteq Blockers
        <5>1. root \in Issue /\ y \in ClosureOf(blockedBy, root)
          BY <1>1, <1>2
        <5> QED BY <1>2, <1>6, <3>1, <5>1, ClosureNest
      <4> QED BY <3>1, <4>1 DEF BasesAreBlockers
    <3>3. ASSUME pull[y].base \in Good PROVE y \in Good
      <4>1. work[y] \subseteq WorkBelow(pull, work, pull[y].base)
        BY <3>1 DEF BranchesHold
      <4>2. BelowOf(pull, y) \subseteq {y} \cup BelowOf(pull, pull[y].base)
        BY <1>5, <3>1, BelowBase
      <4>3. WorkBelow(pull, work, y) \subseteq WorkBelow(pull, work, pull[y].base)
        BY <4>1, <4>2 DEF WorkBelow
      <4> QED BY <3>1, <3>3, <4>3
    <3> QED BY <1>8, <3>2, <3>3
  <2>2. T \in SUBSET Branch /\ x \in Branch /\ Default \notin T
    BY <1>2, <1>4, DependenciesAssumption
  <2> HIDE DEF T
  <2>3. BelowOf(pull, x) \subseteq T
    BY <1>5, <2>1, <2>2, BelowLeast
  <2> QED BY <2>2, <2>3 DEF BranchesHold
<1>11. ASSUME NEW x \in Blockers PROVE x \in WorkBelow(pull, work, b)
  <2>1. x \in Issue /\ x \in Branch /\ x \in Good /\ pull[x].state # "none"
    BY <1>2, <1>3, <1>4, <1>10 DEF Settled, GoAheadPull
  <2>2. x \in work[x] /\ x \in BelowOf(pull, x)
    BY <1>5, <2>1, BelowIs DEF BranchesHold
  <2>3. x \in WorkBelow(pull, work, x)
    BY <2>2 DEF WorkBelow
  <2> QED BY <2>1, <2>3
<1> QED BY <1>2, <1>11 DEF root

(* A driver reads a pull request of a chain as it is.                      *)
LEMMA DriverPulls ==
  ASSUME TypeOK, [Next]_vars, walk'.by = "driver", NEW c \in Issue, read'[c] # None
  PROVE  \/ walk.by = "driver" /\ read'[c] = read[c]
         \/ pull[c].state = "open" /\ read'[c] = pull[c] /\ UNCHANGED <<pull, work>>
<1> USE DEF TypeOK, WalkTypes, Walk
<1>1. ASSUME ClearWalk PROVE FALSE
  BY <1>1 DEF ClearWalk, NoWalk
<1>2. CASE WalkStep
  <2>1. CASE ReadForeign \/ ReadFails
    BY <1>1, <2>1 DEF ReadForeign, ReadFails, NoGoAhead
  <2>2. CASE ReadBlockers \/ Leave
    BY <2>2 DEF ReadBlockers, Leave
  <2>3. ASSUME NEW b \in Issue, VisitCycle(b) PROVE FALSE
    BY <1>1, <2>3 DEF VisitCycle, NoGoAhead
  <2>4. ASSUME NEW b \in Issue, VisitDone(b) \/ VisitNew(b) PROVE UNCHANGED read /\ walk'.by = walk.by
    BY <2>4 DEF VisitDone, VisitNew
  <2> QED BY <1>2, <2>1, <2>2, <2>3, <2>4 DEF WalkStep
<1>3. CASE ResolveStep
  <2>1. CASE ResolveNone \/ CheckoutFails \/ Checkout
    BY <1>1, <2>1 DEF ResolveNone, CheckoutFails, Checkout, NoGoAhead
  <2>2. ASSUME NEW b \in Issue, ReadPull(b)
        PROVE  \/ walk.by = "driver" /\ read'[c] = read[c]
               \/ pull[c].state = "open" /\ read'[c] = pull[c] /\ UNCHANGED <<pull, work>>
    <3>1. /\ walk.by = "driver" /\ UNCHANGED <<pull, work>>
          /\ Reads("pull", b, FindOpenPr(b)) = FindOpenPr(b) /\ GoAheadPull(FindOpenPr(b))
          /\ read' = [read EXCEPT ![b] = FindOpenPr(b)]
      BY <2>2 DEF ReadPull, Reads, github
    <3>2. FindOpenPr(b) = pull[b] /\ pull[b].state = "open"
      BY <3>1 DEF FindOpenPr, GoAheadPull, NoPull
    <3> QED BY <3>1, <3>2
  <2>3. ASSUME NEW b \in Issue, ReadPullWaits(b) PROVE FALSE
    BY <1>1, <2>3 DEF ReadPullWaits
  <2>4. ASSUME NEW b \in Branch, DeriveBase(b) PROVE UNCHANGED read /\ walk'.by = walk.by
    BY <2>4 DEF DeriveBase
  <2>5. ASSUME NEW b \in Branch, Grant(b) PROVE FALSE
    BY <1>1, <2>5 DEF Grant
  <2> QED BY <1>3, <2>1, <2>2, <2>3, <2>4, <2>5 DEF ResolveStep
<1>4. CASE Start
  BY <1>4 DEF Start, StartPass, Consider, StartRun, StartWalk, Unread
<1>5. ASSUME NEW j \in Issue, Session(j) \/ RunFails(j) PROVE UNCHANGED read /\ walk'.by = walk.by
  BY <1>5 DEF Session, Push, ReconcileBase, Publish, ShipFails, RunFails
<1>6. ASSUME NEW j \in Issue, Human(j) PROVE UNCHANGED read /\ walk'.by = walk.by
  BY <1>6 DEF Human, Approve, Reject, Merge, Complete, Abandon, DeleteBranch, internal
<1>7. CASE UNCHANGED vars \/ \E j \in Issue, b \in Issue \cup {Foreign} : EditEdge(j, b)
  BY <1>7 DEF vars, EditEdge, internal
<1> QED BY <1>2, <1>3, <1>4, <1>5, <1>6, <1>7 DEF Next

LEMMA NextKeepsChain ==
  ASSUME TypeOK, WalkInvariant, DiffInvariant, WorkLands, WalkHolds,
         BranchesHold, BasesAreBlockers, ChainHolds, WorkGrows(pull, work, pull', work'),
         UNCHANGED blockedBy, DiffInvariant', [Next]_vars
  PROVE  ChainHolds'
<1>1. BasesAreShipped /\ RunsAreStaged /\ Shipped(walk.base)
      /\ \A i \in Issue : Shipped(pull[i].base) /\ Shipped(run[i].base)
  BY DEF DiffInvariant, BasesAreShipped
<1>2. \A b : Shipped(b) => b \in Branch
  BY DEF Shipped, Branch
<1>3. \A b : Shipped(b) => b = Default \/ (b \in Issue /\ pull'[b].state # "none")
  BY PublishedStays DEF Shipped
<1>4. Based(pull)
  BY DEF Based, TypeOK, GitHubTypes, Pull
<1>5. ASSUME walk'.by = "driver", NEW c \in Issue, read'[c] # None
      PROVE  /\ \/ read'[c].base = Default
                \/ read'[c].base \in Issue /\ pull'[read'[c].base].state # "none"
             /\ BuiltOn(pull', work', c, read'[c].base)
  <2>1. CASE walk.by = "driver" /\ read'[c] = read[c]
    <3>1. /\ Shipped(c) /\ Shipped(read[c].base) /\ BuiltOn(pull, work, c, read[c].base)
      BY <1>1, <1>5, <2>1 DEF BasesAreShipped, ChainHolds
    <3> QED BY <1>2, <1>3, <2>1, <3>1 DEF WorkGrows
  <2>2. CASE pull[c].state = "open" /\ read'[c] = pull[c] /\ UNCHANGED <<pull, work>>
    <3>1. BelowOf(pull, pull[c].base) \subseteq BelowOf(pull, c)
      BY <1>4, BelowBase
    <3>2. BuiltOn(pull, work, c, pull[c].base)
      BY <3>1 DEF BuiltOn, WorkBelow
    <3> QED BY <1>1, <1>3, <2>2, <3>2
  <2> QED BY <1>5, <2>1, <2>2, DriverPulls
<1>6. ASSUME walk'.pc = "checkout"
      PROVE  ClosureOf(blockedBy, walk'.root) \subseteq WorkBelow(pull', work', walk'.base)
  <2>1. CASE walk'.base = walk.base /\ walk'.root = walk.root /\ walk'.pc = walk.pc
    <3>1. ClosureOf(blockedBy, walk.root) \subseteq WorkBelow(pull, work, walk.base)
      BY <1>6, <2>1 DEF ChainHolds
    <3> QED BY <1>1, <1>2, <2>1, <3>1 DEF WorkGrows
  <2>2. ASSUME NEW b \in Branch, DeriveBase(b), walk'.base = b, walk'.root = walk.root
        PROVE  ClosureOf(blockedBy, walk'.root) \subseteq WorkBelow(pull', work', walk'.base)
    <3>1. UNCHANGED <<pull, work>>
      BY <2>2 DEF DeriveBase, github
    <3> QED BY <2>2, <3>1, DerivedBase
  <2> QED BY <1>6, <2>1, <2>2, WalkBases
<1>7. ASSUME NEW i \in Issue, run'[i].pc = "working"
      PROVE  ClosureOf(blockedBy, i) \subseteq WorkBelow(pull', work', run'[i].base)
  <2>1. CASE run[i].pc = "working" /\ run'[i].base = run[i].base
    <3>1. ClosureOf(blockedBy, i) \subseteq WorkBelow(pull, work, run[i].base)
      BY <2>1 DEF ChainHolds
    <3> QED BY <1>1, <1>2, <2>1, <3>1 DEF WorkGrows
  <2>2. CASE Checkout /\ i = walk.root /\ run'[i].base = walk.base
    <3>1. UNCHANGED <<pull, work>> /\ walk.pc = "checkout"
      BY <2>2 DEF Checkout, github
    <3> QED BY <2>2, <3>1 DEF ChainHolds
  <2> QED BY <1>1, <1>7, <2>1, <2>2, RunWorks
<1>8. blockedBy' = blockedBy
  OBVIOUS
<1> QED BY <1>5, <1>6, <1>7, <1>8 DEF ChainHolds, Shipped

LEMMA NextKeepsWork ==
  ASSUME TypeOK, WalkInvariant, DiffInvariant, DiffInvariant', StartInvariant, WorkInvariant,
         [Next]_vars
  PROVE  WorkInvariant'
<1> SUFFICES ASSUME Undisturbed' PROVE BranchesHold' /\ BasesAreBlockers' /\ ChainHolds'
  BY DEF WorkInvariant
<1>1. Undisturbed /\ UNCHANGED blockedBy
  BY NextForward DEF GoesForward, Forward
<1>2. BranchesHold /\ BasesAreBlockers /\ ChainHolds
  BY <1>1 DEF WorkInvariant
<1>3. WorkLands /\ WalkHolds /\ RunsAreStaged
  BY <1>1 DEF StartInvariant, DiffInvariant
<1>4. WorkGrows(pull, work, pull', work') /\ BranchesHold'
  BY <1>1, <1>2, NextKeepsBranches
<1>5. BasesAreBlockers'
  BY <1>1, <1>2, <1>3, NextKeepsBases
<1>6. ChainHolds'
  BY <1>1, <1>2, <1>3, <1>4, NextKeepsChain
<1> QED BY <1>4, <1>5, <1>6

LEMMA InitWork == Init => WorkInvariant
<1> SUFFICES ASSUME Init PROVE WorkInvariant
  OBVIOUS
<1>1. /\ \A i \in Issue : pull[i].state = "none" /\ pull[i].base = Default
      /\ \A i \in Issue : run[i].base = Default /\ run[i].pc = "pool"
      /\ walk.pc = "idle" /\ walk.by = "dispatch"
  BY DEF Init, NoPull, InPool, NoWalk
<1>2. Based(pull) /\ Default \in Branch
  BY <1>1 DEF Based, Branch
<1>3. ASSUME NEW b \in Branch PROVE Default \in BelowOf(pull, b)
  BY <1>1, <1>2, <1>3, BelowIs DEF Branch
<1>4. BranchesHold
  BY <1>1, <1>3 DEF BranchesHold
<1>5. BasesAreBlockers /\ ChainHolds
  BY <1>1 DEF BasesAreBlockers, ChainHolds
<1> QED BY <1>4, <1>5 DEF WorkInvariant

(* A Run works on a base that drops no blocker's work: all that its issue  *)
(* waits for is in the base or in a branch the base will be merged into,   *)
(* in whatever order the layers of the chain were merged while the driver  *)
(* read them (DependencyClosure, resolve).                                 *)
THEOREM BasesDropNothing == Spec => []NoWorkDropped
<1>1. Init => TypeOK /\ WalkInvariant /\ DiffInvariant /\ StartInvariant /\ WorkInvariant
  BY InitType, InitWalk, InitDiff, InitStart, InitWork
<1>2. TypeOK /\ WalkInvariant /\ DiffInvariant /\ StartInvariant /\ WorkInvariant /\ [Next]_vars
        => TypeOK' /\ WalkInvariant' /\ DiffInvariant' /\ StartInvariant' /\ WorkInvariant'
  BY NextType, NextKeeps, NextKeepsDiff, NextKeepsStart, NextKeepsWork
<1>3. WorkInvariant => NoWorkDropped
  <2> SUFFICES ASSUME WorkInvariant, NEW i \in Issue, Undisturbed, run[i].pc = "working"
               PROVE  LiveClosure(i) \subseteq UNION {work[b] : b \in Below(run[i].base)}
    BY DEF NoWorkDropped
  <2>1. ClosureOf(blockedBy, i) \subseteq WorkBelow(pull, work, run[i].base)
    BY DEF WorkInvariant, ChainHolds
  <2>2. Below(run[i].base) = BelowOf(pull, run[i].base)
    BY DEF Below, BelowOf
  <2> QED BY <2>1, <2>2, ClosureName DEF WorkBelow
<1> QED BY <1>1, <1>2, <1>3, PTL DEF Spec

=============================================================================
