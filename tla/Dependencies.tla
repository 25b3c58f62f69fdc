---------------------------- MODULE Dependencies ----------------------------
(***************************************************************************)
(* Dependency Edges and Chained-Base Runs (ADR-0053). A plan_ready issue is*)
(* granted when every blocker in the closure of its blocked-by relations is*)
(* closed as completed, or when the open ones are approved pull requests   *)
(* that form one chain; its Run is then based on the tip of that chain.    *)
(*                                                                         *)
(* The graph and the pull requests live on GitHub and are read one call at *)
(* a time, by the dispatcher before a grant (with a memo per pass) and by  *)
(* the driver at checkout, while humans edit, approve, merge and close.    *)
(* Branches are modelled by the issues whose work they contain.            *)
(***************************************************************************)
EXTENDS Naturals, Sequences, SequencesExt

CONSTANTS
  Issue,      \* issue numbers of the workspace repository
  Default,    \* the default branch; issue n has the branch ozolith/issue-n, named n
  Foreign,    \* a blocker in another repository
  None,
  Graphs,     \* the blocked-by relations a behaviour may start from
  Chaining,   \* what chain_preconditions may say of the repository's merge settings
  MaxEdit,    \* bound: edits of the relations by a human
  MaxReject,  \* bound: approvals withdrawn and issues abandoned by a human
  MaxFault    \* bound: GitHub reads that raise and Runs that break

Status == {"open", "completed", "not_planned"}

ASSUME DependenciesAssumption ==
  /\ Issue \subseteq Nat
  /\ Default \notin Issue /\ Foreign \notin Issue
  /\ None \notin Issue /\ None \notin Status
  /\ Graphs \subseteq [Issue -> SUBSET (Issue \cup {Foreign})]
  /\ Chaining \subseteq BOOLEAN
  /\ MaxEdit \in Nat /\ MaxReject \in Nat /\ MaxFault \in Nat

VARIABLES
  blockedBy,  \* GitHub: the blocked-by relations of each issue
  status,     \* GitHub: open, or the reason an issue was closed for
  pull,       \* GitHub: the pull request of each issue
  branches,   \* GitHub: the issues whose branch exists
  work,       \* GitHub: the issues whose work each branch contains
  chaining,   \* GitHub: chain_preconditions hold for the merge settings, which stay
  run,        \* the Run of each issue: how far it is, its base and what it started from
  pass,       \* the candidates the grant pass has yet to consider
  memo,       \* _PassReads: the blockers and pull requests this pass has read
  walk,       \* the walk in progress: for whom, of which issue, where it is
  path,       \* walk_closure: on_path
  todo,       \* walk_closure: the blockers each issue on the path has yet to visit
  order,      \* walk_closure: the issues done, in order
  edges,      \* walk_closure: the blockers it read of each issue
  seen,       \* walk_closure: the state it first read of each blocker
  read,       \* resolve: the pull requests it read
  left        \* what is left of each budget

github == <<blockedBy, status, pull, branches, work, chaining>>
closure == <<path, todo, order, edges, seen>>
vars == <<blockedBy, status, pull, branches, work, chaining, run, pass, memo, walk, path, todo,
          order, edges, seen, read, left>>

----------------------------------------------------------------------------
Branch == Issue \cup {Default}
Pull == [state : {"none", "open", "merged", "closed"}, base : Branch, approved : BOOLEAN]
NoPull == [state |-> "none", base |-> Default, approved |-> FALSE]
RunState == [pc : {"pool", "granted", "working", "pushed", "publish", "shipped"},
             base : Branch, cut : SUBSET Issue]
InPool == [pc |-> "pool", base |-> Default, cut |-> {}]
Granted == [InPool EXCEPT !.pc = "granted"]
Walk == [pc : {"idle", "read", "visit", "resolve", "checkout"}, by : {"dispatch", "driver"},
         root : Issue \cup {None}, at : Issue \cup {None}, base : Branch]
NoWalk == [pc |-> "idle", by |-> "dispatch", root |-> None, at |-> None, base |-> Default]
Reply == UNION {[S -> Status] : S \in SUBSET (Issue \cup {Foreign})}
Budget == {"edit", "reject", "fault"}
Unread == [i \in Issue |-> None]

GitHubTypes ==
  /\ blockedBy \in [Issue -> SUBSET (Issue \cup {Foreign})]
  /\ status \in [Issue -> Status]
  /\ pull \in [Issue -> Pull]
  /\ branches \subseteq Issue
  /\ work \in [Branch -> SUBSET Issue]
  /\ chaining \in BOOLEAN

WalkTypes ==
  /\ walk \in Walk /\ (walk.pc = "read" => walk.at \in Issue)
  /\ path \in Seq(Issue) /\ order \in Seq(Issue)
  /\ todo \in [Issue -> SUBSET Issue] /\ edges \in [Issue -> SUBSET Issue]
  /\ seen \in [Issue -> Status \cup {None}]
  /\ read \in [Issue -> {None} \cup Pull]

(* The types of all variables: no blocker of another repository and no     *)
(* missing issue gets into a walk (CrossRepoEdgeError).                    *)
TypeOK ==
  /\ GitHubTypes
  /\ run \in [Issue -> RunState]
  /\ pass \subseteq Issue
  /\ memo \in [blocked : [Issue -> {None} \cup Reply], pull : [Issue -> {None} \cup Pull]]
  /\ WalkTypes
  /\ left \in [Budget -> Nat]

----------------------------------------------------------------------------
(* Branches.                                                               *)

Spend(budget) == left[budget] > 0 /\ left' = [left EXCEPT ![budget] = @ - 1]

(* branch_head answers.                                                    *)
Exists(b) == b = Default \/ b \in branches

(* A failed Run is retried within its claim, or comes back to the pool when*)
(* a human has requeued the issue.                                         *)
Returns(i) == \E back \in {InPool, Granted} : run' = [run EXCEPT ![i] = back]

Least(S) == {n \in S : \A m \in S : n <= m}

(* What a walk along next finds from start: the least set that holds start *)
(* and, with each element, the next ones.                                  *)
ReachedFrom(start, next) ==
  {x \in DOMAIN next : \A S \in SUBSET DOMAIN next :
     start \subseteq S /\ (\A y \in S : next[y] \subseteq S) => x \in S}

----------------------------------------------------------------------------
(* walk_closure: a depth-first walk, blockers in ascending order. Its reads*)
(* go to GitHub, or, in a grant pass, to the memo first.                   *)

NoMemo == [blocked |-> Unread, pull |-> Unread]

(* list_blocked_by: the blockers of an issue, each with its state.         *)
ListBlockedBy(i) == [b \in blockedBy[i] |-> IF b = Foreign THEN "open" ELSE status[b]]

(* One read of GitHub by the walk, or of the memo by a grant pass.         *)
Reads(table, i, answer) ==
  IF walk.by = "dispatch" /\ memo[table][i] # None THEN memo[table][i] ELSE answer
Remember(table, i, answer) ==
  memo' = IF walk.by = "dispatch" THEN [memo EXCEPT ![table][i] = answer] ELSE memo

StartWalk(by, i) ==
  /\ walk' = [NoWalk EXCEPT !.pc = "read", !.by = by, !.root = i, !.at = i]
  /\ path' = <<>> /\ order' = <<>>
  /\ todo' = [j \in Issue |-> {}] /\ edges' = [j \in Issue |-> {}]
  /\ seen' = Unread /\ read' = Unread

ClearWalk ==
  /\ walk' = NoWalk /\ path' = <<>> /\ order' = <<>>
  /\ todo' = [j \in Issue |-> {}] /\ edges' = [j \in Issue |-> {}]
  /\ seen' = Unread /\ read' = Unread

(* The walk has no go-ahead: dispatch skips the candidate (malformed and   *)
(* wait only differ on the dashboard); the Run of a driver fails.          *)
SkipOrFail == IF walk.by = "driver" THEN Returns(walk.root) ELSE UNCHANGED run

NoGoAhead ==
  /\ ClearWalk
  /\ SkipOrFail
  /\ UNCHANGED <<github, pass, memo, left>>

(* A read raises: the grant pass ends, dispatch pauses; the Run fails.     *)
ReadFails ==
  /\ walk.pc \in {"read", "resolve", "checkout"} /\ Spend("fault")
  /\ ClearWalk
  /\ SkipOrFail
  /\ pass' = IF walk.by = "dispatch" THEN {} ELSE pass
  /\ UNCHANGED <<github, memo>>

(* The walk without its cross-repository check.                            *)
ReadBlockersAnyRepo ==
  LET i == walk.at
      reply == Reads("blocked", i, ListBlockedBy(i)) IN
  /\ walk.pc = "read"
  /\ walk' = [walk EXCEPT !.pc = "visit", !.at = None]
  /\ path' = Append(path, i)
  /\ todo' = [todo EXCEPT ![i] = DOMAIN reply]
  /\ edges' = [edges EXCEPT ![i] = DOMAIN reply]
  /\ seen' = [b \in Issue |-> IF b \in DOMAIN reply /\ seen[b] = None THEN reply[b] ELSE seen[b]]
  /\ Remember("blocked", i, reply)
  /\ UNCHANGED <<github, run, pass, order, read, left>>

(* The walk pruned beneath completed blockers.                             *)
ReadBlockersPruned ==
  LET i == walk.at
      reply == Reads("blocked", i, ListBlockedBy(i))
      next == IF seen[i] = "completed" THEN {} ELSE DOMAIN reply IN
  /\ walk.pc = "read"
  /\ Foreign \notin DOMAIN reply
  /\ walk' = [walk EXCEPT !.pc = "visit", !.at = None]
  /\ path' = Append(path, i)
  /\ todo' = [todo EXCEPT ![i] = next] /\ edges' = [edges EXCEPT ![i] = next]
  /\ seen' = [b \in Issue |-> IF b \in next /\ seen[b] = None THEN reply[b] ELSE seen[b]]
  /\ Remember("blocked", i, reply)
  /\ UNCHANGED <<github, run, pass, order, read, left>>

ReadBlockers ==
  LET i == walk.at
      reply == Reads("blocked", i, ListBlockedBy(i)) IN
  /\ walk.pc = "read"
  /\ Foreign \notin DOMAIN reply
  /\ walk' = [walk EXCEPT !.pc = "visit", !.at = None]
  /\ path' = Append(path, i)
  /\ todo' = [todo EXCEPT ![i] = DOMAIN reply]
  /\ edges' = [edges EXCEPT ![i] = DOMAIN reply]
  /\ seen' = [b \in Issue |-> IF b \in DOMAIN reply /\ seen[b] = None THEN reply[b] ELSE seen[b]]
  /\ Remember("blocked", i, reply)
  /\ UNCHANGED <<github, run, pass, order, read, left>>

(* CrossRepoEdgeError.                                                     *)
ReadForeign ==
  /\ walk.pc = "read"
  /\ Foreign \in DOMAIN Reads("blocked", walk.at, ListBlockedBy(walk.at))
  /\ NoGoAhead

Current == path[Len(path)]
Done == {order[k] : k \in 1 .. Len(order)}
OnPath == {path[k] : k \in 1 .. Len(path)}
NextBlocker(b) == b \in Least(todo[Current])

(* visit(blocker): raise on the path, return when done, or read it.        *)
VisitCycle(b) ==
  /\ walk.pc = "visit" /\ path # <<>> /\ NextBlocker(b)
  /\ b \in OnPath
  /\ NoGoAhead

VisitDone(b) ==
  /\ walk.pc = "visit" /\ path # <<>> /\ NextBlocker(b)
  /\ b \notin OnPath /\ b \in Done
  /\ todo' = [todo EXCEPT ![Current] = @ \ {b}]
  /\ UNCHANGED <<github, run, pass, memo, walk, path, order, edges, seen, read, left>>

(* A diamond walked twice.                                                 *)
VisitNewAgain(b) ==
  /\ walk.pc = "visit" /\ path # <<>> /\ NextBlocker(b)
  /\ b \notin OnPath
  /\ todo' = [todo EXCEPT ![Current] = @ \ {b}]
  /\ walk' = [walk EXCEPT !.pc = "read", !.at = b]
  /\ UNCHANGED <<github, run, pass, memo, path, order, edges, seen, read, left>>

VisitNew(b) ==
  /\ walk.pc = "visit" /\ path # <<>> /\ NextBlocker(b)
  /\ b \notin OnPath /\ b \notin Done
  /\ todo' = [todo EXCEPT ![Current] = @ \ {b}]
  /\ walk' = [walk EXCEPT !.pc = "read", !.at = b]
  /\ UNCHANGED <<github, run, pass, memo, path, order, edges, seen, read, left>>

Leave ==
  /\ walk.pc = "visit" /\ path # <<>> /\ todo[Current] = {}
  /\ path' = SubSeq(path, 1, Len(path) - 1)
  /\ order' = Append(order, Current)
  /\ walk' = IF Len(path) = 1 THEN [walk EXCEPT !.pc = "resolve"] ELSE walk
  /\ UNCHANGED <<github, run, pass, memo, todo, edges, seen, read, left>>

----------------------------------------------------------------------------
(* resolve: every blocker completed, or the open ones one approved chain.  *)

Blockers == Done \ {walk.root}
OpenBlockers == {b \in Blockers : seen[b] = "open"}
Malformed == \E b \in Blockers : seen[b] = "not_planned"

(* The open blockers' pull requests are read in the order of the walk.     *)
NextPull(b) ==
  /\ walk.pc = "resolve" /\ ~Malformed
  /\ \E k \in 1 .. Len(order) :
       /\ order[k] = b /\ b \in OpenBlockers /\ read[b] = None
       /\ \A j \in 1 .. k - 1 : order[j] \in OpenBlockers => read[order[j]] # None
AllRead == \A b \in OpenBlockers : read[b] # None

FindOpenPr(b) == IF pull[b].state = "open" THEN pull[b] ELSE NoPull
(* An unreviewed pull request taken for the go-ahead.                      *)
GoAheadPullUnreviewed(p) == p.state = "open"

GoAheadPull(p) == p.state = "open" /\ p.approved

ReadPull(b) ==
  LET reply == Reads("pull", b, FindOpenPr(b)) IN
  /\ NextPull(b) /\ GoAheadPull(reply)
  /\ read' = [read EXCEPT ![b] = reply]
  /\ Remember("pull", b, reply)
  /\ UNCHANGED <<github, run, pass, walk, path, todo, order, edges, seen, left>>

ReadPullWaits(b) ==
  LET reply == Reads("pull", b, FindOpenPr(b)) IN
  /\ NextPull(b) /\ ~GoAheadPull(reply)
  /\ ClearWalk
  /\ Remember("pull", b, reply)
  /\ SkipOrFail
  /\ UNCHANGED <<github, pass, left>>

(* The chain from a blocker down, base by base, until a base outside it.   *)
Chain(tip) ==
  ReachedFrom({tip}, [b \in OpenBlockers |-> {read[b].base} \cap OpenBlockers])
Tips == {b \in OpenBlockers : \A c \in OpenBlockers : read[c].base # b}
SingleChain(tip) ==
  /\ Tips = {tip}
  /\ \A b \in OpenBlockers : read[b].base \in OpenBlockers \cup {Default}
  /\ Chain(tip) = OpenBlockers

(* The tip taken whatever the repository's merge settings.                 *)
BaseUnchecked(b) ==
  \/ OpenBlockers = {} /\ b = Default
  \/ b \in OpenBlockers /\ SingleChain(b)

(* READY on the default branch, or CHAINED on the tip; the merge settings  *)
(* are checked by dispatch alone.                                          *)
Base(b) ==
  \/ OpenBlockers = {} /\ b = Default
  \/ b \in OpenBlockers /\ SingleChain(b) /\ (walk.by = "dispatch" => chaining)

Resolved == walk.pc = "resolve" /\ ~Malformed /\ AllRead

ResolveNone ==
  /\ walk.pc = "resolve"
  /\ Malformed \/ (AllRead /\ \A b \in Branch : ~Base(b))
  /\ NoGoAhead

(* The grant, which ends the pass; the write-through is ClaimProtocol's.   *)
Grant(b) ==
  /\ Resolved /\ Base(b) /\ walk.by = "dispatch"
  /\ run' = [run EXCEPT ![walk.root].pc = "granted"]
  /\ pass' = {}
  /\ ClearWalk
  /\ UNCHANGED <<github, memo, left>>

DeriveBase(b) ==
  /\ Resolved /\ Base(b) /\ walk.by = "driver"
  /\ walk' = [walk EXCEPT !.pc = "checkout", !.base = b]
  /\ UNCHANGED <<github, run, pass, memo, closure, read, left>>

(* The clone of the base; a branch that was deleted meanwhile fails it.    *)
Checkout ==
  /\ walk.pc = "checkout" /\ Exists(walk.base)
  /\ run' = [run EXCEPT ![walk.root] = [pc |-> "working", base |-> walk.base,
                                        cut |-> work[walk.base]]]
  /\ ClearWalk
  /\ UNCHANGED <<github, pass, memo, left>>

CheckoutFails ==
  /\ walk.pc = "checkout" /\ ~Exists(walk.base)
  /\ NoGoAhead

----------------------------------------------------------------------------
(* The callers: the grant pass over the pool, in creation order, and the   *)
(* driver of a granted issue. A walk only reads and its state is its own,  *)
(* so one at a time shows all that walks at the same time would.           *)

Candidates == {i \in Issue : run[i].pc = "pool" /\ status[i] = "open"}

(* A memo kept from pass to pass.                                          *)
StartPassCached ==
  /\ walk.pc = "idle" /\ pass = {} /\ Candidates # {}
  /\ pass' = Candidates
  /\ UNCHANGED <<github, run, memo, walk, closure, read, left>>

StartPass ==
  /\ walk.pc = "idle" /\ pass = {} /\ Candidates # {}
  /\ pass' = Candidates
  /\ memo' = NoMemo
  /\ UNCHANGED <<github, run, walk, closure, read, left>>

Consider(i) ==
  /\ walk.pc = "idle" /\ i \in Least(pass)
  /\ pass' = pass \ {i}
  /\ StartWalk("dispatch", i)
  /\ UNCHANGED <<github, run, memo, left>>

StartRun(i) ==
  /\ walk.pc = "idle" /\ run[i].pc = "granted"
  /\ StartWalk("driver", i)
  /\ UNCHANGED <<github, run, pass, memo, left>>

(* The session ends, and its commits are pushed to the issue's branch (a   *)
(* branch a failed Run left is overwritten).                               *)
Push(i) ==
  /\ run[i].pc = "working"
  /\ run' = [run EXCEPT ![i].pc = "pushed"]
  /\ branches' = branches \cup {i}
  /\ work' = [work EXCEPT ![i] = run[i].cut \cup {i}]
  /\ UNCHANGED <<blockedBy, status, pull, chaining, pass, memo, walk, closure, read, left>>

(* _resolve_deleted_base: from a deleted base down its merged pull requests*)
(* to the first branch that is still there; without merge proof, nowhere.  *)
MergedInto(c) == IF Exists(c) \/ pull[c].state # "merged" THEN {} ELSE {pull[c].base}
LiveBases(b) == {c \in ReachedFrom({b}, [d \in Branch |-> MergedInto(d)]) : Exists(c)}

(* A deleted base taken for merged into the default branch.                *)
ShipBaseGuessed(i, base) ==
  base = IF Exists(run[i].base) THEN run[i].base ELSE Default

(* The base a Run may publish against: live, and holding the commit the Run*)
(* started from when it is not the base it was cut from.                   *)
ShipBase(i, base) ==
  /\ base \in LiveBases(run[i].base)
  /\ base # run[i].base => run[i].cut \subseteq work[base]

ReconcileBase(i) ==
  /\ run[i].pc = "pushed"
  /\ \E base \in Branch :
       /\ ShipBase(i, base)
       /\ run' = [run EXCEPT ![i].pc = "publish", ![i].base = base]
  /\ UNCHANGED <<github, pass, memo, walk, closure, read, left>>

(* create_pr, which GitHub refuses when the base was deleted meanwhile.    *)
Publish(i) ==
  /\ run[i].pc = "publish" /\ Exists(run[i].base)
  /\ pull' = [pull EXCEPT ![i] = [state |-> "open", base |-> run[i].base, approved |-> FALSE]]
  /\ run' = [run EXCEPT ![i].pc = "shipped"]
  /\ UNCHANGED <<blockedBy, status, branches, work, chaining, pass, memo, walk, closure, read, left>>

ShipFails(i) ==
  /\ \/ run[i].pc = "pushed" /\ \A base \in Branch : ~ShipBase(i, base)
     \/ run[i].pc = "publish" /\ ~Exists(run[i].base)
  /\ Returns(i)
  /\ UNCHANGED <<github, pass, memo, walk, closure, read, left>>

RunFails(i) ==
  /\ run[i].pc \in {"working", "pushed", "publish"} /\ Spend("fault")
  /\ Returns(i)
  /\ UNCHANGED <<github, pass, memo, walk, closure, read>>

----------------------------------------------------------------------------
(* Reviewers and humans on GitHub.                                         *)

internal == <<run, pass, memo, walk, path, todo, order, edges, seen, read>>

Approve(i) ==
  /\ pull[i].state = "open" /\ ~pull[i].approved
  /\ pull' = [pull EXCEPT ![i].approved = TRUE]
  /\ UNCHANGED <<blockedBy, status, branches, work, chaining, internal, left>>

Reject(i) ==
  /\ pull[i].state = "open" /\ pull[i].approved /\ Spend("reject")
  /\ pull' = [pull EXCEPT ![i].approved = FALSE]
  /\ UNCHANGED <<blockedBy, status, branches, work, chaining, internal>>

(* A merge commit lands in the base and the branch is deleted; GitHub      *)
(* retargets the pull requests on it, and closes the issue if the base is  *)
(* the default branch.                                                     *)
Merge(i) ==
  LET base == pull[i].base IN
  /\ pull[i].state = "open" /\ pull[i].approved
  /\ work' = [work EXCEPT ![base] = @ \cup work[i]]
  /\ branches' = branches \ {i}
  /\ pull' = [j \in Issue |->
                IF j = i THEN [pull[i] EXCEPT !.state = "merged"]
                ELSE IF pull[j].state = "open" /\ pull[j].base = i
                     THEN [pull[j] EXCEPT !.base = base] ELSE pull[j]]
  /\ status' = IF base = Default THEN [status EXCEPT ![i] = "completed"] ELSE status
  /\ UNCHANGED <<blockedBy, chaining, internal, left>>

(* A human closes an issue whose work was merged into its parent branch.   *)
Complete(i) ==
  /\ status[i] = "open" /\ pull[i].state = "merged"
  /\ status' = [status EXCEPT ![i] = "completed"]
  /\ UNCHANGED <<blockedBy, pull, branches, work, chaining, internal, left>>

Abandon(i) ==
  /\ status[i] = "open" /\ pull[i].state # "merged" /\ Spend("reject")
  /\ status' = [status EXCEPT ![i] = "not_planned"]
  /\ pull' = IF pull[i].state = "open" THEN [pull EXCEPT ![i].state = "closed"] ELSE pull
  /\ UNCHANGED <<blockedBy, branches, work, chaining, internal>>

(* The branch of an abandoned pull request is deleted: GitHub closes the   *)
(* pull requests on it.                                                    *)
DeleteBranch(i) ==
  /\ pull[i].state = "closed" /\ i \in branches
  /\ branches' = branches \ {i}
  /\ pull' = [j \in Issue |-> IF pull[j].state = "open" /\ pull[j].base = i
                             THEN [pull[j] EXCEPT !.state = "closed"] ELSE pull[j]]
  /\ UNCHANGED <<blockedBy, status, work, chaining, internal, left>>

EditEdge(i, b) ==
  /\ i # b /\ Spend("edit")
  /\ blockedBy' = [blockedBy EXCEPT ![i] = IF b \in @ THEN @ \ {b} ELSE @ \cup {b}]
  /\ UNCHANGED <<status, pull, branches, work, chaining, internal>>

----------------------------------------------------------------------------
Init ==
  /\ blockedBy \in Graphs
  /\ status = [i \in Issue |-> "open"]
  /\ pull = [i \in Issue |-> NoPull]
  /\ branches = {}
  /\ work = [b \in Branch |-> {}]
  /\ chaining \in Chaining
  /\ run = [i \in Issue |-> InPool]
  /\ pass = {} /\ memo = NoMemo /\ walk = NoWalk
  /\ path = <<>> /\ order = <<>>
  /\ todo = [j \in Issue |-> {}] /\ edges = [j \in Issue |-> {}]
  /\ seen = Unread /\ read = Unread
  /\ left = [edit |-> MaxEdit, reject |-> MaxReject, fault |-> MaxFault]

WalkStep ==
  \/ ReadBlockers \/ ReadForeign \/ Leave \/ ReadFails
  \/ \E b \in Issue : VisitCycle(b) \/ VisitDone(b) \/ VisitNew(b)

ResolveStep ==
  \/ ResolveNone \/ Checkout \/ CheckoutFails
  \/ \E b \in Issue : ReadPull(b) \/ ReadPullWaits(b)
  \/ \E b \in Branch : Grant(b) \/ DeriveBase(b)

Start == StartPass \/ \E i \in Issue : Consider(i) \/ StartRun(i)

Session(i) == Push(i) \/ ReconcileBase(i) \/ Publish(i) \/ ShipFails(i)

Human(i) ==
  Approve(i) \/ Reject(i) \/ Merge(i) \/ Complete(i) \/ Abandon(i) \/ DeleteBranch(i)

Next ==
  \/ WalkStep \/ ResolveStep \/ Start
  \/ \E i \in Issue : Session(i) \/ RunFails(i) \/ Human(i)
  \/ \E i \in Issue, b \in Issue \cup {Foreign} : EditEdge(i, b)

Spec == Init /\ [][Next]_vars

(* Threads that can move move; Reviewers approve, humans merge what is     *)
(* approved and close what was merged.                                     *)
Fairness ==
  /\ WF_vars(WalkStep \/ ResolveStep)
  /\ WF_vars(StartPass)
  /\ \A i \in Issue : /\ SF_vars(Consider(i)) /\ SF_vars(StartRun(i)) /\ WF_vars(Session(i))
                      /\ WF_vars(Approve(i)) /\ WF_vars(Merge(i)) /\ WF_vars(Complete(i))

FairSpec == Spec /\ Fairness

----------------------------------------------------------------------------
(* Properties.                                                             *)

(* walk_closure lists blockers before dependents, whatever is edited while *)
(* it reads: the blockers it read of each issue precede it in the order.   *)
OrderIsTopological ==
  \A k \in 1 .. Len(order) : edges[order[k]] \subseteq {order[j] : j \in 1 .. k - 1}

(* The order lists no issue twice and ends with the walked issue (the      *)
(* closure is complete: a diamond is walked once).                         *)
OrderIsComplete ==
  /\ \A j, k \in 1 .. Len(order) : order[j] = order[k] => j = k
  /\ walk.pc = "resolve" => Len(order) > 0 /\ order[Len(order)] = walk.root

(* A cycle is only reported when the walk read it, edge by edge            *)
(* (DependencyCycleError).                                                 *)
CyclesAreRead ==
  \A k \in 1 .. Len(path) - 1 : path[k + 1] \in edges[path[k]]

(* What the walk has left to do: every blocker read of an issue on the path*)
(* is done, waits in its frame, is next on the path or is being read.      *)
FramesAreCovered ==
  \A k \in 1 .. Len(path) :
    edges[path[k]] \subseteq Done \cup todo[path[k]] \cup {path[j] : j \in {k + 1} \cap DOMAIN path}
                             \cup (IF k = Len(path) THEN {walk.at} ELSE {})

PathIsSimple ==
  /\ \A j, k \in 1 .. Len(path) : path[j] = path[k] => j = k
  /\ OnPath \cap Done = {}
  /\ walk.pc = "read" => walk.at \in Issue \ (OnPath \cup Done)
  /\ walk.pc # "read" => walk.at = None

(* The path is a call stack that starts at the walked issue: what it reads *)
(* or has yet to visit is a blocker it read of the issue above.            *)
PathIsStack ==
  /\ walk.pc = "visit" => path # <<>>
  /\ walk.pc = "read" /\ path # <<>> => walk.at \in edges[Current]
  /\ walk.pc = "read" /\ path = <<>> => walk.at = walk.root
  /\ path # <<>> => path[1] = walk.root
  /\ \A k \in 1 .. Len(path) : todo[path[k]] \subseteq edges[path[k]]

(* The loop invariant of walk_closure.                                     *)
WalkInvariant ==
  /\ OrderIsTopological /\ OrderIsComplete /\ CyclesAreRead
  /\ FramesAreCovered /\ PathIsSimple /\ PathIsStack

(* The blockers an issue has on GitHub, and theirs.                        *)
LiveClosure(i) ==
  ReachedFrom(blockedBy[i],
              [b \in Issue \cup {Foreign} |-> IF b = Foreign THEN {} ELSE blockedBy[b]])

(* No human has edited relations, withdrawn an approval or abandoned work. *)
Undisturbed == left.edit = MaxEdit /\ left.reject = MaxReject

(* Unless a human withdraws it, dispatch grants, and a Run works on, an    *)
(* issue only when each blocker in its closure is merged or approved       *)
(* (grant_work, _derive_checkout_base), though it is read piecemeal and    *)
(* partly from the memo.                                                   *)
GoAheadHolds ==
  \A i \in Issue : Undisturbed /\ run[i].pc \in {"granted", "working"} =>
    \A b \in LiveClosure(i) : \/ status[b] = "completed" \/ pull[b].state = "merged"
                              \/ pull[b].state = "open" /\ pull[b].approved

(* Where merge settings break chained diffs, no Run is based on a blocker's*)
(* branch (chain_preconditions), though the driver that derives the base   *)
(* does not check them again, unless a human adds a blocker meanwhile.     *)
UnchainedWaits ==
  Undisturbed /\ ~chaining =>
    \A i \in Issue : run[i].base = Default /\ pull[i].base = Default

(* Work starts only when its blockers allow it, chained or not.            *)
StartsInOrder == GoAheadHolds /\ UnchainedWaits

(* The branches a branch is based on, down to the default branch.          *)
Below(b) == ReachedFrom({b}, [c \in Branch |-> IF c = Default THEN {} ELSE {pull[c].base}])

(* A Run's base never drops a blocker's work: it is in the base or in a    *)
(* branch the base will be merged into, a layer merged before its blocker  *)
(* included (DependencyClosure, resolve). It need not be in the base: a    *)
(* blocker may have been merged after the chain's tip was cut.             *)
NoWorkDropped ==
  \A i \in Issue : Undisturbed /\ run[i].pc = "working" =>
    LiveClosure(i) \subseteq UNION {work[b] : b \in Below(run[i].base)}

(* An issue and those whose pull requests were merged into its branch,     *)
(* layer by layer (a dependent merged before its blocker).                 *)
Layers(i) ==
  ReachedFrom({i}, [b \in Issue |-> {j \in Issue : pull[j].state = "merged" /\ pull[j].base = b}])

(* A pull request carries the changes of its own issue and its layers only:*)
(* the other work on its branch is in its base, wherever merges, deletions *)
(* and retargeting have led it (_resolve_deleted_base, _verify_ship_base). *)
DiffIsOwn ==
  \A i \in Issue : pull[i].state = "open" => work[i] \ Layers(i) \subseteq work[pull[i].base]

(* A plan without cycles drains: each issue is granted, shipped and merged *)
(* (dispatch releases issues as blockers land).                            *)
PlanDrains == \A i \in Issue : <>(status[i] = "completed")
=============================================================================
