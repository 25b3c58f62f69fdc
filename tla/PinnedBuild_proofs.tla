--------------------------- MODULE PinnedBuild_proofs ---------------------------
(***************************************************************************)
(* Proofs about the pinned build, for all sources, pins, addresses and     *)
(* bounds: what the repository is at each step of an ingest, and from it   *)
(* that the marker brackets every lag of the working tree, that an ingest  *)
(* carries the machine's files over, that nothing is overwritten and that  *)
(* a load outside the marker is of one commit.                             *)
(***************************************************************************)
EXTENDS PinnedBuild, SequenceTheorems, TLAPS

\* Who has the lock, and what he has with him.
LockKnows ==
    /\ (lock = "ingest") <=> (ing.pc # "idle")
    /\ (lock = "machine") <=> (mac.pc # "idle")
    /\ ing.pc # "idle" => ing.source \in Source
    /\ mac.pc # "idle" => mac.file \in MachineFile /\ mac.value \in Content

\* What an ingest has read by each of its steps.
IngestKnows ==
    /\ ing.pc \in {"move", "sync", "unmark"} => marker
    /\ ing.snapshot => ing.dry
    /\ ing.pc = "move" => ~ing.dry
    /\ ing.pc \in {"pin", "address", "commit", "move"} =>
          /\ ing.base \in 1 .. Len(log)
          /\ ~ing.meddled => ing.base = Len(log)
    /\ ing.pc \in {"address", "commit", "move"} =>
          /\ ing.pin \in Content
          /\ ~ing.meddled => ing.pin = Onto(ing.source, log[ing.base].tree)["pin"]
    /\ ing.pc \in {"commit", "move"} =>
          /\ ing.address \in Content
          /\ ~ing.meddled => ing.address = log[ing.base].tree["address"]

\* A file a sync has been over is HEAD's, unless a human edited it since.
Synced(f) == work[f] = HEAD[f] \/ (work[f] = Edit /\ ing.meddled /\ f # "types")

\* How far a sync has come, and that it can lose no edit but a later one.
SyncKnows ==
    /\ ing.pc = "sync" => \A f \in File \ ing.todo : Synced(f)
    /\ ing.pc = "unmark" => index = HEAD /\ \A f \in File : Synced(f)
    /\ ing.pc = "sync" /\ ing.goal # "recover" /\ ~ing.meddled =>
          \A f \in File : work[f] = Edit => Committed(f, Edit)

\* The file that a load reads first is HEAD's, and so is what it read.
TypesAreHeads == ~marker => work["types"] = HEAD["types"]

LoadKnows ==
    load.pc = "drivers" /\ load.calm => ~marker /\ load.types = HEAD["types"]

\* The inductive invariant: of the writers, and of the load.
WritersKnow ==
    /\ RepositoryType /\ IngestType
    /\ mac \in [pc : {"idle", "write", "status", "add", "commit"},
                file : MachineFile \cup {None}, value : Pin \cup Address \cup {None}]
    /\ left \in [Budget -> Nat]
    /\ LockKnows /\ IngestKnows /\ SyncKnows
    /\ MarkerBrackets /\ ExactlyHead /\ TypesAreHeads

IInv == TypeOK /\ WritersKnow /\ LoadKnows

-----------------------------------------------------------------------------
\* The log.

\* A repository has a last commit, and every commit a tree.
LEMMA HeadIsCommit ==
  ASSUME RepositoryType
  PROVE  /\ Len(log) \in 1 .. Len(log) /\ Len(log) \in Nat
         /\ HEAD \in Tree
         /\ \A k \in 1 .. Len(log) : log[k].tree \in Tree
<1> DEFINE E == [tree : Tree, by : {"ingest", "machine", "hand"}]
<1>1. log \in Seq(E) /\ log # << >>
  BY DEF RepositoryType
<1>2. Len(log) \in Nat /\ Len(log) # 0
  BY <1>1, EmptySeq, LenProperties
<1>3. \A k \in 1 .. Len(log) : log[k] \in E
  BY <1>1, ElementOfSeq
<1> QED BY <1>2, <1>3 DEF HEAD

\* A new commit is HEAD, and those before it stay where they are.
LEMMA CommitIsAppended ==
  ASSUME RepositoryType, NEW tree \in Tree, NEW by \in {"ingest", "machine", "hand"},
         log' = Append(log, [tree |-> tree, by |-> by])
  PROVE  /\ log' \in Seq([tree : Tree, by : {"ingest", "machine", "hand"}]) /\ log' # << >>
         /\ Len(log') = Len(log) + 1
         /\ HEAD' = tree /\ log'[Len(log')].by = by
         /\ \A k \in 1 .. Len(log) : log'[k] = log[k]
<1> DEFINE E == [tree : Tree, by : {"ingest", "machine", "hand"}]
<1> DEFINE e == [tree |-> tree, by |-> by]
<1>1. log \in Seq(E) /\ e \in E
  BY DEF RepositoryType
<1> HIDE DEF e
<1>2. log' = Append(log, e)
  BY DEF e
<1>3. /\ log' \in Seq(E) /\ log' # << >> /\ Len(log') = Len(log) + 1
      /\ \A k \in 1 .. Len(log) : log'[k] = log[k]
      /\ log'[Len(log) + 1] = e
  BY <1>1, <1>2, AppendProperties
<1>4. HEAD' = tree /\ log'[Len(log')].by = by
  BY <1>3 DEF HEAD, e
<1> QED BY <1>3, <1>4

\* What was committed stays committed.
LEMMA CommittedStays ==
  ASSUME RepositoryType, RepositoryType', Len(log) <= Len(log'),
         \A k \in 1 .. Len(log) : log'[k] = log[k]
  PROVE  \A f \in File : Committed(f, Edit) => Committed(f, Edit)'
<1>1. /\ DOMAIN log = 1 .. Len(log) /\ Len(log) \in Nat
      /\ DOMAIN log' = 1 .. Len(log') /\ Len(log') \in Nat
  BY LenProperties DEF RepositoryType
<1>2. ASSUME NEW f \in File, NEW k \in DOMAIN log, log[k].tree[f] = Edit
      PROVE  k \in DOMAIN log' /\ log'[k].tree[f] = Edit
  BY <1>1, <1>2
<1> QED BY <1>2 DEF Committed

LEMMA SpendKeeps ==
  ASSUME left \in [Budget -> Nat], NEW b \in Budget, Spend(b)
  PROVE  left' \in [Budget -> Nat]
BY DEF Spend

-----------------------------------------------------------------------------
\* The steps of an ingest.

\* An ingest that ends leaves the repository as it is, and no marker behind
\* only after its sync.
LEMMA EndIngestKeeps ==
  ASSUME WritersKnow, ing.pc # "idle", EndIngest, left' \in [Budget -> Nat],
         UNCHANGED <<repo, mac>>,
         marker' = marker \/ (ing.pc = "unmark" /\ marker' = FALSE)
  PROVE  WritersKnow'
<1>1. UNCHANGED <<log, index, work, mac>> /\ HEAD' = HEAD /\ marker' \in BOOLEAN
  BY DEF WritersKnow, RepositoryType, repo, HEAD
<1>2. ing' = NoIngest /\ lock' = "free" /\ mac.pc = "idle"
  BY DEF WritersKnow, EndIngest, LockKnows
<1>3. RepositoryType' /\ IngestType'
  BY <1>1, <1>2 DEF WritersKnow, RepositoryType, IngestType, NoIngest
<1>4. LockKnows' /\ IngestKnows' /\ SyncKnows' /\ ExactlyHead'
  BY <1>1, <1>2 DEF LockKnows, IngestKnows, SyncKnows, ExactlyHead, NoIngest
<1>5. MarkerBrackets' /\ TypesAreHeads'
  <2>1. CASE marker' = marker
    BY <1>1, <2>1 DEF WritersKnow, MarkerBrackets, TypesAreHeads
  <2>2. CASE ing.pc = "unmark"
    BY <1>1, <2>2 DEF WritersKnow, SyncKnows, Synced, MarkerBrackets, TypesAreHeads, File, Authored
  <2> QED BY <2>1, <2>2
<1> QED BY <1>1, <1>3, <1>4, <1>5 DEF WritersKnow

LEMMA BeginKeeps ==
  ASSUME WritersKnow, NEW s \in Source, NEW dry \in BOOLEAN, Begin(s, dry)
  PROVE  WritersKnow'
<1>1. /\ UNCHANGED <<log, index, work, marker, mac>> /\ HEAD' = HEAD
      /\ lock' = "ingest" /\ lock = "free" /\ mac.pc = "idle" /\ left' \in [Budget -> Nat]
  BY SpendKeeps DEF Begin, Acquire, WritersKnow, LockKnows, RepositoryType, repo, HEAD, Budget
<1>2. /\ ing'.source = s /\ ing'.dry = dry
      /\ \/ ing'.pc = "check" /\ ing'.snapshot = FALSE
         \/ marker /\ ing'.pc = "sync" /\ ing'.snapshot = FALSE /\ ing'.todo = File
         \/ dry /\ ing'.pc = "base" /\ ing'.snapshot = TRUE
      /\ ing'.goal = "recover" /\ IngestType'
  <2>1. marker \in BOOLEAN
    BY DEF WritersKnow, RepositoryType
  <2>2. CASE ~marker
    BY <2>2 DEF Begin, NoIngest, IngestType
  <2>3. CASE marker /\ ~dry
    BY <2>3 DEF Begin, NoIngest, IngestType
  <2>4. CASE marker /\ dry
    BY <2>4 DEF Begin, NoIngest, IngestType
  <2> QED BY <2>1, <2>2, <2>3, <2>4
<1>3. RepositoryType' /\ MarkerBrackets' /\ TypesAreHeads'
  BY <1>1 DEF WritersKnow, RepositoryType, MarkerBrackets, TypesAreHeads
<1>4. LockKnows' /\ IngestKnows' /\ SyncKnows' /\ ExactlyHead'
  BY <1>1, <1>2 DEF WritersKnow, LockKnows, IngestKnows, SyncKnows, ExactlyHead
<1> QED BY <1>1, <1>2, <1>3, <1>4 DEF WritersKnow

LEMMA CheckKeeps ==
  ASSUME WritersKnow, Check
  PROVE  WritersKnow'
<1>1. left' \in [Budget -> Nat] /\ ing.pc = "check" /\ UNCHANGED <<repo, marker, mac>>
  BY DEF WritersKnow, Check
<1>2. CASE EndIngest
  BY <1>1, <1>2, EndIngestKeeps
<1>3. CASE work = HEAD /\ index = HEAD /\ ing' = [ing EXCEPT !.pc = "base", !.meddled = FALSE] /\ lock' = lock
  <2>1. UNCHANGED <<log, index, work, marker, mac>> /\ HEAD' = HEAD
    BY <1>1 DEF repo, HEAD
  <2>2. IngestType' /\ RepositoryType' /\ MarkerBrackets' /\ TypesAreHeads'
    BY <1>3, <2>1 DEF WritersKnow, IngestType, RepositoryType, MarkerBrackets, TypesAreHeads
  <2>3. LockKnows' /\ IngestKnows' /\ SyncKnows' /\ ExactlyHead'
    BY <1>1, <1>3, <2>1 DEF WritersKnow, IngestType, LockKnows, IngestKnows, SyncKnows, ExactlyHead
  <2> QED BY <1>1, <2>1, <2>2, <2>3 DEF WritersKnow
<1> QED BY <1>2, <1>3 DEF Check

\* Steps that only read: they change what the ingest has, and its pc.
LEMMA ReadingKeeps ==
  ASSUME WritersKnow, UNCHANGED <<repo, marker, lock, mac, left>>,
         ing.pc \in {"base", "pin", "address"}, ing'.pc \in {"pin", "address", "commit"},
         IngestType', IngestKnows',
         ing'.source = ing.source, ing'.snapshot = ing.snapshot, ing'.meddled = ing.meddled
  PROVE  WritersKnow'
<1>1. UNCHANGED <<log, index, work, marker, mac, lock, left>> /\ HEAD' = HEAD
  BY DEF repo, HEAD
<1>2. RepositoryType' /\ MarkerBrackets' /\ TypesAreHeads'
  BY <1>1 DEF WritersKnow, RepositoryType, MarkerBrackets, TypesAreHeads
<1>3. LockKnows' /\ SyncKnows' /\ ExactlyHead'
  BY <1>1 DEF WritersKnow, LockKnows, SyncKnows, ExactlyHead
<1> QED BY <1>1, <1>2, <1>3 DEF WritersKnow

LEMMA ReadBaseKeeps ==
  ASSUME WritersKnow, ReadBase
  PROVE  WritersKnow'
<1>1. UNCHANGED <<repo, marker, lock, mac, left>> /\ ing.pc = "base" /\ ing' = [ing EXCEPT !.pc = "pin", !.base = Len(log)]
  BY DEF ReadBase
<1>2. Len(log) \in 1 .. Len(log) /\ Len(log) \in Nat
  BY HeadIsCommit DEF WritersKnow
<1>3. IngestType'
  BY <1>1, <1>2 DEF WritersKnow, IngestType
<1>4. IngestKnows'
  BY <1>1, <1>2 DEF WritersKnow, IngestType, IngestKnows, repo
<1> QED BY <1>1, <1>3, <1>4, ReadingKeeps DEF WritersKnow, IngestType

\* What is preserved is what the commit the ingest extends has.
LEMMA OldStateIsBase ==
  ASSUME WritersKnow, ing.pc \in {"pin", "address"}
  PROVE  OldState \in Tree /\ (~ing.meddled => OldState = log[ing.base].tree)
<1>1. ing.base \in 1 .. Len(log) /\ (~ing.meddled => ing.base = Len(log))
  BY DEF WritersKnow, IngestKnows
<1>2. log[ing.base].tree \in Tree /\ work \in Tree
  BY <1>1, HeadIsCommit DEF WritersKnow, RepositoryType
<1>3. CASE ing.snapshot
  BY <1>2, <1>3 DEF OldState
<1>4. CASE ~ing.snapshot
  <2>1. ing.meddled \/ work = HEAD
    BY <1>4 DEF WritersKnow, ExactlyHead
  <2> QED BY <1>1, <1>2, <1>4, <2>1 DEF OldState, HEAD
<1> QED BY <1>3, <1>4

LEMMA PreservePinKeeps ==
  ASSUME BuildAssumption, WritersKnow, PreservePin
  PROVE  WritersKnow'
<1> DEFINE pin == IF Declares[ing.source] # None THEN Declares[ing.source] ELSE OldState["pin"]
<1>1. UNCHANGED <<repo, marker, lock, mac, left>> /\ ing.pc = "pin" /\ ing' = [ing EXCEPT !.pc = "address", !.pin = pin]
  BY DEF PreservePin
<1>2. Declares[ing.source] \in Pin \cup {None} /\ ing.source \in Source
  BY <1>1 DEF BuildAssumption, WritersKnow, LockKnows
<1>3. OldState["pin"] \in Content /\ (~ing.meddled => OldState = log[ing.base].tree)
  BY <1>1, OldStateIsBase DEF Tree, File
<1>4. pin \in Content
  BY <1>2, <1>3 DEF Content
<1>5. ~ing.meddled => pin = Onto(ing.source, log[ing.base].tree)["pin"]
  BY <1>3 DEF Onto, File, Authored
<1> HIDE DEF pin
<1>6. IngestType'
  BY <1>1, <1>4 DEF WritersKnow, IngestType
<1>7. IngestKnows'
  BY <1>1, <1>4, <1>5 DEF WritersKnow, IngestType, IngestKnows, Onto, repo
<1> QED BY <1>1, <1>6, <1>7, ReadingKeeps DEF WritersKnow, IngestType

LEMMA MergeControlKeeps ==
  ASSUME WritersKnow, MergeControl
  PROVE  WritersKnow'
<1>1. UNCHANGED <<repo, marker, lock, mac, left>> /\ ing.pc = "address"
      /\ ing' = [ing EXCEPT !.pc = "commit", !.address = OldState["address"]]
  BY DEF MergeControl
<1>2. OldState["address"] \in Content
      /\ (~ing.meddled => OldState["address"] = log[ing.base].tree["address"])
  BY <1>1, OldStateIsBase DEF Tree, File
<1>3. IngestType'
  BY <1>1, <1>2 DEF WritersKnow, IngestType
<1>4. IngestKnows'
  BY <1>1, <1>2 DEF WritersKnow, IngestType, IngestKnows, Onto, repo
<1> QED BY <1>1, <1>3, <1>4, ReadingKeeps DEF WritersKnow, IngestType

LEMMA CommitKeeps ==
  ASSUME WritersKnow, Commit
  PROVE  WritersKnow'
<1>1. left' \in [Budget -> Nat] /\ ing.pc = "commit" /\ UNCHANGED <<repo, mac>>
  BY DEF WritersKnow, Commit
<1>2. CASE EndIngest /\ UNCHANGED marker
  BY <1>1, <1>2, EndIngestKeeps
<1>3. CASE ~ing.dry /\ ing' = [ing EXCEPT !.pc = "move"] /\ marker' = TRUE /\ lock' = lock
  <2>1. UNCHANGED <<log, index, work, mac>> /\ HEAD' = HEAD
    BY <1>1 DEF repo, HEAD
  <2>2. IngestType' /\ RepositoryType' /\ MarkerBrackets' /\ TypesAreHeads'
    BY <1>3, <2>1 DEF WritersKnow, IngestType, RepositoryType, MarkerBrackets, TypesAreHeads
  <2>3. LockKnows' /\ SyncKnows' /\ ExactlyHead'
    BY <1>1, <1>3, <2>1 DEF WritersKnow, IngestType, LockKnows, SyncKnows, ExactlyHead
  <2>4. IngestKnows'
    BY <1>1, <1>3, <2>1 DEF WritersKnow, IngestType, IngestKnows, Onto
  <2> QED BY <1>1, <2>1, <2>2, <2>3, <2>4 DEF WritersKnow
<1> QED BY <1>2, <1>3 DEF Commit

\* An edit that a sync is to meet was committed, or made since the check.
LEMMA EditsCommitted ==
  ASSUME WritersKnow, ing.pc = "move" \/ (ing.pc = "sync" /\ ing.goal = "publish"), ~ing.meddled,
         NEW f \in File, work[f] = Edit
  PROVE  Committed(f, Edit)
<1>1. CASE ing.pc = "move"
  <2>1. work = HEAD
    BY <1>1 DEF WritersKnow, IngestKnows, ExactlyHead
  <2>2. Len(log) \in DOMAIN log
    BY HeadIsCommit, LenProperties DEF WritersKnow, RepositoryType
  <2> QED BY <2>1, <2>2 DEF Committed, HEAD
<1>2. CASE ing.pc = "sync" /\ ing.goal = "publish"
  BY <1>2 DEF WritersKnow, SyncKnows
<1> QED BY <1>1, <1>2

\* A sync starts from nothing, whether or not HEAD has moved.
LEMMA SyncKeeps ==
  ASSUME WritersKnow, NEW goal \in {"publish", "repair"}, ing' = Sync(goal),
         ing.pc = "move" \/ (ing.pc = "sync" /\ ing.goal = "publish"),
         UNCHANGED <<index, work, marker, lock, mac>>, left' \in [Budget -> Nat],
         RepositoryType', \A f \in File : Committed(f, Edit) => Committed(f, Edit)'
  PROVE  WritersKnow'
<1>1. /\ ing' = [ing EXCEPT !.pc = "sync", !.todo = File, !.goal = goal] /\ marker /\ marker'
      /\ UNCHANGED <<index, work, lock, mac>>
  BY DEF Sync, WritersKnow, IngestKnows
<1>2. IngestType' /\ LockKnows' /\ IngestKnows' /\ ExactlyHead'
  BY <1>1 DEF WritersKnow, IngestType, LockKnows, IngestKnows, ExactlyHead
<1>3. MarkerBrackets' /\ TypesAreHeads'
  BY <1>1 DEF MarkerBrackets, TypesAreHeads
<1>4. SyncKnows'
  BY <1>1, EditsCommitted DEF WritersKnow, IngestType, SyncKnows
<1> QED BY <1>1, <1>2, <1>3, <1>4 DEF WritersKnow

\* What an ingest is about to commit is a tree.
LEMMA StagedIsTree ==
  ASSUME BuildAssumption, WritersKnow, ing.pc \in {"commit", "move"}
  PROVE  Staged \in Tree
<1>1. ing.pin \in Content /\ ing.address \in Content /\ ing.source \in Content
  BY DEF WritersKnow, IngestKnows, LockKnows, Content
<1> QED BY <1>1 DEF Staged, Tree, File

LEMMA MoveRefKeeps ==
  ASSUME BuildAssumption, WritersKnow, MoveRef
  PROVE  WritersKnow'
<1>1. /\ ing.pc = "move" /\ UNCHANGED <<index, work, marker, lock, mac>> /\ left' \in [Budget -> Nat]
      /\ RepositoryType
  BY DEF WritersKnow, MoveRef
<1>2. CASE Len(log) = ing.base /\ log' = Append(log, [tree |-> Staged, by |-> "ingest"]) /\ ing' = Sync("publish")
  <2>1. /\ log' \in Seq([tree : Tree, by : {"ingest", "machine", "hand"}]) /\ log' # << >>
        /\ Len(log') = Len(log) + 1 /\ \A k \in 1 .. Len(log) : log'[k] = log[k]
    BY <1>1, <1>2, StagedIsTree, CommitIsAppended
  <2>2. RepositoryType'
    BY <1>1, <2>1 DEF RepositoryType
  <2>3. \A f \in File : Committed(f, Edit) => Committed(f, Edit)'
    BY <1>1, <2>1, <2>2, HeadIsCommit, CommittedStays
  <2> QED BY <1>1, <1>2, <2>2, <2>3, SyncKeeps
<1>3. CASE ing' = Sync("repair") /\ log' = log
  <2>1. RepositoryType' /\ \A f \in File : Committed(f, Edit) => Committed(f, Edit)'
    BY <1>1, <1>3 DEF RepositoryType, Committed
  <2> QED BY <1>1, <1>3, <2>1, SyncKeeps
<1> QED BY <1>2, <1>3 DEF MoveRef

LEMMA ResetFileKeeps ==
  ASSUME WritersKnow, NEW f \in File, ResetFile(f)
  PROVE  WritersKnow'
<1>1. /\ ing.pc = "sync" /\ f \in ing.todo /\ UNCHANGED <<log, index, marker, lock, mac, left>> /\ HEAD' = HEAD
      /\ work' = [work EXCEPT ![f] = HEAD[f]] /\ ing' = [ing EXCEPT !.todo = @ \ {f}] /\ marker
  BY DEF ResetFile, WritersKnow, IngestKnows, HEAD
<1>2. HEAD \in Tree /\ work \in Tree
  BY HeadIsCommit DEF WritersKnow, RepositoryType
<1>3. work' \in Tree /\ \A g \in File : work'[g] = IF g = f THEN HEAD[g] ELSE work[g]
  BY <1>1, <1>2 DEF Tree
<1>4. RepositoryType' /\ IngestType' /\ LockKnows' /\ IngestKnows' /\ ExactlyHead'
  BY <1>1, <1>3 DEF WritersKnow, RepositoryType, IngestType, LockKnows, IngestKnows, ExactlyHead
<1>5. MarkerBrackets' /\ TypesAreHeads'
  BY <1>1 DEF MarkerBrackets, TypesAreHeads
<1>6. \A g \in File \ ing'.todo : Synced(g)'
  BY <1>1, <1>3 DEF WritersKnow, IngestType, SyncKnows, Synced
<1>7. ing'.goal # "recover" /\ ~ing'.meddled => \A g \in File : work'[g] = Edit => Committed(g, Edit)'
  <2>1. SUFFICES ASSUME ing'.goal # "recover", ~ing'.meddled, NEW g \in File, work'[g] = Edit
                 PROVE  Committed(g, Edit)'
    OBVIOUS
  <2>2. ing.goal # "recover" /\ ~ing.meddled
    BY <1>1, <2>1 DEF WritersKnow, IngestType
  <2>3. CASE g = f
    BY <1>1, <1>3, <2>1, <2>3, HeadIsCommit, LenProperties DEF WritersKnow, RepositoryType, Committed, HEAD
  <2>4. CASE g # f
    BY <1>1, <1>3, <2>1, <2>2, <2>4 DEF WritersKnow, SyncKnows, Committed
  <2> QED BY <2>3, <2>4
<1>8. SyncKnows'
  BY <1>1, <1>6, <1>7 DEF WritersKnow, IngestType, SyncKnows
<1> QED BY <1>1, <1>4, <1>5, <1>8 DEF WritersKnow

LEMMA ResetIndexKeeps ==
  ASSUME WritersKnow, ResetIndex
  PROVE  WritersKnow'
<1>1. /\ ing.pc = "sync" /\ ing.todo = {} /\ UNCHANGED <<log, work, marker, lock, mac, left>> /\ HEAD' = HEAD
      /\ index' = HEAD /\ ing' = [ing EXCEPT !.pc = "unmark"] /\ marker
  BY DEF ResetIndex, WritersKnow, IngestKnows, HEAD
<1>2. HEAD \in Tree /\ work \in Tree
  BY HeadIsCommit DEF WritersKnow, RepositoryType
<1>3. \A f \in File : Synced(f)
  BY <1>1 DEF WritersKnow, SyncKnows
<1>4. ~ing.meddled => work = HEAD
  BY <1>2, <1>3 DEF Synced, Tree
<1>5. RepositoryType' /\ IngestType' /\ LockKnows' /\ IngestKnows'
  BY <1>1, <1>2 DEF WritersKnow, RepositoryType, IngestType, LockKnows, IngestKnows
<1>6. ExactlyHead'
  BY <1>1, <1>4 DEF WritersKnow, IngestType, ExactlyHead
<1>7. MarkerBrackets' /\ TypesAreHeads'
  BY <1>1 DEF MarkerBrackets, TypesAreHeads
<1>8. SyncKnows'
  BY <1>1, <1>3 DEF WritersKnow, IngestType, SyncKnows, Synced
<1> QED BY <1>1, <1>5, <1>6, <1>7, <1>8 DEF WritersKnow

LEMMA UnmarkKeeps ==
  ASSUME WritersKnow, Unmark
  PROVE  WritersKnow'
<1>1. /\ ing.pc = "unmark" /\ UNCHANGED <<repo, mac>> /\ left' \in [Budget -> Nat]
      /\ marker' = marker \/ marker' = FALSE
  BY SpendKeeps DEF Unmark, WritersKnow, Budget
<1>2. CASE EndIngest
  BY <1>1, <1>2, EndIngestKeeps
<1>3. CASE ing' = [ing EXCEPT !.pc = "check"] /\ lock' = lock
  <2>1. UNCHANGED <<log, index, work, mac>> /\ HEAD' = HEAD /\ marker' \in BOOLEAN
    BY <1>1 DEF repo, HEAD, WritersKnow, RepositoryType
  <2>2. IngestType' /\ RepositoryType'
    BY <1>3, <2>1 DEF WritersKnow, IngestType, RepositoryType
  <2>3. LockKnows' /\ IngestKnows' /\ SyncKnows' /\ ExactlyHead'
    BY <1>1, <1>3, <2>1 DEF WritersKnow, IngestType, LockKnows, IngestKnows, SyncKnows, ExactlyHead
  <2>4. MarkerBrackets' /\ TypesAreHeads'
    BY <1>1, <2>1 DEF WritersKnow, SyncKnows, Synced, MarkerBrackets, TypesAreHeads, File, Authored
  <2> QED BY <1>1, <2>1, <2>2, <2>3, <2>4 DEF WritersKnow
<1> QED BY <1>2, <1>3 DEF Unmark

LEMMA FailIngestKeeps ==
  ASSUME WritersKnow, FailIngest
  PROVE  WritersKnow'
<1>1. ing.pc # "idle" /\ UNCHANGED <<repo, marker, mac>> /\ left' \in [Budget -> Nat]
  BY SpendKeeps DEF FailIngest, WritersKnow, Budget
<1>2. CASE EndIngest
  BY <1>1, <1>2, EndIngestKeeps
<1>3. CASE /\ ing.pc = "move" \/ (ing.pc = "sync" /\ ing.goal = "publish")
           /\ ing' = Sync("repair") /\ lock' = lock
  <2>1. RepositoryType' /\ \A f \in File : Committed(f, Edit) => Committed(f, Edit)'
    BY <1>1, <1>3 DEF WritersKnow, RepositoryType, Committed, repo
  <2> QED BY <1>1, <1>3, <2>1, SyncKeeps DEF repo
<1> QED BY <1>2, <1>3 DEF FailIngest

LEMMA CrashIngestKeeps ==
  ASSUME WritersKnow, CrashIngest
  PROVE  WritersKnow'
BY SpendKeeps, EndIngestKeeps DEF CrashIngest, WritersKnow, Budget

-----------------------------------------------------------------------------
\* The machine's writers: no ingest runs beside them.

LEMMA BeginWriteKeeps ==
  ASSUME WritersKnow, NEW f \in MachineFile, NEW v \in Values[f], BeginWrite(f, v)
  PROVE  WritersKnow'
<1>1. /\ UNCHANGED <<log, index, work, marker, ing>> /\ HEAD' = HEAD
      /\ mac' = [pc |-> "write", file |-> f, value |-> v] /\ lock = "free" /\ lock' = "machine"
      /\ left' \in [Budget -> Nat]
  BY SpendKeeps DEF BeginWrite, Acquire, WritersKnow, repo, HEAD, Budget
<1>2. f \in {"pin", "address"} /\ v \in Pin \cup Address
  BY DEF MachineFile, File, Authored, Values
<1>3. /\ mac' \in [pc : {"idle", "write", "status", "add", "commit"},
                   file : MachineFile \cup {None}, value : Pin \cup Address \cup {None}]
      /\ mac'.pc # "idle" /\ mac'.file \in MachineFile /\ mac'.value \in Content
  BY <1>1, <1>2 DEF Content
<1>4. RepositoryType' /\ IngestType' /\ LockKnows'
  BY <1>1, <1>3 DEF WritersKnow, RepositoryType, IngestType, LockKnows
<1>5. IngestKnows' /\ SyncKnows' /\ MarkerBrackets' /\ ExactlyHead' /\ TypesAreHeads'
  BY <1>1 DEF WritersKnow, LockKnows, IngestKnows, SyncKnows, MarkerBrackets, ExactlyHead, TypesAreHeads
<1> QED BY <1>1, <1>3, <1>4, <1>5 DEF WritersKnow

\* While one writes, or ends, no step of an ingest is in question.
LEMMA WritingKeeps ==
  ASSUME WritersKnow, UNCHANGED <<marker, ing>>, mac.pc # "idle", RepositoryType',
         mac' \in [pc : {"idle", "write", "status", "add", "commit"},
                   file : MachineFile \cup {None}, value : Pin \cup Address \cup {None}],
         \/ mac'.pc # "idle" /\ lock' = lock /\ mac'.file = mac.file /\ mac'.value = mac.value
         \/ mac'.pc = "idle" /\ lock' = "free",
         left' \in [Budget -> Nat], MarkerBrackets', TypesAreHeads'
  PROVE  WritersKnow'
<1>1. lock = "machine" /\ ing.pc = "idle" /\ mac.file \in MachineFile /\ mac.value \in Content
  BY DEF WritersKnow, LockKnows
<1>2. IngestType' /\ LockKnows'
  BY <1>1 DEF WritersKnow, IngestType, LockKnows
<1>3. IngestKnows' /\ SyncKnows' /\ ExactlyHead'
  BY <1>1 DEF WritersKnow, IngestType, IngestKnows, SyncKnows, ExactlyHead
<1> QED BY <1>2, <1>3 DEF WritersKnow

LEMMA WriteFileKeeps ==
  ASSUME WritersKnow, WriteFile
  PROVE  WritersKnow'
<1>1. /\ mac.pc = "write" /\ UNCHANGED <<log, index, marker, lock, ing>> /\ HEAD' = HEAD
      /\ work' = [work EXCEPT ![mac.file] = mac.value] /\ mac' = [mac EXCEPT !.pc = "status"]
      /\ left' \in [Budget -> Nat]
  BY DEF WriteFile, WritersKnow, HEAD
<1>2. mac.file \in MachineFile /\ mac.value \in Content
  BY <1>1 DEF WritersKnow, LockKnows
<1>3. work' \in Tree /\ \A f \in Authored : work'[f] = work[f]
  BY <1>1, <1>2 DEF WritersKnow, RepositoryType, Tree, MachineFile, Authored, File
<1>4. RepositoryType' /\ MarkerBrackets' /\ TypesAreHeads'
  BY <1>1, <1>3 DEF WritersKnow, RepositoryType, MarkerBrackets, TypesAreHeads, Authored
<1>5. /\ mac' \in [pc : {"idle", "write", "status", "add", "commit"},
                   file : MachineFile \cup {None}, value : Pin \cup Address \cup {None}]
      /\ mac'.pc # "idle" /\ mac'.file = mac.file /\ mac'.value = mac.value
  BY <1>1 DEF WritersKnow
<1> QED BY <1>1, <1>4, <1>5, WritingKeeps

\* A write that ends leaves the repository as it is.
LEMMA EndWriteKeeps ==
  ASSUME WritersKnow, mac.pc # "idle", EndWrite, UNCHANGED <<repo, marker, ing>>,
         left' \in [Budget -> Nat]
  PROVE  WritersKnow'
<1>1. /\ UNCHANGED <<log, index, work>> /\ HEAD' = HEAD /\ mac' = NoWrite /\ lock' = "free"
  BY DEF repo, HEAD, EndWrite
<1>2. RepositoryType' /\ MarkerBrackets' /\ TypesAreHeads'
  BY <1>1 DEF WritersKnow, RepositoryType, MarkerBrackets, TypesAreHeads
<1> QED BY <1>1, <1>2, WritingKeeps DEF NoWrite

LEMMA StatusKeeps ==
  ASSUME WritersKnow, Status
  PROVE  WritersKnow'
<1>1. mac.pc = "status" /\ UNCHANGED <<repo, marker, ing>> /\ left' \in [Budget -> Nat]
  BY SpendKeeps DEF Status, WritersKnow, Budget
<1>2. CASE EndWrite
  BY <1>1, <1>2, EndWriteKeeps
<1>3. CASE mac' = [mac EXCEPT !.pc = "add"] /\ lock' = lock
  <2>1. UNCHANGED <<log, index, work>> /\ HEAD' = HEAD
    BY <1>1 DEF repo, HEAD
  <2>2. RepositoryType' /\ MarkerBrackets' /\ TypesAreHeads'
    BY <1>1, <1>3, <2>1 DEF WritersKnow, RepositoryType, MarkerBrackets, TypesAreHeads
  <2>3. /\ mac' \in [pc : {"idle", "write", "status", "add", "commit"},
                     file : MachineFile \cup {None}, value : Pin \cup Address \cup {None}]
        /\ mac'.pc # "idle" /\ mac'.file = mac.file /\ mac'.value = mac.value
    BY <1>3 DEF WritersKnow
  <2> QED BY <1>1, <1>3, <2>2, <2>3, WritingKeeps
<1> QED BY <1>2, <1>3 DEF Status

LEMMA AddKeeps ==
  ASSUME WritersKnow, Add
  PROVE  WritersKnow'
<1>1. /\ mac.pc = "add" /\ UNCHANGED <<log, work, marker, lock, ing>> /\ HEAD' = HEAD
      /\ index' = [index EXCEPT ![mac.file] = work[mac.file]] /\ mac' = [mac EXCEPT !.pc = "commit"]
      /\ left' \in [Budget -> Nat]
  BY DEF Add, WritersKnow, HEAD
<1>2. mac.file \in MachineFile
  BY <1>1 DEF WritersKnow, LockKnows
<1>3. index' \in Tree /\ \A f \in Authored : index'[f] = index[f]
  BY <1>1, <1>2 DEF WritersKnow, RepositoryType, Tree, MachineFile, Authored, File
<1>4. RepositoryType' /\ MarkerBrackets' /\ TypesAreHeads'
  BY <1>1, <1>3 DEF WritersKnow, RepositoryType, MarkerBrackets, TypesAreHeads, Authored
<1>5. /\ mac' \in [pc : {"idle", "write", "status", "add", "commit"},
                   file : MachineFile \cup {None}, value : Pin \cup Address \cup {None}]
      /\ mac'.pc # "idle" /\ mac'.file = mac.file /\ mac'.value = mac.value
  BY <1>1 DEF WritersKnow
<1> QED BY <1>1, <1>4, <1>5, WritingKeeps

LEMMA CommitIndexKeeps ==
  ASSUME WritersKnow, CommitIndex
  PROVE  WritersKnow'
<1>1. mac.pc = "commit" /\ EndWrite /\ UNCHANGED <<index, work, marker, ing>> /\ left' \in [Budget -> Nat]
  BY DEF CommitIndex, WritersKnow
<1>2. CASE log' = log
  BY <1>1, <1>2, EndWriteKeeps DEF repo
<1>3. CASE log' = Append(log, [tree |-> index, by |-> "machine"])
  <2>1. RepositoryType /\ index \in Tree
    BY DEF WritersKnow, RepositoryType
  <2>2. /\ log' \in Seq([tree : Tree, by : {"ingest", "machine", "hand"}]) /\ log' # << >>
        /\ HEAD' = index
    BY <1>3, <2>1, CommitIsAppended
  <2>3. RepositoryType' /\ mac' = NoWrite /\ lock' = "free"
    BY <1>1, <2>1, <2>2 DEF RepositoryType, EndWrite
  <2>4. MarkerBrackets' /\ TypesAreHeads'
    BY <1>1, <2>2 DEF WritersKnow, MarkerBrackets, TypesAreHeads, Authored
  <2> QED BY <1>1, <2>3, <2>4, WritingKeeps DEF NoWrite
<1> QED BY <1>2, <1>3 DEF CommitIndex

LEMMA StopWriteKeeps ==
  ASSUME WritersKnow, StopWrite
  PROVE  WritersKnow'
<1>1. left' \in [Budget -> Nat]
  BY SpendKeeps DEF StopWrite, WritersKnow, Budget
<1> QED BY <1>1, EndWriteKeeps DEF StopWrite

-----------------------------------------------------------------------------
\* A human with a shell.

LEMMA HandEditKeeps ==
  ASSUME WritersKnow, NEW f \in {"drivers", "pin"}, HandEdit(f)
  PROVE  WritersKnow'
<1>1. /\ UNCHANGED <<log, index, marker, lock, mac>> /\ HEAD' = HEAD /\ left' \in [Budget -> Nat]
      /\ work' = [work EXCEPT ![f] = Edit] /\ ing' = [ing EXCEPT !.meddled = ing.pc # "idle"]
  BY SpendKeeps DEF HandEdit, Meddled, WritersKnow, HEAD, Budget
<1>2. work' \in Tree /\ \A g \in File : work'[g] = IF g = f THEN Edit ELSE work[g]
  BY <1>1 DEF WritersKnow, RepositoryType, Tree, Content, File
<1>3. /\ IngestType' /\ ing'.pc = ing.pc /\ ing'.todo = ing.todo /\ (ing.pc # "idle" => ing'.meddled)
      /\ ing'.source = ing.source /\ ing'.snapshot = ing.snapshot /\ ing'.dry = ing.dry
      /\ ing'.base = ing.base /\ ing'.pin = ing.pin /\ ing'.address = ing.address
  BY <1>1 DEF WritersKnow, IngestType
<1>4. RepositoryType' /\ LockKnows' /\ IngestKnows' /\ ExactlyHead'
  BY <1>1, <1>2, <1>3 DEF WritersKnow, RepositoryType, LockKnows, IngestKnows, ExactlyHead
<1>5. MarkerBrackets' /\ TypesAreHeads'
  BY <1>1, <1>2 DEF WritersKnow, MarkerBrackets, TypesAreHeads, Authored, File
<1>6. \A g \in File : Synced(g) /\ ing.pc # "idle" => Synced(g)'
  BY <1>1, <1>2, <1>3 DEF Synced
<1>7. SyncKnows'
  BY <1>1, <1>3, <1>6 DEF WritersKnow, SyncKnows
<1> QED BY <1>1, <1>3, <1>4, <1>5, <1>7 DEF WritersKnow

LEMMA HandCommitKeeps ==
  ASSUME WritersKnow, HandCommit
  PROVE  WritersKnow'
<1>1. /\ UNCHANGED <<marker, lock, mac>> /\ left' \in [Budget -> Nat]
      /\ work' = [work EXCEPT !["drivers"] = Fix] /\ index' = [index EXCEPT !["drivers"] = Fix]
      /\ log' = Append(log, [tree |-> index', by |-> "hand"])
      /\ ing' = [ing EXCEPT !.meddled = ing.pc # "idle"]
      /\ (ing.pc = "sync" => ing.todo = File)
  BY SpendKeeps DEF HandCommit, Meddled, WritersKnow, Budget
<1>2. /\ work' \in Tree /\ \A g \in File : work'[g] = IF g = "drivers" THEN Fix ELSE work[g]
      /\ index' \in Tree /\ \A g \in File : index'[g] = IF g = "drivers" THEN Fix ELSE index[g]
  BY <1>1 DEF WritersKnow, RepositoryType, Tree, Content, File
<1>3. /\ log' \in Seq([tree : Tree, by : {"ingest", "machine", "hand"}]) /\ log' # << >>
      /\ Len(log') = Len(log) + 1 /\ HEAD' = index' /\ \A k \in 1 .. Len(log) : log'[k] = log[k]
  BY <1>1, <1>2, CommitIsAppended DEF WritersKnow
<1>4. /\ IngestType' /\ ing'.pc = ing.pc /\ ing'.todo = ing.todo /\ (ing.pc # "idle" => ing'.meddled)
      /\ ing'.source = ing.source /\ ing'.snapshot = ing.snapshot /\ ing'.dry = ing.dry
      /\ ing'.base = ing.base /\ ing'.pin = ing.pin /\ ing'.address = ing.address
  BY <1>1 DEF WritersKnow, IngestType
<1>5. RepositoryType'
  BY <1>1, <1>2, <1>3 DEF WritersKnow, RepositoryType
<1>6. LockKnows' /\ ExactlyHead'
  BY <1>1, <1>4 DEF WritersKnow, LockKnows, ExactlyHead
<1>7. IngestKnows'
  <2>1. Len(log) \in Nat
    BY HeadIsCommit DEF WritersKnow
  <2> QED BY <1>1, <1>3, <1>4, <2>1 DEF WritersKnow, IngestKnows
<1>8. MarkerBrackets' /\ TypesAreHeads'
  BY <1>1, <1>2, <1>3 DEF WritersKnow, MarkerBrackets, TypesAreHeads, Authored, File
<1>9. SyncKnows'
  <2>1. ASSUME ing.pc = "unmark"
        PROVE  \A g \in File : Synced(g)'
    <3>1. index = HEAD /\ \A g \in File : Synced(g)
      BY <2>1 DEF WritersKnow, SyncKnows
    <3> QED BY <1>2, <1>3, <1>4, <2>1, <3>1 DEF Synced
  <2> QED BY <1>1, <1>3, <1>4, <2>1 DEF SyncKnows
<1> QED BY <1>1, <1>4, <1>5, <1>6, <1>7, <1>8, <1>9 DEF WritersKnow

-----------------------------------------------------------------------------
\* All steps together.

LEMMA IngestKeeps ==
  ASSUME BuildAssumption, WritersKnow, Ingest
  PROVE  WritersKnow'
BY BeginKeeps, CheckKeeps, ReadBaseKeeps, PreservePinKeeps, MergeControlKeeps, CommitKeeps,
   MoveRefKeeps, ResetFileKeeps, ResetIndexKeeps, UnmarkKeeps, FailIngestKeeps, CrashIngestKeeps
   DEF Ingest

LEMMA MachineKeeps ==
  ASSUME WritersKnow, Machine
  PROVE  WritersKnow'
BY BeginWriteKeeps, WriteFileKeeps, StatusKeeps, AddKeeps, CommitIndexKeeps, StopWriteKeeps
   DEF Machine

\* Whoever writes, the writers' invariant stays.
LEMMA WriteKeeps ==
  ASSUME BuildAssumption, WritersKnow, Write
  PROVE  WritersKnow'
BY IngestKeeps, MachineKeeps, HandEditKeeps, HandCommitKeeps DEF Write

\* HEAD moves in three actions only.
LEMMA WhoCommits ==
  ASSUME Write, log' # log
  PROVE  MoveRef \/ CommitIndex \/ HandCommit
BY DEF Write, Ingest, Machine, Begin, Check, ReadBase, PreservePin, MergeControl, Commit, ResetFile,
   ResetIndex, Unmark, FailIngest, CrashIngest, BeginWrite, WriteFile, Status, Add, StopWrite,
   HandEdit, repo

\* A commit: what it is made of, and by whom.
LEMMA CommitIsOneOf ==
  ASSUME BuildAssumption, WritersKnow, Write, log' # log
  PROVE  \/ /\ ing.pc = "move" /\ log' = Append(log, [tree |-> Staged, by |-> "ingest"]) /\ Staged \in Tree
         \/ log' = Append(log, [tree |-> index, by |-> "machine"]) /\ index \in Tree
         \/ /\ log' = Append(log, [tree |-> [index EXCEPT !["drivers"] = Fix], by |-> "hand"])
            /\ [index EXCEPT !["drivers"] = Fix] \in Tree
<1>1. index \in Tree
  BY DEF WritersKnow, RepositoryType
<1>2. CASE MoveRef
  BY <1>2, StagedIsTree DEF MoveRef
<1>3. CASE CommitIndex
  BY <1>1, <1>3 DEF CommitIndex
<1>4. CASE HandCommit
  BY <1>1, <1>4 DEF HandCommit, Tree, Content
<1> QED BY <1>2, <1>3, <1>4, WhoCommits

\* Outside the marker no commit changes an authored file but by hand, and
\* none the file a load reads first.
LEMMA TypesStand ==
  ASSUME BuildAssumption, WritersKnow, Write, ~marker
  PROVE  HEAD'["types"] = HEAD["types"]
<1>1. CASE log' = log
  BY <1>1 DEF HEAD
<1>2. CASE log' # log
  <2>1. index["types"] = HEAD["types"] /\ ing.pc # "move" /\ index \in Tree /\ RepositoryType
    BY DEF WritersKnow, MarkerBrackets, Authored, IngestKnows, RepositoryType
  <2>2. HEAD' = index \/ HEAD' = [index EXCEPT !["drivers"] = Fix]
    BY <1>2, <2>1, CommitIsOneOf, CommitIsAppended
  <2> QED BY <2>1, <2>2 DEF Tree, File
<1> QED BY <1>1, <1>2

-----------------------------------------------------------------------------
\* The invariant.

LEMMA InitLemma ==
  ASSUME BuildAssumption, Init
  PROVE  IInv
<1> DEFINE E == [tree : Tree, by : {"ingest", "machine", "hand"}]
<1> DEFINE e == [tree |-> First, by |-> "ingest"]
<1>1. First \in Tree /\ \A f \in File : First[f] # Edit
  BY DEF BuildAssumption, Tree
<1>2. log = << e >> /\ e \in E
  BY <1>1 DEF Init
<1>3. log \in Seq(E) /\ log # << >> /\ Len(log) = 1
  BY <1>2
<1>4. HEAD = First
  BY <1>2, <1>3 DEF HEAD
<1>5. RepositoryType
  BY <1>1, <1>3 DEF Init, RepositoryType
<1>6. IngestType /\ ing.pc = "idle" /\ mac.pc = "idle"
      /\ mac \in [pc : {"idle", "write", "status", "add", "commit"},
                  file : MachineFile \cup {None}, value : Pin \cup Address \cup {None}]
  BY DEF Init, NoIngest, NoWrite, IngestType
<1>7. left \in [Budget -> Nat]
  <2>1. /\ MaxIngests \in Nat /\ MaxWrites \in Nat /\ MaxFailures \in Nat
        /\ MaxCrashes \in Nat /\ MaxHands \in Nat
    BY DEF BuildAssumption
  <2> QED BY <2>1 DEF Init, Budget
<1>8. LockKnows /\ IngestKnows /\ SyncKnows
  BY <1>6 DEF Init, NoIngest, LockKnows, IngestKnows, SyncKnows
<1>9. MarkerBrackets /\ ExactlyHead /\ TypesAreHeads
  BY <1>4, <1>6 DEF Init, MarkerBrackets, ExactlyHead, TypesAreHeads
<1>10. LoadKnows /\ load \in [pc : {"idle", "drivers"}, types : Content \cup {None}, calm : BOOLEAN]
  BY DEF Init, LoadKnows
<1> QED BY <1>5, <1>6, <1>7, <1>8, <1>9, <1>10 DEF IInv, WritersKnow, TypeOK

\* A write ends the calm of a load if it leaves a marker, and what a calm
\* load has read stays HEAD's.
LEMMA WriteKeepsAll ==
  ASSUME BuildAssumption, IInv, Write, load' = [load EXCEPT !.calm = @ /\ ~marker']
  PROVE  IInv'
<1>1. WritersKnow'
  BY WriteKeeps DEF IInv
<1>2. load'.pc = load.pc /\ load'.types = load.types /\ load'.calm = (load.calm /\ ~marker')
  BY DEF IInv, TypeOK
<1>3. load' \in [pc : {"idle", "drivers"}, types : Content \cup {None}, calm : BOOLEAN]
  <2>1. (load.calm /\ ~marker') \in BOOLEAN
    OBVIOUS
  <2> QED BY <2>1 DEF IInv, TypeOK
<1>4. LoadKnows'
  <2>1. ASSUME load.pc = "drivers", load.calm, ~marker'
        PROVE  load.types = HEAD'["types"]
    BY <2>1, TypesStand DEF IInv, LoadKnows
  <2> QED BY <1>2, <2>1 DEF LoadKnows
<1> QED BY <1>1, <1>3, <1>4 DEF IInv, WritersKnow, TypeOK

\* A step that only touches the load leaves the writers' invariant alone.
LEMMA LoadingKeeps ==
  ASSUME WritersKnow, UNCHANGED <<repo, marker, lock, ing, mac, left>>,
         load' \in [pc : {"idle", "drivers"}, types : Content \cup {None}, calm : BOOLEAN],
         LoadKnows'
  PROVE  IInv'
<1>1. UNCHANGED <<log, index, work, marker, lock, ing, mac, left>> /\ HEAD' = HEAD
  BY DEF repo, HEAD
<1>2. RepositoryType' /\ IngestType' /\ LockKnows'
  BY <1>1 DEF WritersKnow, RepositoryType, IngestType, LockKnows
<1>3. IngestKnows' /\ SyncKnows'
  BY <1>1 DEF WritersKnow, IngestKnows, SyncKnows, Synced, Committed
<1>4. MarkerBrackets' /\ ExactlyHead' /\ TypesAreHeads'
  BY <1>1 DEF WritersKnow, MarkerBrackets, ExactlyHead, TypesAreHeads
<1> QED BY <1>1, <1>2, <1>3, <1>4 DEF IInv, WritersKnow, TypeOK

LEMMA StepLemma ==
  ASSUME BuildAssumption, IInv, [Next]_vars
  PROVE  IInv'
<1>1. CASE Write /\ load' = [load EXCEPT !.calm = @ /\ ~marker']
  BY <1>1, WriteKeepsAll
<1>2. CASE BeginLoad
  <2>1. /\ load' = [pc |-> "drivers", types |-> work["types"], calm |-> ~marker]
        /\ UNCHANGED <<repo, marker, lock, ing, mac, left>>
    BY <1>2 DEF BeginLoad
  <2>2. work["types"] \in Content /\ marker \in BOOLEAN /\ WritersKnow
    BY DEF IInv, WritersKnow, RepositoryType, Tree, File
  <2>3. HEAD' = HEAD /\ marker' = marker
    BY <2>1 DEF repo, HEAD
  <2>4. load' \in [pc : {"idle", "drivers"}, types : Content \cup {None}, calm : BOOLEAN]
    BY <2>1, <2>2
  <2>5. LoadKnows'
    <3>1. load'.types = work["types"] /\ (load'.calm <=> ~marker)
      BY <2>1
    <3>2. ~marker => work["types"] = HEAD["types"]
      BY <2>2 DEF WritersKnow, TypesAreHeads
    <3> QED BY <2>3, <3>1, <3>2 DEF LoadKnows
  <2> QED BY <2>1, <2>2, <2>4, <2>5, LoadingKeeps
<1>3. CASE EndLoad
  <2>1. /\ load' = [pc |-> "idle", types |-> None, calm |-> FALSE]
        /\ UNCHANGED <<repo, marker, lock, ing, mac, left>>
    BY <1>3 DEF EndLoad
  <2>2. LoadKnows' /\ load' \in [pc : {"idle", "drivers"}, types : Content \cup {None}, calm : BOOLEAN]
    BY <2>1 DEF LoadKnows
  <2> QED BY <2>1, <2>2, LoadingKeeps DEF IInv
<1>4. CASE UNCHANGED vars
  <2>1. UNCHANGED <<repo, marker, lock, ing, mac, left>> /\ load' = load /\ HEAD' = HEAD
    BY <1>4 DEF vars, repo, HEAD
  <2>2. LoadKnows' /\ load' \in [pc : {"idle", "drivers"}, types : Content \cup {None}, calm : BOOLEAN]
    BY <2>1 DEF LoadKnows, IInv, TypeOK
  <2> QED BY <2>1, <2>2, LoadingKeeps DEF IInv
<1> QED BY <1>1, <1>2, <1>3, <1>4 DEF Next

\* IInv holds of every state the pinned build can be in.
THEOREM Invariance == Spec => []IInv
<1>1. Init => IInv
  BY InitLemma, BuildAssumption
<1>2. IInv /\ [Next]_vars => IInv'
  BY StepLemma, BuildAssumption
<1> QED BY <1>1, <1>2, PTL DEF Spec

-----------------------------------------------------------------------------
\* The theorems.

\* Every variable keeps its type, whoever writes to the pinned build.
THEOREM TypeCorrect == Spec => []TypeOK
<1>1. IInv => TypeOK
  BY DEF IInv
<1> QED BY <1>1, Invariance, PTL

\* Without a marker the index and the working tree lag behind HEAD in no
\* authored file, and an ingest that passed its check, or has synced, is over
\* exactly HEAD, whatever failed, died or was changed by hand before
\* (ingest.py PENDING_MARKER, _recover_pending, _sync_worktree_to_head).
THEOREM RepositoryIsBracketed == Spec => []RepositoryInvariant
<1>1. IInv => RepositoryInvariant
  BY DEF IInv, WritersKnow, RepositoryInvariant
<1> QED BY <1>1, Invariance, PTL

\* What an ingest commits carries its parent's address and undeclared pin
\* over (ingest.py _preserve_product_pin, _merge_control_toml).
THEOREM IngestCarriesOver == Spec => []CarriesOver
<1>1. ASSUME IInv, ing.pc \in {"commit", "move"}, ~ing.meddled
      PROVE  Staged = Onto(ing.source, log[ing.base].tree)
  <2> DEFINE base == log[ing.base].tree
  <2>1. /\ ing.pin = Onto(ing.source, base)["pin"]
        /\ ing.address = base["address"]
    BY <1>1 DEF IInv, WritersKnow, IngestKnows
  <2>2. Onto(ing.source, base)["address"] = base["address"]
    BY DEF Onto, File, Authored
  <2> HIDE DEF base
  <2>3. ASSUME NEW f \in File
        PROVE  Staged[f] = Onto(ing.source, base)[f]
    <3>1. CASE f = "pin"
      BY <2>1, <3>1 DEF Staged, File
    <3>2. CASE f = "address"
      BY <2>1, <2>2, <3>2 DEF Staged, File
    <3>3. CASE f \in Authored
      BY <3>3 DEF Staged, Onto, File, Authored
    <3> QED BY <3>1, <3>2, <3>3 DEF File, Authored
  <2>4. Staged = [f \in File |-> Staged[f]] /\ Onto(ing.source, base) = [f \in File |-> Onto(ing.source, base)[f]]
    BY DEF Staged, Onto
  <2>5. Staged = Onto(ing.source, base)
    BY <2>3, <2>4
  <2> QED BY <2>5 DEF base
<1>2. IInv => CarriesOver
  BY <1>1 DEF CarriesOver
<1> QED BY <1>2, Invariance, PTL

\* A load with no marker about is of one commit, or of a human's edit
\* (configrepo.py load_config, ingest.py _sync_worktree_to_head).
THEOREM LoadsAreWhole == Spec => []LoadsWhole
<1>1. ASSUME IInv, load.pc = "drivers", load.calm, work["drivers"] # Edit
      PROVE  \E k \in DOMAIN log : /\ log[k].tree["types"] = load.types
                                   /\ log[k].tree["drivers"] = work["drivers"]
  <2>1. ~marker /\ load.types = HEAD["types"]
    BY <1>1 DEF IInv, LoadKnows
  <2>2. work["drivers"] = HEAD["drivers"]
    BY <1>1, <2>1 DEF IInv, WritersKnow, MarkerBrackets, Authored
  <2>3. Len(log) \in DOMAIN log
    BY <1>1, HeadIsCommit, LenProperties DEF IInv, WritersKnow, RepositoryType
  <2> QED BY <2>1, <2>2, <2>3 DEF HEAD
<1>2. IInv => LoadsWhole
  BY <1>1 DEF LoadsWhole
<1> QED BY <1>2, Invariance, PTL

\* A log that is appended to begins with what it was.
LEMMA PrefixStays ==
  ASSUME RepositoryType, NEW tree \in Tree, NEW by \in {"ingest", "machine", "hand"},
         log' = Append(log, [tree |-> tree, by |-> by])
  PROVE  Len(log') >= Len(log) /\ SubSeq(log', 1, Len(log)) = log
<1> DEFINE E == [tree : Tree, by : {"ingest", "machine", "hand"}]
<1> DEFINE front == SubSeq(log', 1, Len(log))
<1>1. /\ Len(log) \in Nat /\ Len(log') = Len(log) + 1
      /\ \A k \in 1 .. Len(log) : log'[k] = log[k]
  BY HeadIsCommit, CommitIsAppended
<1>2. log \in Seq(E) /\ \A k \in 1 .. Len(log) : log[k] \in E
  BY ElementOfSeq DEF RepositoryType
<1> HIDE DEF E
<1>3. \A k \in 1 .. Len(log) : log'[k] \in E
  BY <1>1, <1>2
<1>4. /\ front \in Seq(E)
      /\ Len(front) = IF 1 <= Len(log) THEN Len(log) - 1 + 1 ELSE 0
      /\ \A k \in 1 .. Len(log) - 1 + 1 : front[k] = log'[1 + k - 1]
  <2>1. 1 \in Int /\ Len(log) \in Int
    BY <1>1
  <2> QED BY <1>3, <2>1, SubSeqProperties
<1> HIDE DEF front
<1>5. Len(front) = Len(log) /\ \A k \in 1 .. Len(log) : front[k] = log[k]
  BY <1>1, <1>4
<1>6. front = log
  BY <1>2, <1>4, <1>5, SeqEqual
<1> QED BY <1>1, <1>6 DEF front

\* No commit is orphaned, no edit that somebody made before an ingest's check
\* is overwritten uncommitted, and a machine's commit outside the marker
\* leaves the authored files alone (ingest.py _ingest_locked and
\* _recover_pending, controltoml.py _commit, product.py _write_pin_locked).
THEOREM NothingIsOverwritten == Spec => NothingOverwritten
<1>1. ASSUME IInv, [Next]_vars
      PROVE  Len(log') >= Len(log) /\ SubSeq(log', 1, Len(log)) = log
  <2>1. RepositoryType /\ WritersKnow /\ Len(log) \in Nat
    BY <1>1, HeadIsCommit DEF IInv, WritersKnow
  <2>2. CASE log' = log
    BY <2>1, <2>2, SubSeqFull DEF RepositoryType
  <2>3. CASE log' # log
    <3>1. Write
      BY <1>1, <2>3 DEF Next, BeginLoad, EndLoad, vars, repo
    <3> QED BY <2>1, <2>3, <3>1, CommitIsOneOf, PrefixStays, BuildAssumption
  <2> QED BY <2>2, <2>3
<1>2. ASSUME IInv, NEW f \in File, ing.pc = "sync", work[f] = Edit
      PROVE  Committed(f, Edit) \/ ing.meddled \/ ing.goal = "recover"
  BY <1>2 DEF IInv, WritersKnow, SyncKnows
<1>3. ASSUME IInv, [Next]_vars, log' # log, ~marker, log'[Len(log')].by = "machine", NEW f \in Authored
      PROVE  log'[Len(log')].tree[f] = HEAD[f]
  <2>1. RepositoryType /\ WritersKnow /\ index[f] = HEAD[f]
    BY <1>3 DEF IInv, WritersKnow, MarkerBrackets
  <2>2. Write
    BY <1>3 DEF Next, BeginLoad, EndLoad, vars, repo
  <2>3. log' = Append(log, [tree |-> index, by |-> "machine"]) /\ index \in Tree
    BY <1>3, <2>1, <2>2, CommitIsOneOf, CommitIsAppended, BuildAssumption
  <2>4. HEAD' = index
    BY <2>1, <2>3, CommitIsAppended
  <2> QED BY <2>1, <2>4 DEF HEAD
<1>4. IInv /\ [Next]_vars => [Len(log') >= Len(log) /\ SubSeq(log', 1, Len(log)) = log]_vars
  BY <1>1
<1>5. IInv /\ [Next]_vars =>
        [\A f \in File :
           ing.pc = "sync" /\ work[f] = Edit /\ work'[f] # Edit =>
               Committed(f, Edit) \/ ing.meddled \/ ing.goal = "recover"]_vars
  BY <1>2
<1>6. IInv /\ [Next]_vars =>
        [log' # log /\ ~marker /\ log'[Len(log')].by = "machine" =>
           \A f \in Authored : log'[Len(log')].tree[f] = HEAD[f]]_vars
  BY <1>3
<1> QED BY <1>4, <1>5, <1>6, Invariance, PTL
        DEF Spec, NothingOverwritten, HistoryKept, EditsSpared, MachineMinds
=============================================================================
