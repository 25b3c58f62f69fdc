----------------------------- MODULE EventConsole -----------------------------
(***************************************************************************)
(* The operator console over the event cache: it walks the pages of the    *)
(* events read to keep an index of the latest event of every Run and a     *)
(* feed of the events its filters select, while events arrive, evictions   *)
(* happen and the operator changes the filters under a read in flight.     *)
(***************************************************************************)
EXTENDS EventCache

CONSTANTS
    Filter,         \* the filter conjunctions of the console's panel
    Limit,          \* the page size
    IndexPages,     \* INDEX_MAX_PAGES
    FeedPages,      \* advance_events's max_pages
    Keep,           \* EVENTS_KEEP
    MaxRefusals,    \* bound: reads the Control Node does not answer
    MaxChanges      \* bound: changes of the panel's filters

ASSUME ConsoleAssumption ==
    /\ Filter \subseteq SUBSET Scope
    /\ {Limit, IndexPages, FeedPages, Keep} \subseteq Nat \ {0}
    /\ {MaxRefusals, MaxChanges} \subseteq Nat

VARIABLES
    index,          \* latest_run_by_issue, 0 = no event
    maxRun,         \* max_run_id, 0 = none
    truncated,
    filter, feed, evicted, gap,     \* the events panel
    walk,           \* the read in flight
    raced,          \* history: filters changed under a read of the panel
    left

runs == <<index, maxRun, truncated>>
panel == <<filter, feed, evicted, gap>>
console == <<runs, panel, walk, raced, left>>
vars == <<cache, console>>

Budget == {"refusal", "change"}
Spend(b) == left[b] > 0 /\ left' = [left EXCEPT ![b] = @ - 1]

\* A read in flight that has read nothing: the refresh took the filters and
\* the feed's newest id when it started.
Reading(stage, w, known, pages) ==
    [stage |-> stage, filter |-> w.filter, newest |-> w.newest, known |-> known,
     cursor |-> NoBound, pages |-> pages, got |-> {}, page |-> {},
     rows |-> FALSE, evicted |-> FALSE]

Idle == Reading("idle", [filter |-> {}, newest |-> 0], 0, 0)

Init ==
    /\ CacheInit
    /\ index = [s \in RunScope |-> 0] /\ maxRun = 0 /\ truncated = FALSE
    /\ filter \in Filter /\ feed = {} /\ evicted = FALSE /\ gap = FALSE
    /\ walk = Idle /\ raced = FALSE
    /\ left = [b \in Budget |->
                 IF b = "refusal" THEN MaxRefusals ELSE MaxChanges]

-----------------------------------------------------------------------------
\* The console: one refresh reads the run events, then the panel's.

\* The newest matching rows before the cursor.
Page(scopes, cursor) ==
    LET rows == {id \in Matching(scopes, kept) : id < cursor}
    IN {id \in rows : Cardinality({r \in rows : r >= id}) <= Limit}

Newest(ids) == Max(ids \cup {0})

\* The panel, unless it is paused; its walk advances past what it holds.
ReadPanel(w) == Reading("panel", w, w.newest, FeedPages)

\* A bootstrap collects every row of its pages, an advance those past the
\* newest it knows.
ReadRuns(stage, w) ==
    Reading(stage, w, IF stage = "advance" THEN maxRun ELSE 0, IndexPages)

StartRefresh ==
    /\ walk.stage = "idle"
    /\ walk' = ReadRuns(IF maxRun = 0 THEN "bootstrap" ELSE "advance",
                        [filter |-> filter, newest |-> Newest(feed)])
    /\ UNCHANGED <<cache, runs, panel, raced, left>>

Scopes == IF walk.stage = "panel" THEN walk.filter ELSE RunScope

\* A page's rows, in one hold of the store's lock, and the verdict on its
\* query in another.
ReadRows ==
    /\ walk.stage # "idle" /\ ~walk.rows
    /\ walk' = [walk EXCEPT !.page = Page(Scopes, walk.cursor), !.rows = TRUE]
    /\ UNCHANGED <<cache, runs, panel, raced, left>>

Full == Cardinality(walk.page) = Limit
Fresh == {id \in walk.page : id > walk.known}
Got == walk.got \cup Fresh
Verdict == walk.evicted \/ Incomplete(Scopes, 0, walk.cursor)

\* Mutant: A page that ends two above the newest row held closes the gap.
ClosedNear ==
    \/ walk.known = 0 \/ Fresh # walk.page \/ ~Full
    \/ Fresh # {} /\ Min(Fresh) <= walk.known + 2

\* An advance is over at the end of the events, at a row it knows, or one
\* above it.
Closed ==
    \/ walk.known = 0 \/ Fresh # walk.page \/ ~Full
    \/ Fresh # {} /\ Min(Fresh) = walk.known + 1

Over == IF walk.stage = "bootstrap" THEN ~Full ELSE Closed
Answered == walk.rows /\ walk.stage # "idle"

\* The next page of the walk.
Continue ==
    /\ Answered /\ ~Over /\ walk.pages > 1
    /\ walk' = [walk EXCEPT !.got = Got, !.cursor = Min(walk.page),
                            !.evicted = Verdict, !.pages = @ - 1,
                            !.page = {}, !.rows = FALSE]
    /\ UNCHANGED <<cache, runs, panel, raced, left>>

LatestOf(s, ids) == Newest(Matching({s}, ids))

\* On to the panel, which is left out when follow is paused and it holds a
\* feed already.
AfterRuns ==
    \/ walk' = ReadPanel(walk)
    \/ walk.newest # 0 /\ walk' = Idle

\* The whole retained history, or as much as the bound on pages allows.
BootstrapRuns ==
    /\ walk.stage = "bootstrap" /\ Answered /\ (Over \/ walk.pages = 1)
    /\ LET ids == walk.got \cup walk.page IN
         /\ index' = [s \in RunScope |-> LatestOf(s, ids)]
         /\ maxRun' = Newest(ids)
    /\ truncated' = Full
    /\ AfterRuns
    /\ UNCHANGED <<cache, panel, raced, left>>

AdvanceRuns ==
    /\ walk.stage = "advance" /\ Answered /\ Over
    /\ index' = [s \in RunScope |-> Max({index[s], LatestOf(s, Got)})]
    /\ maxRun' = Max({maxRun, Newest(Got)})
    /\ AfterRuns
    /\ UNCHANGED <<cache, truncated, panel, raced, left>>

\* Mutant: A gap the bounded walk did not close is taken for closed.
ApplyOpenGap ==
    /\ walk.stage = "advance" /\ Answered /\ ~Over /\ walk.pages = 1
    /\ index' = [s \in RunScope |-> Max({index[s], LatestOf(s, Got)})]
    /\ maxRun' = Max({maxRun, Newest(Got)})
    /\ AfterRuns
    /\ UNCHANGED <<cache, truncated, panel, raced, left>>

\* Mutant: An advance that cannot close its gap is tried again.
AdvanceAgain ==
    /\ walk.stage = "advance" /\ Answered /\ ~Over /\ walk.pages = 1
    /\ walk' = ReadRuns("advance", walk)
    /\ UNCHANGED <<cache, runs, panel, raced, left>>

\* An advance that cannot close its gap starts over from nothing.
Rebootstrap ==
    /\ walk.stage = "advance" /\ Answered /\ ~Over /\ walk.pages = 1
    /\ walk' = ReadRuns("bootstrap", walk)
    /\ UNCHANGED <<cache, runs, panel, raced, left>>

\* The backlog outran the walk: the feed goes on from the newest rows, and
\* the panel says so until its query changes.
ResyncPanel ==
    /\ walk.stage = "panel" /\ Answered /\ ~Over /\ walk.pages = 1
    /\ feed' = Got
    /\ gap' = TRUE
    /\ evicted' = (evicted \/ Verdict)
    /\ walk' = Idle
    /\ UNCHANGED <<cache, runs, filter, raced, left>>

\* Mutant: The feed is cut before the new rows come in.
AdvancePanelUncut ==
    /\ walk.stage = "panel" /\ Answered /\ Over
    /\ feed' = {id \in feed : Cardinality({r \in feed : r >= id}) <= Keep} \cup Got
    /\ evicted' = (evicted \/ Verdict)
    /\ walk' = Idle
    /\ UNCHANGED <<cache, runs, filter, gap, raced, left>>

\* The new rows on top of the feed, which keeps a bounded number of them.
AdvancePanel ==
    /\ walk.stage = "panel" /\ Answered /\ Over
    /\ LET rows == feed \cup Got IN
         feed' = {id \in rows : Cardinality({r \in rows : r >= id}) <= Keep}
    /\ evicted' = (evicted \/ Verdict)
    /\ walk' = Idle
    /\ UNCHANGED <<cache, runs, filter, gap, raced, left>>

\* A read raises: the bundle of the refresh is lost, not the index.
Refused ==
    /\ walk.stage # "idle"
    /\ Spend("refusal")
    /\ walk' = Idle
    /\ UNCHANGED <<cache, runs, panel, raced>>

\* The operator submits filters: a new query, which a refresh in flight does
\* not know of.
SubmitFilter(f) ==
    /\ Spend("change")
    /\ filter' = f /\ feed' = {} /\ evicted' = FALSE /\ gap' = FALSE
    /\ raced' = (walk.stage # "idle")
    /\ UNCHANGED <<cache, runs, walk>>

-----------------------------------------------------------------------------
Console ==
    \/ StartRefresh \/ ReadRows \/ Continue
    \/ BootstrapRuns \/ AdvanceRuns \/ Rebootstrap
    \/ ResyncPanel \/ AdvancePanel

Next ==
    \/ CacheNext /\ UNCHANGED console
    \/ Console \/ Refused
    \/ \E f \in Filter : SubmitFilter(f)

Spec == Init /\ [][Next]_vars

\* The console refreshes on its timer, and a page walk is bounded.
FairSpec == Spec /\ WF_vars(Console)

-----------------------------------------------------------------------------
(* Properties. *)

Walk == [stage : {"idle", "bootstrap", "advance", "panel"},
         filter : SUBSET Scope, newest : Nat, known : Nat, cursor : Nat,
         pages : Nat, got : SUBSET Ids, page : SUBSET Ids, rows : BOOLEAN,
         evicted : BOOLEAN]

\* The type invariant: a walk in flight stays within the bounds of its pages
\* (tui/model.py, tui/app.py refresh_now).
TypeOK ==
    /\ CacheTypeOK
    /\ index \in [RunScope -> {0} \cup Ids] /\ maxRun \in {0} \cup Ids
    /\ truncated \in BOOLEAN
    /\ filter \subseteq Scope /\ feed \subseteq Ids
    /\ Cardinality(feed) <= Max({Keep, FeedPages * Limit})
    /\ evicted \in BOOLEAN /\ gap \in BOOLEAN /\ raced \in BOOLEAN
    /\ walk \in Walk
    /\ left \in [Budget -> Nat]

\* The console's index is the store's run_states as of the newest run event
\* it knows, though pages are read while events arrive; a Run is missing from
\* it only if the panel says the walk was cut (tui/model.py RunIndex).
IndexIsLatest ==
    \A s \in RunScope :
        \/ index[s] = LatestOf(s, 1 .. maxRun)
        \/ truncated /\ index[s] = 0

\* The index is right, and the walks that keep it so are bounded.
IndexInvariant == TypeOK /\ IndexIsLatest

\* Every event that matches the panel's query and lies between two of its
\* feed is in the feed, and nothing else is, unless the panel says that its
\* history is incomplete.
Honest ==
    evicted \/ gap \/ feed = {} \/
        feed = Matching(filter, Min(feed) .. Max(feed))

\* The feed is honest across advances, evictions between the pages of a walk,
\* refused reads and pauses (tui/model.py advance_events, tui/app.py
\* refresh_now), for a query that no refresh was in flight under.
FeedHonest == ~raced => Honest

\* The same, whenever the filters are changed.
FeedAlwaysHonest == Honest

\* When events stop arriving the index reaches the last of them.
IndexCatchesUp == <>[](maxRun = Newest(Matching(RunScope, Ids)))
=============================================================================
