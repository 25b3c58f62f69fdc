------------------------------ MODULE EventCache ------------------------------
(***************************************************************************)
(* The Control Node's rolling event cache.  The janitor evicts the oldest  *)
(* telemetry past a byte budget and leaves bounded evidence of what went,  *)
(* so that a filtered read can say whether it may be incomplete.           *)
(*                                                                         *)
(* A scope is a (type, node, component) combination, a filter the set of   *)
(* scopes it selects; the scope of a run event is its issue.  A payload    *)
(* weighs one unit of the budget.  The wall clock may be set back.         *)
(***************************************************************************)
EXTENDS Integers, Sequences, FiniteSets, FiniteSetsExt

CONSTANTS
    Scope,          \* the scopes of events
    RunScope,       \* those of theozolith.run events, which are never evicted
    Time,           \* what the wall clock can read
    Any, None,      \* the '*' sentinel; no evidence
    TailBudget,     \* control.toml's tail_budget_bytes
    ScopeCap,       \* EVICTION_SCOPE_CAP
    SampleCap,      \* EVICTION_SAMPLE_CAP
    MaxEvents       \* bound: events recorded

ASSUME CacheAssumption ==
    /\ RunScope \subseteq Scope /\ Any \notin Scope
    /\ Time \subseteq Nat \ {0}
    /\ {TailBudget, ScopeCap, SampleCap} \subseteq Nat /\ MaxEvents \in Nat \ {0}
    /\ None \notin Nat
    /\ None \notin [first : Nat, newest : Nat, samples : SUBSET Nat,
                    complete : BOOLEAN]

VARIABLES
    log,            \* every event ever recorded: an id is a position
    kept,           \* the ids of the rows of the events table
    evidence,       \* event_eviction_scopes
    legacy          \* event_evictions: a timestamp, 0 = unknown, or None

cache == <<log, kept, evidence, legacy>>

Ids == DOMAIN log
NoBound == MaxEvents + 1

\* A new cache, or one an earlier release evicted a row of: what it wrote is
\* a mark of no scope, or a row without a lower bound and without samples.
CacheInit ==
    /\ \/ log = <<>> /\ legacy = None /\ evidence = [s \in Scope \cup {Any} |-> None]
       \/ \E s \in Scope \ RunScope, t \in Time :
            /\ log = <<[scope |-> s, at |-> t]>>
            /\ \/ legacy \in {0, t}
                  /\ evidence = [x \in Scope \cup {Any} |-> None]
               \/ legacy = None
                  /\ evidence = [x \in Scope \cup {Any} |->
                        IF x = s THEN [first |-> 0, newest |-> t,
                                       samples |-> {}, complete |-> FALSE]
                        ELSE None]
    /\ kept = {}

RecordEvent(s, t) ==
    /\ Len(log) < MaxEvents
    /\ log' = Append(log, [scope |-> s, at |-> t])
    /\ kept' = kept \cup {Len(log) + 1}
    /\ UNCHANGED <<evidence, legacy>>

Evictable == {id \in kept : log[id].scope \notin RunScope}

\* The oldest telemetry, as much as takes the rest under the budget.
Doomed ==
    {id \in Evictable :
        Cardinality({e \in Evictable : e >= id}) > TailBudget}

Of(s) == {id \in Doomed : log[id].scope = s}

Seen(ids) == [first |-> Min(ids), newest |-> Max({log[id].at : id \in ids}),
              samples |-> ids, complete |-> TRUE]

Recorded == {s \in Scope \cup {Any} : evidence[s] # None}
Touched == {log[id].scope : id \in Doomed}

\* Two pieces of evidence as one; an unknown lower bound (0) stays unknown.
Merged(e, f) ==
    [first |-> Min({e.first, f.first}), newest |-> Max({e.newest, f.newest}),
     samples |-> e.samples \cup f.samples,
     complete |-> e.complete /\ f.complete]

\* Mutant: The cap on samples is one too high.
CappedLate(e) ==
    IF e.complete /\ Cardinality(e.samples) <= SampleCap + 1 THEN e
    ELSE [e EXCEPT !.samples = {}, !.complete = FALSE]

\* Samples past the cap go, and the bounds answer from then on.
Capped(e) ==
    IF e.complete /\ Cardinality(e.samples) <= SampleCap THEN e
    ELSE [e EXCEPT !.samples = {}, !.complete = FALSE]

\* Mutant: The collapse forgets what was recorded before it.
FoldedAnew(es) ==
    LET new == {Seen(Of(s)) : s \in Touched} IN
    [first |-> Min({e.first : e \in new}),
     newest |-> Max({e.newest : e \in new}),
     samples |-> {}, complete |-> FALSE]

\* Everything recorded as bounds only.
Folded(es) ==
    [first |-> Min({e.first : e \in es}),
     newest |-> Max({e.newest : e \in es}),
     samples |-> {}, complete |-> FALSE]

\* Past the cap on scopes, and ever after, all evidence is the sentinel's.
Collapses ==
    \/ evidence[Any] # None
    \/ Cardinality(Recorded \cup Touched) > ScopeCap

NewEvidence ==
    IF Collapses
    THEN [s \in Scope \cup {Any} |->
            IF s = Any
            THEN Folded({Seen(Of(t)) : t \in Touched}
                          \cup {evidence[t] : t \in Recorded})
            ELSE None]
    ELSE [s \in Scope \cup {Any} |->
            IF s \notin Touched THEN evidence[s]
            ELSE IF evidence[s] = None THEN Capped(Seen(Of(s)))
            ELSE Capped(Merged(evidence[s], Seen(Of(s))))]

\* The rows and the evidence of them in one transaction.
EvictProgress ==
    /\ Doomed # {}
    /\ kept' = kept \ Doomed
    /\ evidence' = NewEvidence
    /\ UNCHANGED <<log, legacy>>

\* Mutant: The window and the cursor are held against different rows.
MayMatchApart(s, scopes, since, before) ==
    /\ evidence[s] # None
    /\ s = Any \/ s \in scopes
    /\ since <= evidence[s].newest
    /\ evidence[s].first = 0 \/ evidence[s].first < before

\* Whether a row this evidence stands for may be in the scopes, no older than
\* since and before the cursor.
MayMatch(s, scopes, since, before) ==
    /\ evidence[s] # None
    /\ s = Any \/ s \in scopes
    /\ IF evidence[s].complete
       THEN \E id \in evidence[s].samples : log[id].at >= since /\ id < before
       ELSE /\ since <= evidence[s].newest
            /\ evidence[s].first = 0 \/ evidence[s].first < before

Incomplete(scopes, since, before) ==
    \/ legacy # None /\ (legacy = 0 \/ since <= legacy)
    \/ \E s \in Scope \cup {Any} : MayMatch(s, scopes, since, before)

CacheNext == EvictProgress \/ \E s \in Scope, t \in Time : RecordEvent(s, t)

CacheSpec == CacheInit /\ [][CacheNext]_cache

-----------------------------------------------------------------------------
(* Properties. *)

Matching(scopes, ids) == {id \in ids : log[id].scope \in scopes}

Evidence == [first : 0 .. MaxEvents, newest : Time, samples : SUBSET Ids,
             complete : BOOLEAN]

\* The type invariant, with the bound on the evidence: it never grows into an
\* archive of what was evicted (store.py EVICTION_SCOPE_CAP,
\* EVICTION_SAMPLE_CAP).
CacheTypeOK ==
    /\ log \in Seq([scope : Scope, at : Time])
    /\ kept \subseteq Ids
    /\ evidence \in [Scope \cup {Any} -> {None} \cup Evidence]
    /\ legacy \in {None, 0} \cup Time
    /\ Cardinality(Recorded) <= Max({ScopeCap, 1})
    /\ \A s \in Recorded :
          /\ evidence[s].samples \subseteq Ids \ kept
          /\ Cardinality(evidence[s].samples) <= SampleCap
          /\ s = Any => Recorded = {Any} /\ ~evidence[Any].complete

\* A query an evicted row would have answered.
Missed(scopes, since, before) ==
    \E id \in Matching(scopes, Ids \ kept) : log[id].at >= since /\ id < before

\* A filtered read that an evicted row belongs to says it is incomplete,
\* whatever was merged, capped or collapsed since the eviction, and whatever
\* the clock did (store.py _record_eviction_scopes, eviction_evidence).
EvidenceSound ==
    \A scopes \in SUBSET Scope, since \in {0} \cup Time, before \in 1 .. NoBound :
        Missed(scopes, since, before) => Incomplete(scopes, since, before)

\* While the samples are complete the answer is exact: a window and a cursor
\* that no single evicted row satisfies both do not mark a read incomplete
\* (store.py eviction_evidence).
EvidenceExact ==
    (legacy = None /\ \A s \in Recorded : evidence[s].complete) =>
        \A scopes \in SUBSET Scope, since \in {0} \cup Time,
          before \in 1 .. NoBound :
            Incomplete(scopes, since, before) => Missed(scopes, since, before)

\* The evidence stays bounded, sound, and exact while it can be.
EvidenceInvariant == CacheTypeOK /\ EvidenceSound /\ EvidenceExact
=============================================================================
