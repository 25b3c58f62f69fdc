------------------------- MODULE EventConsole_proofs -------------------------
(***************************************************************************)
(* Proofs about the event cache and the operator console over it, for all  *)
(* scopes, budgets, caps, page sizes and filters.                          *)
(***************************************************************************)
EXTENDS EventConsole, TLAPS, FiniteSetTheorems

-----------------------------------------------------------------------------
(* The least and the greatest of a set of natural numbers. *)

\* A nonempty set of natural numbers has a least element.
LEMMA MinOf ==
    ASSUME NEW S \in SUBSET Nat, S # {}
    PROVE  /\ Min(S) \in S
           /\ \A x \in S : Min(S) <= x
<1> DEFINE upto == {0 .. n : n \in S}
           below == StrictSubsetOrdering(Nat)
<1>1. upto \subseteq FiniteSubsetsOf(Nat)
  <2>1. ASSUME NEW n \in S  PROVE 0 .. n \in FiniteSubsetsOf(Nat)
    BY FS_Interval DEF FiniteSubsetsOf
  <2>2. QED BY <2>1
<1>2. upto # {}
  OBVIOUS
<1>3. PICK A \in upto : \A B \in upto : <<B, A>> \notin below
  BY <1>1, <1>2, FS_StrictSubsetOrderingWellFounded, WFMin
<1>4. PICK m \in S : A = 0 .. m
  OBVIOUS
<1>5. ASSUME NEW x \in S  PROVE m <= x
  <2>1. SUFFICES ASSUME x < m  PROVE FALSE
    OBVIOUS
  <2>2. 0 .. x \in upto /\ 0 .. x \subseteq 0 .. m /\ 0 .. x # 0 .. m
    <3>1. m \in 0 .. m /\ m \notin 0 .. x
      BY <2>1
    <3>2. 0 .. x \subseteq 0 .. m
      BY <2>1
    <3>3. 0 .. x \in upto
      OBVIOUS
    <3>4. QED BY <3>1, <3>2, <3>3
  <2>3. <<0 .. x, A>> \in below
    BY <2>2, <1>4 DEF StrictSubsetOrdering
  <2>4. QED BY <2>2, <2>3, <1>3
<1>6. \E x \in S : \A y \in S : x =< y
  BY <1>5
<1>7. QED BY <1>6 DEF Min

\* A nonempty finite set of natural numbers has a greatest element.
LEMMA MaxOf ==
    ASSUME NEW S \in SUBSET Nat, IsFiniteSet(S), S # {}
    PROVE  /\ Max(S) \in S
           /\ \A x \in S : x <= Max(S)
<1> DEFINE from(x) == {y \in S : y >= x}
           tails == {from(x) : x \in S}
           below == StrictSubsetOrdering(S)
<1>1. tails \subseteq FiniteSubsetsOf(S)
  <2>1. ASSUME NEW x \in S  PROVE from(x) \in FiniteSubsetsOf(S)
    BY FS_Subset DEF FiniteSubsetsOf
  <2>2. QED BY <2>1
<1>2. tails # {}
  OBVIOUS
<1>3. PICK A \in tails : \A B \in tails : <<B, A>> \notin below
  BY <1>1, <1>2, FS_StrictSubsetOrderingWellFounded, WFMin
<1>4. PICK m \in S : A = from(m)
  OBVIOUS
<1>5. ASSUME NEW x \in S  PROVE x <= m
  <2>1. SUFFICES ASSUME m < x  PROVE FALSE
    OBVIOUS
  <2>2. from(x) \in tails /\ from(x) \subseteq from(m) /\ from(x) # from(m)
    <3>1. m \in from(m) /\ m \notin from(x)
      BY <2>1
    <3>2. from(x) \subseteq from(m)
      <4>1. \A y \in S : y >= x => y >= m
        <5>1. S \subseteq Nat /\ x \in Nat /\ m \in Nat
          OBVIOUS
        <5>2. QED BY <5>1, <2>1
      <4>2. QED BY <4>1
    <3>3. from(x) \in tails
      <4> HIDE DEF from
      <4> QED OBVIOUS
    <3>4. QED
      <4> HIDE DEF from, tails
      <4> QED BY <3>1, <3>2, <3>3
  <2>3. <<from(x), A>> \in below
    BY <2>2, <1>4 DEF StrictSubsetOrdering
  <2>4. QED BY <2>2, <2>3, <1>3
<1>6. \E x \in S : \A y \in S : x >= y
  BY <1>5
<1>7. QED BY <1>6 DEF Max

\* The image of a finite set under a function.
LEMMA ImageFinite ==
    ASSUME NEW S, IsFiniteSet(S), NEW f, f = [x \in S |-> f[x]]
    PROVE  IsFiniteSet({f[x] : x \in S})
<1> DEFINE T == {f[x] : x \in S}
<1>1. f \in Surjection(S, T)
  BY DEF Surjection
<1>2. QED BY <1>1, FS_Surjection

LEMMA ItemOf ==
    ASSUME NEW S, NEW q \in Seq(S), NEW i \in 1 .. Len(q)
    PROVE  q[i] \in S
OBVIOUS

LEMMA MinOfTwo ==
    ASSUME NEW a \in Nat, NEW b \in Nat
    PROVE  /\ Min({a, b}) \in {a, b}
           /\ Min({a, b}) <= a /\ Min({a, b}) <= b
BY MinOf, {a, b} \in SUBSET Nat, {a, b} # {}, a \in {a, b}, b \in {a, b}

LEMMA MaxOfTwo ==
    ASSUME NEW a \in Nat, NEW b \in Nat
    PROVE  /\ Max({a, b}) \in {a, b}
           /\ a <= Max({a, b}) /\ b <= Max({a, b})
<1>1. IsFiniteSet({a, b})
  <2>1. IsFiniteSet({a}) /\ IsFiniteSet({b})
    BY FS_Singleton
  <2>2. {a, b} = {a} \cup {b}
    OBVIOUS
  <2>3. QED BY <2>1, <2>2, FS_Union
<1>2. QED
  BY <1>1, MaxOf, {a, b} \in SUBSET Nat, {a, b} # {}, a \in {a, b}, b \in {a, b}

-----------------------------------------------------------------------------
(* The inductive invariant of the cache. *)

\* Evidence that an evicted row is among what it stands for.
Stands(e, id, at) ==
    e.first <= id /\ at <= e.newest /\ (e.complete => id \in e.samples)

Covered(id) ==
    \/ legacy # None /\ (legacy = 0 \/ log[id].at <= legacy)
    \/ \E s \in {log[id].scope, Any} :
          evidence[s] # None /\ Stands(evidence[s], id, log[id].at)

\* Every evicted row is covered by a mark of no scope or by evidence of its
\* own scope or of the sentinel, run events are never evicted, and samples
\* that are complete are rows of their scope.
CacheInv ==
    /\ CacheTypeOK
    /\ Len(log) <= MaxEvents
    /\ IsFiniteSet(Recorded)
    /\ \A id \in Ids : log[id].scope \in RunScope => id \in kept
    /\ \A id \in Ids \ kept : Covered(id)
    /\ \A s \in Recorded : evidence[s].complete =>
          \A id \in evidence[s].samples : log[id].scope = s

Piece == [first : 0 .. MaxEvents, newest : Time, samples : SUBSET Nat,
          complete : BOOLEAN]

LEMMA PieceIsSome ==
    ASSUME NEW e \in Piece
    PROVE  /\ e # None /\ e.first \in Nat /\ e.newest \in Nat
           /\ e.samples \subseteq Nat /\ e.complete \in BOOLEAN
<1>1. 0 .. MaxEvents \subseteq Nat /\ Time \subseteq Nat
  BY CacheAssumption
<1>2. e \in [first : Nat, newest : Nat, samples : SUBSET Nat, complete : BOOLEAN]
  BY <1>1 DEF Piece
<1>3. QED BY <1>2, CacheAssumption

\* What is seen of the rows of an eviction stands for each of them.
LEMMA SeenIs ==
    ASSUME log \in Seq([scope : Scope, at : Time]), Len(log) <= MaxEvents,
           NEW ids \in SUBSET Ids, ids # {}
    PROVE  /\ Seen(ids) \in Piece
           /\ Seen(ids).samples = ids /\ Seen(ids).complete
           /\ \A id \in ids : Stands(Seen(ids), id, log[id].at)
<1> DEFINE at == [id \in ids |-> log[id].at]
           ats == {at[id] : id \in ids}
<1>1. Ids = 1 .. Len(log) /\ Len(log) \in Nat /\ \A id \in Ids : log[id].at \in Time
  <2>1. Ids = 1 .. Len(log) /\ Len(log) \in Nat
    BY DEF Ids
  <2>2. \A id \in Ids : log[id] \in [scope : Scope, at : Time]
    BY <2>1, ItemOf
  <2>3. QED BY <2>1, <2>2
<1>2. IsFiniteSet(ids) /\ ids \subseteq Nat
  <2>1. IsFiniteSet(1 .. Len(log))
    BY <1>1, FS_Interval
  <2>2. IsFiniteSet(ids)
    BY <1>1, <2>1, FS_Subset
  <2>3. QED BY <1>1, <2>2
<1>3. IsFiniteSet(ats)
  BY <1>2, ImageFinite
<1>4. ats \subseteq Time /\ ats # {} /\ ats = {log[id].at : id \in ids}
  BY <1>1, ids \subseteq Ids
<1>5. Max(ats) \in ats /\ \A x \in ats : x <= Max(ats)
  <2>1. ats \in SUBSET Nat
    BY <1>4, CacheAssumption
  <2>2. QED BY <1>3, <1>4, <2>1, MaxOf
<1>6. Min(ids) \in ids /\ \A id \in ids : Min(ids) <= id
  BY <1>2, MinOf
<1>7. Min(ids) \in 0 .. MaxEvents
  <2>1. Min(ids) \in 1 .. Len(log)
    BY <1>1, <1>6
  <2>2. MaxEvents \in Nat
    BY CacheAssumption
  <2>3. QED BY <1>1, <2>1, <2>2
<1>8. Seen(ids) = [first |-> Min(ids), newest |-> Max(ats), samples |-> ids,
                   complete |-> TRUE]
  BY <1>4 DEF Seen
<1> HIDE DEF ats
<1>9. Seen(ids) \in Piece
  BY <1>2, <1>4, <1>5, <1>7, <1>8 DEF Piece
<1>10. ASSUME NEW id \in ids  PROVE Stands(Seen(ids), id, log[id].at)
  <2>1. log[id].at \in ats
    BY <1>4
  <2>2. log[id].at <= Max(ats) /\ Min(ids) <= id
    BY <2>1, <1>5, <1>6
  <2>3. QED BY <2>2, <1>8 DEF Stands
<1>11. Seen(ids).samples = ids /\ Seen(ids).complete
  BY <1>8
<1>12. QED BY <1>9, <1>10, <1>11

\* Two pieces of evidence as one stand for what either stood for.
LEMMA MergedIs ==
    ASSUME NEW e \in Piece, NEW f \in Piece
    PROVE  /\ Merged(e, f) \in Piece
           /\ Merged(e, f).samples = e.samples \cup f.samples
           /\ Merged(e, f).complete = (e.complete /\ f.complete)
           /\ \A id \in Nat, at \in Nat :
                Stands(e, id, at) \/ Stands(f, id, at) => Stands(Merged(e, f), id, at)
<1>1. /\ e.first \in 0 .. MaxEvents /\ e.newest \in Time /\ e.samples \subseteq Nat
      /\ f.first \in 0 .. MaxEvents /\ f.newest \in Time /\ f.samples \subseteq Nat
      /\ e.complete \in BOOLEAN /\ f.complete \in BOOLEAN
  BY DEF Piece
<1>2. Time \subseteq Nat /\ MaxEvents \in Nat
  BY CacheAssumption
<1>3. /\ Min({e.first, f.first}) \in {e.first, f.first}
      /\ Min({e.first, f.first}) <= e.first /\ Min({e.first, f.first}) <= f.first
  BY <1>1, <1>2, MinOfTwo
<1>4. /\ Max({e.newest, f.newest}) \in {e.newest, f.newest}
      /\ e.newest <= Max({e.newest, f.newest})
      /\ f.newest <= Max({e.newest, f.newest})
  BY <1>1, <1>2, MaxOfTwo
<1> DEFINE lo == Min({e.first, f.first})
           hi == Max({e.newest, f.newest})
<1>5. Merged(e, f) = [first |-> lo, newest |-> hi,
                      samples |-> e.samples \cup f.samples,
                      complete |-> e.complete /\ f.complete]
  BY DEF Merged
<1> HIDE DEF lo, hi
<1>6. lo \in 0 .. MaxEvents /\ hi \in Time
  BY <1>1, <1>3, <1>4 DEF lo, hi
<1>7. Merged(e, f) \in Piece
  <2>1. (e.complete /\ f.complete) \in BOOLEAN /\ (e.samples \cup f.samples) \subseteq Nat
    BY <1>1
  <2>2. QED BY <1>5, <1>6, <2>1 DEF Piece
<1>9. /\ Merged(e, f).first = lo /\ Merged(e, f).newest = hi
      /\ Merged(e, f).samples = e.samples \cup f.samples
      /\ Merged(e, f).complete = (e.complete /\ f.complete)
  BY <1>5
<1>8. ASSUME NEW id \in Nat, NEW at \in Nat,
             Stands(e, id, at) \/ Stands(f, id, at)
      PROVE  Stands(Merged(e, f), id, at)
  <2>1. lo <= e.first /\ lo <= f.first /\ e.newest <= hi /\ f.newest <= hi
    BY <1>3, <1>4 DEF lo, hi
  <2>2. /\ lo \in Nat /\ e.first \in Nat /\ f.first \in Nat
        /\ hi \in Nat /\ e.newest \in Nat /\ f.newest \in Nat
    <3>1. 0 .. MaxEvents \subseteq Nat
      BY <1>2
    <3>2. QED BY <1>1, <1>2, <1>6, <3>1
  <2>3. \/ e.first <= id /\ at <= e.newest
        \/ f.first <= id /\ at <= f.newest
    BY <1>8 DEF Stands
  <2>4. lo <= id /\ at <= hi
    BY <2>1, <2>2, <2>3
  <2>5. e.complete /\ f.complete => id \in e.samples \cup f.samples
    BY <1>8 DEF Stands
  <2>6. QED BY <1>9, <2>4, <2>5 DEF Stands
<1>10. QED BY <1>7, <1>8, <1>9

\* The cap takes the samples and leaves the bounds.
LEMMA CappedIs ==
    ASSUME NEW e \in Piece
    PROVE  /\ Capped(e) \in Piece
           /\ Capped(e).samples \subseteq e.samples
           /\ Cardinality(Capped(e).samples) <= SampleCap
           /\ Capped(e).complete => e.complete /\ Capped(e) = e
           /\ \A id \in Nat, at \in Nat :
                Stands(e, id, at) => Stands(Capped(e), id, at)
<1>1. CASE e.complete /\ Cardinality(e.samples) <= SampleCap
  BY <1>1 DEF Capped
<1>2. CASE ~(e.complete /\ Cardinality(e.samples) <= SampleCap)
  <2>1. Capped(e) = [first |-> e.first, newest |-> e.newest, samples |-> {},
                     complete |-> FALSE]
    <3>1. Capped(e) = [e EXCEPT !.samples = {}, !.complete = FALSE]
      BY <1>2 DEF Capped
    <3>2. QED BY <3>1 DEF Piece
  <2>2. Capped(e) \in Piece
    BY <2>1 DEF Piece
  <2>3. Cardinality({}) <= SampleCap
    BY FS_EmptySet, CacheAssumption
  <2>4. QED BY <2>1, <2>2, <2>3 DEF Stands
<1>3. QED BY <1>1, <1>2

\* All evidence folded into one stands for what any of it stood for.
LEMMA FoldedIs ==
    ASSUME NEW es \in SUBSET Piece, es # {}, IsFiniteSet(es)
    PROVE  /\ Folded(es) \in Piece
           /\ Folded(es).samples = {} /\ ~Folded(es).complete
           /\ \A e \in es, id \in Nat, at \in Nat :
                Stands(e, id, at) => Stands(Folded(es), id, at)
<1> DEFINE first == [e \in es |-> e.first]
           newest == [e \in es |-> e.newest]
           los == {first[e] : e \in es}
           his == {newest[e] : e \in es}
<1>1. /\ los = {e.first : e \in es} /\ his = {e.newest : e \in es}
      /\ los # {} /\ his # {}
  OBVIOUS
<1>2. los \subseteq 0 .. MaxEvents /\ his \subseteq Time
  BY DEF Piece
<1>3. Time \subseteq Nat /\ MaxEvents \in Nat
  BY CacheAssumption
<1>4. IsFiniteSet(his)
  BY ImageFinite
<1> HIDE DEF los, his
<1>5. Min(los) \in los /\ \A x \in los : Min(los) <= x
  <2>1. los \in SUBSET Nat
    BY <1>2, <1>3
  <2>2. QED BY <1>1, <2>1, MinOf
<1>6. Max(his) \in his /\ \A x \in his : x <= Max(his)
  <2>1. his \in SUBSET Nat
    BY <1>2, <1>3
  <2>2. QED BY <1>1, <1>4, <2>1, MaxOf
<1>7. Folded(es) = [first |-> Min(los), newest |-> Max(his), samples |-> {},
                    complete |-> FALSE]
  BY <1>1 DEF Folded
<1>8. Folded(es) \in Piece
  <2>1. Min(los) \in 0 .. MaxEvents /\ Max(his) \in Time /\ {} \subseteq Nat
    BY <1>2, <1>5, <1>6
  <2>2. QED BY <1>7, <2>1 DEF Piece
<1>9. ASSUME NEW e \in es, NEW id \in Nat, NEW at \in Nat, Stands(e, id, at)
      PROVE  Stands(Folded(es), id, at)
  <2>1. e.first \in los /\ e.newest \in his
    BY <1>1
  <2>2. /\ Min(los) \in Nat /\ e.first \in Nat
        /\ Max(his) \in Nat /\ e.newest \in Nat
    <3>1. 0 .. MaxEvents \subseteq Nat
      BY <1>3
    <3>2. QED BY <2>1, <1>2, <1>3, <1>5, <1>6, <3>1
  <2>3. e.first <= id /\ at <= e.newest
    BY <1>9 DEF Stands
  <2>4. Min(los) <= e.first /\ e.newest <= Max(his)
    BY <2>1, <1>5, <1>6
  <2>5. Min(los) <= id /\ at <= Max(his)
    BY <2>2, <2>3, <2>4
  <2>6. QED BY <1>7, <2>5 DEF Stands
<1>10. Folded(es).samples = {} /\ ~Folded(es).complete
  BY <1>7
<1>11. QED BY <1>8, <1>9, <1>10

\* Evidence of the invariant's type is a piece of it.
LEMMA EvidenceIs ==
    ASSUME CacheInv, NEW s \in Recorded
    PROVE  /\ s \in Scope \cup {Any} /\ evidence[s] \in Piece
           /\ evidence[s].samples \subseteq Ids \ kept
BY DEF CacheInv, CacheTypeOK, Recorded, Evidence, Piece, Ids

LEMMA CacheInitInv == CacheInit => CacheInv
<1> SUFFICES ASSUME CacheInit  PROVE CacheInv
  OBVIOUS
<1>1. kept = {}
  BY DEF CacheInit
<1>2. {Any} \cup Scope # {} /\ MaxEvents \in Nat /\ 1 <= MaxEvents /\ ScopeCap \in Nat
  BY CacheAssumption
<1>3. 1 <= Max({ScopeCap, 1}) /\ Max({ScopeCap, 1}) \in Nat
  BY <1>2, MaxOfTwo
<1>4. CASE log = <<>> /\ legacy = None
           /\ evidence = [s \in Scope \cup {Any} |-> None]
  <2>1. Ids = {} /\ Recorded = {} /\ Len(log) = 0
    BY <1>4 DEF Ids, Recorded
  <2>2. IsFiniteSet(Recorded) /\ Cardinality(Recorded) = 0
    BY <2>1, FS_EmptySet
  <2>3. CacheTypeOK
    BY <1>1, <1>3, <1>4, <2>1, <2>2 DEF CacheTypeOK
  <2>4. QED BY <1>2, <2>1, <2>2, <2>3 DEF CacheInv
<1>5. ASSUME NEW s \in Scope \ RunScope, NEW t \in Time,
             log = <<[scope |-> s, at |-> t]>>,
             legacy \in {0, t}, evidence = [x \in Scope \cup {Any} |-> None]
      PROVE  CacheInv
  <2>1. /\ Ids = {1} /\ Recorded = {} /\ Len(log) = 1
        /\ log[1] = [scope |-> s, at |-> t]
        /\ log \in Seq([scope : Scope, at : Time])
    BY <1>5 DEF Ids, Recorded
  <2>2. IsFiniteSet(Recorded) /\ Cardinality(Recorded) = 0
    BY <2>1, FS_EmptySet
  <2>3. CacheTypeOK
    BY <1>1, <1>3, <1>5, <2>1, <2>2 DEF CacheTypeOK
  <2>4. legacy # None /\ (legacy = 0 \/ t <= legacy)
    BY <1>5, CacheAssumption
  <2>5. Covered(1)
    BY <2>1, <2>4 DEF Covered
  <2>6. QED BY <1>2, <2>1, <2>2, <2>3, <2>5 DEF CacheInv
<1>6. ASSUME NEW s \in Scope \ RunScope, NEW t \in Time,
             log = <<[scope |-> s, at |-> t]>>, legacy = None,
             evidence = [x \in Scope \cup {Any} |->
                           IF x = s THEN [first |-> 0, newest |-> t,
                                          samples |-> {}, complete |-> FALSE]
                           ELSE None]
      PROVE  CacheInv
  <2> DEFINE e == [first |-> 0, newest |-> t, samples |-> {}, complete |-> FALSE]
  <2>1. /\ Ids = {1} /\ Len(log) = 1
        /\ log[1] = [scope |-> s, at |-> t]
        /\ log \in Seq([scope : Scope, at : Time])
    BY <1>6 DEF Ids
  <2>2. e \in Piece /\ e \in Evidence
    BY <1>2 DEF Piece, Evidence
  <2>3. e # None /\ s # Any
    BY <2>2, PieceIsSome, CacheAssumption
  <2>4. evidence[s] = e /\ \A x \in Scope \cup {Any} : x # s => evidence[x] = None
    BY <1>6
  <2>5. evidence \in [Scope \cup {Any} -> {None} \cup Evidence]
    BY <1>6, <2>2
  <2>6. Recorded = {s}
    BY <2>3, <2>4 DEF Recorded
  <2>7. IsFiniteSet(Recorded) /\ Cardinality(Recorded) = 1
    BY <2>6, FS_Singleton
  <2>8. Cardinality({}) <= SampleCap
    BY FS_EmptySet, CacheAssumption
  <2>9. CacheTypeOK
    BY <1>1, <1>3, <1>6, <2>1, <2>3, <2>4, <2>5, <2>6, <2>7, <2>8 DEF CacheTypeOK
  <2>10. Stands(e, 1, t)
    BY CacheAssumption DEF Stands
  <2>11. Covered(1)
    BY <2>1, <2>3, <2>4, <2>10 DEF Covered
  <2>12. QED BY <1>1, <1>2, <2>1, <2>4, <2>6, <2>7, <2>9, <2>11 DEF CacheInv
<1>7. QED BY <1>4, <1>5, <1>6 DEF CacheInit

LEMMA AtIs ==
    ASSUME CacheInv, NEW id \in Ids
    PROVE  /\ id \in Nat /\ id <= MaxEvents
           /\ log[id] \in [scope : Scope, at : Time] /\ log[id].at \in Nat
<1>1. Ids = 1 .. Len(log) /\ Len(log) \in Nat /\ Len(log) <= MaxEvents
  BY DEF CacheInv, CacheTypeOK, Ids
<1>2. log[id] \in [scope : Scope, at : Time]
  BY <1>1, ItemOf DEF CacheInv, CacheTypeOK
<1>3. log[id].at \in Nat
  BY <1>2, CacheAssumption
<1>4. id \in Nat /\ id <= MaxEvents
  <2>1. MaxEvents \in Nat /\ id \in 1 .. Len(log)
    BY <1>1, CacheAssumption
  <2>2. QED BY <1>1, <2>1
<1>5. QED BY <1>2, <1>3, <1>4

\* A row more is a row kept.
LEMMA RecordEventInv ==
    ASSUME CacheInv, NEW s \in Scope, NEW t \in Time, RecordEvent(s, t)
    PROVE  CacheInv'
<1> DEFINE n == Len(log) + 1
<1>1. /\ Len(log) < MaxEvents /\ log' = Append(log, [scope |-> s, at |-> t])
      /\ kept' = kept \cup {n} /\ UNCHANGED <<evidence, legacy>>
  BY DEF RecordEvent
<1>2. log \in Seq([scope : Scope, at : Time]) /\ Len(log) \in Nat /\ MaxEvents \in Nat
  BY CacheAssumption DEF CacheInv, CacheTypeOK
<1>3. /\ Ids = 1 .. Len(log) /\ Ids' = 1 .. n /\ Len(log') = n
      /\ log' \in Seq([scope : Scope, at : Time])
      /\ log'[n] = [scope |-> s, at |-> t]
      /\ \A id \in Ids : log'[id] = log[id]
  BY <1>1, <1>2 DEF Ids
<1>4. Ids' \ kept' = Ids \ kept /\ kept' \subseteq Ids'
  <2>1. kept \subseteq Ids
    BY DEF CacheInv, CacheTypeOK
  <2>2. n \notin Ids /\ Ids' = Ids \cup {n}
    BY <1>2, <1>3
  <2>3. QED BY <1>1, <2>1, <2>2
<1>5. Recorded' = Recorded
  BY <1>1 DEF Recorded
<1>6. Evidence \subseteq Evidence'
  <2>1. Ids \subseteq Ids'
    BY <1>2, <1>3
  <2>2. QED BY <2>1 DEF Evidence
<1>7. CacheTypeOK'
  <2>1. evidence' \in [Scope \cup {Any} -> {None} \cup Evidence']
    BY <1>1, <1>6 DEF CacheInv, CacheTypeOK
  <2>2. QED BY <1>1, <1>3, <1>4, <1>5, <2>1 DEF CacheInv, CacheTypeOK
<1>8. (Len(log) <= MaxEvents)' /\ IsFiniteSet(Recorded)'
  BY <1>1, <1>2, <1>3, <1>5 DEF CacheInv
<1>9. \A id \in Ids' : log'[id].scope \in RunScope => id \in kept'
  <2>1. Ids' = Ids \cup {n}
    BY <1>2, <1>3
  <2>2. QED BY <1>1, <1>3, <2>1 DEF CacheInv
<1>10. ASSUME NEW id \in Ids' \ kept'  PROVE Covered(id)'
  <2>1. id \in Ids \ kept /\ log'[id] = log[id]
    BY <1>3, <1>4
  <2>2. Covered(id)
    BY <2>1 DEF CacheInv
  <2>3. QED BY <1>1, <2>1, <2>2 DEF Covered
<1>11. \A x \in Recorded' : evidence'[x].complete =>
          \A id \in evidence'[x].samples : log'[id].scope = x
  <2>1. \A x \in Recorded : evidence[x].samples \subseteq Ids
    BY EvidenceIs
  <2>2. QED BY <1>1, <1>3, <1>5, <2>1 DEF CacheInv
<1>12. QED BY <1>7, <1>8, <1>9, <1>10, <1>11 DEF CacheInv

\* What an eviction takes: rows of the cache that are not of Runs, of each
\* scope it touches some.
LEMMA DoomedIs ==
    ASSUME CacheInv
    PROVE  /\ Doomed \subseteq kept /\ kept \subseteq Ids /\ IsFiniteSet(Ids)
           /\ \A id \in Doomed : log[id].scope \in Scope \ RunScope
           /\ IsFiniteSet(Touched) /\ Touched \subseteq Scope
           /\ \A s \in Touched : Of(s) \in SUBSET Ids /\ Of(s) # {}
           /\ \A s \in Touched : Of(s) \subseteq Doomed
           /\ \A id \in Doomed : log[id].scope \in Touched /\ id \in Of(log[id].scope)
<1>1. kept \subseteq Ids /\ log \in Seq([scope : Scope, at : Time])
  BY DEF CacheInv, CacheTypeOK
<1>2. IsFiniteSet(Ids) /\ Ids = 1 .. Len(log)
  <2>1. Ids = 1 .. Len(log) /\ Len(log) \in Nat
    BY <1>1 DEF Ids
  <2>2. QED BY <2>1, FS_Interval
<1>3. Doomed \subseteq kept
  BY DEF Doomed, Evictable
<1>4. \A id \in Ids : log[id] \in [scope : Scope, at : Time]
  BY <1>1, <1>2, ItemOf
<1>5. \A id \in Doomed : log[id].scope \in Scope \ RunScope
  <2>1. \A id \in Doomed : log[id].scope \notin RunScope
    BY DEF Doomed, Evictable
  <2>2. QED BY <1>1, <1>3, <1>4, <2>1
<1>6. IsFiniteSet(Touched)
  <2> DEFINE f == [id \in Doomed |-> log[id].scope]
  <2>1. IsFiniteSet(Doomed)
    BY <1>1, <1>2, <1>3, FS_Subset
  <2>2. IsFiniteSet({f[id] : id \in Doomed})
    BY <2>1, ImageFinite
  <2>3. Touched = {f[id] : id \in Doomed}
    BY DEF Touched
  <2>4. QED BY <2>2, <2>3
<1>7. QED BY <1>1, <1>2, <1>3, <1>5, <1>6 DEF Touched, Of

\* The evidence of an eviction, of one scope.
LEMMA SeenOf ==
    ASSUME CacheInv, NEW s \in Touched
    PROVE  /\ Seen(Of(s)) \in Piece
           /\ Seen(Of(s)).samples = Of(s) /\ Seen(Of(s)).complete
           /\ \A id \in Of(s) : Stands(Seen(Of(s)), id, log[id].at)
BY DoomedIs, SeenIs DEF CacheInv, CacheTypeOK

\* An eviction that collapses the evidence leaves the sentinel's, which
\* stands for every row any scope's stood for and for the rows evicted.
LEMMA CollapseIs ==
    ASSUME CacheInv, Doomed # {}, Collapses
    PROVE  /\ NewEvidence[Any] \in Piece
           /\ NewEvidence[Any].samples = {} /\ ~NewEvidence[Any].complete
           /\ \A s \in Scope : NewEvidence[s] = None
           /\ \A s \in Recorded, id \in Nat, at \in Nat :
                Stands(evidence[s], id, at) => Stands(NewEvidence[Any], id, at)
           /\ \A id \in Doomed : Stands(NewEvidence[Any], id, log[id].at)
<1> DEFINE es == {Seen(Of(t)) : t \in Touched} \cup {evidence[t] : t \in Recorded}
<1>1. es \in SUBSET Piece
  BY SeenOf, EvidenceIs
<1>2. es # {}
  BY DoomedIs
<1>3. IsFiniteSet(es)
  <2> DEFINE f == [t \in Touched |-> Seen(Of(t))]
             g == [t \in Recorded |-> evidence[t]]
  <2>1. IsFiniteSet({f[t] : t \in Touched})
    BY DoomedIs, ImageFinite
  <2>2. IsFiniteSet({g[t] : t \in Recorded})
    <3>1. IsFiniteSet(Recorded)
      BY DEF CacheInv
    <3>2. QED BY <3>1, ImageFinite
  <2>3. es = {f[t] : t \in Touched} \cup {g[t] : t \in Recorded}
    OBVIOUS
  <2>4. QED BY <2>1, <2>2, <2>3, FS_Union
<1>4. NewEvidence = [s \in Scope \cup {Any} |-> IF s = Any THEN Folded(es) ELSE None]
  BY DEF NewEvidence
<1>5. NewEvidence[Any] = Folded(es) /\ \A s \in Scope : NewEvidence[s] = None
  BY <1>4, CacheAssumption
<1> HIDE DEF es
<1>6. /\ Folded(es) \in Piece
      /\ Folded(es).samples = {} /\ ~Folded(es).complete
      /\ \A e \in es, id \in Nat, at \in Nat :
           Stands(e, id, at) => Stands(Folded(es), id, at)
  BY <1>1, <1>2, <1>3, FoldedIs
<1>7. ASSUME NEW s \in Recorded, NEW id \in Nat, NEW at \in Nat,
             Stands(evidence[s], id, at)
      PROVE  Stands(NewEvidence[Any], id, at)
  <2>1. evidence[s] \in es
    BY DEF es
  <2>2. QED BY <1>5, <1>6, <1>7, <2>1
<1>8. ASSUME NEW id \in Doomed  PROVE Stands(NewEvidence[Any], id, log[id].at)
  <2>1. log[id].scope \in Touched /\ id \in Of(log[id].scope)
    BY DoomedIs
  <2>2. Seen(Of(log[id].scope)) \in es
    BY <2>1 DEF es
  <2>3. Stands(Seen(Of(log[id].scope)), id, log[id].at)
    BY <2>1, SeenOf
  <2>4. id \in Nat /\ log[id].at \in Nat
    BY DoomedIs, AtIs
  <2>5. QED BY <1>5, <1>6, <2>2, <2>3, <2>4
<1>9. QED BY <1>5, <1>6, <1>7, <1>8

\* An eviction that does not adds to the evidence of each scope it touches.
LEMMA ScopesAre ==
    ASSUME CacheInv, ~Collapses
    PROVE  /\ \A s \in (Scope \cup {Any}) \ Touched : NewEvidence[s] = evidence[s]
           /\ \A s \in Touched :
                /\ NewEvidence[s] \in Piece
                /\ Cardinality(NewEvidence[s].samples) <= SampleCap
                /\ NewEvidence[s].samples \subseteq
                     Of(s) \cup (IF s \in Recorded THEN evidence[s].samples ELSE {})
                /\ NewEvidence[s].complete =>
                     (s \in Recorded => evidence[s].complete)
                /\ s \in Recorded => \A id \in Nat, at \in Nat :
                     Stands(evidence[s], id, at) => Stands(NewEvidence[s], id, at)
                /\ \A id \in Of(s) : Stands(NewEvidence[s], id, log[id].at)
<1>1. NewEvidence = [s \in Scope \cup {Any} |->
            IF s \notin Touched THEN evidence[s]
            ELSE IF evidence[s] = None THEN Capped(Seen(Of(s)))
            ELSE Capped(Merged(evidence[s], Seen(Of(s))))]
  BY DEF NewEvidence
<1>2. ASSUME NEW s \in Touched
      PROVE  /\ NewEvidence[s] \in Piece
             /\ Cardinality(NewEvidence[s].samples) <= SampleCap
             /\ NewEvidence[s].samples \subseteq
                  Of(s) \cup (IF s \in Recorded THEN evidence[s].samples ELSE {})
             /\ NewEvidence[s].complete => (s \in Recorded => evidence[s].complete)
             /\ s \in Recorded => \A id \in Nat, at \in Nat :
                  Stands(evidence[s], id, at) => Stands(NewEvidence[s], id, at)
             /\ \A id \in Of(s) : Stands(NewEvidence[s], id, log[id].at)
  <2> DEFINE seen == Seen(Of(s))
  <2>1. /\ seen \in Piece /\ seen.samples = Of(s) /\ seen.complete
        /\ \A id \in Of(s) : Stands(seen, id, log[id].at)
    BY SeenOf
  <2>2. s \in Scope /\ \A id \in Of(s) : id \in Nat /\ log[id].at \in Nat
    BY DoomedIs, AtIs
  <2> HIDE DEF seen
  <2>3. CASE evidence[s] = None
    <3>1. NewEvidence[s] = Capped(seen) /\ s \notin Recorded
      BY <1>1, <2>2, <2>3 DEF seen, Recorded
    <3>2. QED BY <2>1, <2>2, <3>1, CappedIs
  <2>4. CASE evidence[s] # None
    <3> DEFINE both == Merged(evidence[s], seen)
    <3>1. NewEvidence[s] = Capped(both) /\ s \in Recorded
      BY <1>1, <2>2, <2>4 DEF seen, Recorded
    <3>2. evidence[s] \in Piece
      BY <3>1, EvidenceIs
    <3>3. /\ both \in Piece /\ both.samples = evidence[s].samples \cup Of(s)
          /\ both.complete = (evidence[s].complete /\ seen.complete)
          /\ \A id \in Nat, at \in Nat :
                Stands(evidence[s], id, at) \/ Stands(seen, id, at)
                  => Stands(both, id, at)
      BY <2>1, <3>2, MergedIs
    <3> HIDE DEF both
    <3>4. /\ Capped(both) \in Piece
          /\ Capped(both).samples \subseteq both.samples
          /\ Cardinality(Capped(both).samples) <= SampleCap
          /\ Capped(both).complete => both.complete
          /\ \A id \in Nat, at \in Nat :
                Stands(both, id, at) => Stands(Capped(both), id, at)
      BY <3>3, CappedIs
    <3>5. QED BY <2>1, <2>2, <3>1, <3>3, <3>4
  <2>5. QED BY <2>3, <2>4
<1>3. Touched \subseteq Scope
  BY DoomedIs
<1>4. QED BY <1>1, <1>2, <1>3

LEMMA EvictProgressInv ==
    ASSUME CacheInv, EvictProgress
    PROVE  CacheInv'
<1>1. /\ Doomed # {} /\ kept' = kept \ Doomed /\ evidence' = NewEvidence
      /\ log' = log /\ legacy' = legacy
  BY DEF EvictProgress
<1>2. /\ Ids' = Ids /\ Evidence' = Evidence
      /\ Ids' \ kept' = (Ids \ kept) \cup Doomed
      /\ kept' \subseteq Ids'
  <2>1. Ids' = Ids /\ Doomed \subseteq kept /\ kept \subseteq Ids
    BY <1>1, DoomedIs DEF Ids
  <2>2. Evidence' = Evidence
    BY <2>1 DEF Evidence
  <2>3. QED BY <1>1, <2>1, <2>2
<1>3. evidence' \in [Scope \cup {Any} -> {evidence'[s] : s \in Scope \cup {Any}}]
  BY <1>1 DEF NewEvidence
<1>4. \A s \in Scope \cup {Any} : s \in Recorded' <=> evidence'[s] # None
  BY DEF Recorded
<1>5. \A s \in Scope : s # Any
  BY CacheAssumption
<1> DEFINE Good(s) ==
      /\ evidence'[s] \in Piece
      /\ evidence'[s].samples \subseteq Ids \ kept'
      /\ Cardinality(evidence'[s].samples) <= SampleCap
      /\ s = Any => Recorded' = {Any} /\ ~evidence'[Any].complete
      /\ evidence'[s].complete =>
           \A id \in evidence'[s].samples : log[id].scope = s
<1>6. /\ \A s \in Recorded' : Good(s)
      /\ IsFiniteSet(Recorded')
      /\ Cardinality(Recorded') <= Max({ScopeCap, 1})
      /\ \A id \in Ids' \ kept' : Covered(id)'
  <2>1. ScopeCap \in Nat /\ SampleCap \in Nat
    BY CacheAssumption
  <2>2. /\ Max({ScopeCap, 1}) \in Nat
        /\ ScopeCap <= Max({ScopeCap, 1}) /\ 1 <= Max({ScopeCap, 1})
    BY <2>1, MaxOfTwo
  <2>3. CASE Collapses
    <3>1. /\ evidence'[Any] \in Piece
          /\ evidence'[Any].samples = {} /\ ~evidence'[Any].complete
          /\ \A s \in Scope : evidence'[s] = None
          /\ \A s \in Recorded, id \in Nat, at \in Nat :
               Stands(evidence[s], id, at) => Stands(evidence'[Any], id, at)
          /\ \A id \in Doomed : Stands(evidence'[Any], id, log[id].at)
      BY <1>1, <2>3, CollapseIs
    <3>2. Recorded' = {Any}
      BY <1>4, <3>1, PieceIsSome DEF Recorded
    <3>3. Cardinality({}) <= SampleCap
      BY <2>1, FS_EmptySet
    <3>4. \A s \in Recorded' : Good(s)
      BY <3>1, <3>2, <3>3
    <3>5. IsFiniteSet(Recorded') /\ Cardinality(Recorded') <= Max({ScopeCap, 1})
      BY <2>2, <3>2, FS_Singleton
    <3>6. ASSUME NEW id \in Ids' \ kept'  PROVE Covered(id)'
      <4>1. evidence'[Any] # None
        BY <3>1, PieceIsSome
      <4>2. CASE id \in Doomed
        BY <1>1, <3>1, <4>1, <4>2 DEF Covered
      <4>3. CASE id \in Ids \ kept
        <5>1. Covered(id)
          BY <4>3 DEF CacheInv
        <5>2. id \in Nat /\ log[id].at \in Nat /\ log[id].scope \in Scope
          BY <4>3, AtIs
        <5>3. CASE legacy # None /\ (legacy = 0 \/ log[id].at <= legacy)
          BY <1>1, <5>3 DEF Covered
        <5>4. CASE \E s \in {log[id].scope, Any} :
                     evidence[s] # None /\ Stands(evidence[s], id, log[id].at)
          <6>1. PICK s \in {log[id].scope, Any} :
                     evidence[s] # None /\ Stands(evidence[s], id, log[id].at)
            BY <5>4
          <6>2. s \in Recorded
            BY <5>2, <6>1 DEF Recorded
          <6>3. Stands(evidence'[Any], id, log[id].at)
            BY <3>1, <5>2, <6>1, <6>2
          <6>4. QED BY <1>1, <4>1, <6>3 DEF Covered
        <5>5. QED BY <5>1, <5>3, <5>4 DEF Covered
      <4>4. QED BY <1>2, <4>2, <4>3
    <3>7. QED BY <3>4, <3>5, <3>6
  <2>4. CASE ~Collapses
    <3>1. /\ \A s \in (Scope \cup {Any}) \ Touched : evidence'[s] = evidence[s]
          /\ \A s \in Touched :
               /\ evidence'[s] \in Piece
               /\ Cardinality(evidence'[s].samples) <= SampleCap
               /\ evidence'[s].samples \subseteq
                    Of(s) \cup (IF s \in Recorded THEN evidence[s].samples ELSE {})
               /\ evidence'[s].complete =>
                    (s \in Recorded => evidence[s].complete)
               /\ s \in Recorded => \A id \in Nat, at \in Nat :
                    Stands(evidence[s], id, at) => Stands(evidence'[s], id, at)
               /\ \A id \in Of(s) : Stands(evidence'[s], id, log[id].at)
      BY <1>1, <2>4, ScopesAre
    <3>2. Touched \subseteq Scope /\ Any \notin Touched /\ Any \notin Recorded
      BY <2>4, DoomedIs, CacheAssumption DEF Collapses, Recorded
    <3>3. Recorded' = Recorded \cup Touched
      BY <1>4, <3>1, <3>2, PieceIsSome DEF Recorded
    <3>4. /\ IsFiniteSet(Recorded')
          /\ Cardinality(Recorded') <= Max({ScopeCap, 1})
      <4>1. IsFiniteSet(Recorded \cup Touched)
        BY DoomedIs, FS_Union DEF CacheInv
      <4>2. Cardinality(Recorded \cup Touched) \in Nat
        BY <4>1, FS_CardinalityType
      <4>3. Cardinality(Recorded \cup Touched) <= ScopeCap
        BY <2>1, <2>4, <4>2 DEF Collapses
      <4>4. QED BY <2>1, <2>2, <3>3, <4>1, <4>2, <4>3
    <3>5. ASSUME NEW s \in Recorded'  PROVE Good(s)
      <4>1. Doomed \subseteq kept /\ kept \subseteq Ids
        BY DoomedIs
      <4>2. CASE s \notin Touched
        <5>1. s \in Recorded /\ evidence'[s] = evidence[s] /\ s # Any
          BY <3>1, <3>2, <3>3, <4>2 DEF Recorded
        <5>2. evidence[s] \in Piece /\ evidence[s].samples \subseteq Ids \ kept
          BY <5>1, EvidenceIs
        <5>3. /\ Cardinality(evidence[s].samples) <= SampleCap
              /\ evidence[s].complete =>
                   \A id \in evidence[s].samples : log[id].scope = s
          BY <5>1 DEF CacheInv, CacheTypeOK
        <5>4. QED BY <1>1, <5>1, <5>2, <5>3
      <4>3. CASE s \in Touched
        <5>1. Of(s) \subseteq Doomed /\ s # Any
          BY <3>2, <4>3, DoomedIs
        <5>2. \A id \in Of(s) : log[id].scope = s
          BY DEF Of
        <5>3. s \in Recorded => evidence[s].samples \subseteq Ids \ kept
          BY EvidenceIs
        <5>4. evidence'[s].samples \subseteq Ids \ kept'
          BY <1>1, <3>1, <4>1, <4>3, <5>1, <5>3
        <5>5. evidence'[s].complete =>
                \A id \in evidence'[s].samples : log[id].scope = s
          BY <3>1, <4>3, <5>2 DEF CacheInv
        <5>6. QED BY <3>1, <4>3, <5>1, <5>4, <5>5
      <4>4. QED BY <4>2, <4>3
    <3>6. ASSUME NEW id \in Ids' \ kept'  PROVE Covered(id)'
      <4>1. CASE id \in Doomed
        <5>1. /\ log[id].scope \in Touched /\ id \in Of(log[id].scope)
          BY <4>1, DoomedIs
        <5>2. /\ evidence'[log[id].scope] # None
              /\ Stands(evidence'[log[id].scope], id, log[id].at)
          BY <3>1, <5>1, PieceIsSome
        <5>3. QED BY <1>1, <5>2 DEF Covered
      <4>2. CASE id \in Ids \ kept
        <5>1. Covered(id)
          BY <4>2 DEF CacheInv
        <5>2. id \in Nat /\ log[id].at \in Nat /\ log[id].scope \in Scope
          BY <4>2, AtIs
        <5>3. CASE legacy # None /\ (legacy = 0 \/ log[id].at <= legacy)
          BY <1>1, <5>3 DEF Covered
        <5>4. CASE \E s \in {log[id].scope, Any} :
                     evidence[s] # None /\ Stands(evidence[s], id, log[id].at)
          <6>1. PICK s \in {log[id].scope, Any} :
                     evidence[s] # None /\ Stands(evidence[s], id, log[id].at)
            BY <5>4
          <6>2. s \in Recorded
            BY <5>2, <6>1 DEF Recorded
          <6>3. evidence'[s] # None /\ Stands(evidence'[s], id, log[id].at)
            BY <3>1, <5>2, <6>1, <6>2, PieceIsSome DEF Recorded
          <6>4. QED BY <1>1, <6>1, <6>3 DEF Covered
        <5>5. QED BY <5>1, <5>3, <5>4 DEF Covered
      <4>3. QED BY <1>2, <4>1, <4>2
    <3>7. QED BY <3>4, <3>5, <3>6
  <2>5. QED BY <2>3, <2>4
<1>7. CacheTypeOK'
  <2>1. log' \in Seq([scope : Scope, at : Time]) /\ legacy' \in {None, 0} \cup Time
    BY <1>1 DEF CacheInv, CacheTypeOK
  <2>2. ASSUME NEW s \in Scope \cup {Any}
        PROVE  evidence'[s] \in {None} \cup Evidence'
    <3>1. CASE s \in Recorded'
      BY <1>2, <1>6, <3>1 DEF Piece, Evidence
    <3>2. QED BY <1>4, <3>1
  <2>3. evidence' \in [Scope \cup {Any} -> {None} \cup Evidence']
    BY <1>3, <2>2
  <2>4. QED BY <1>2, <1>6, <2>1, <2>3 DEF CacheTypeOK
<1>8. QED
  <2>1. Len(log') <= MaxEvents
    BY <1>1 DEF CacheInv
  <2>2. \A id \in Ids' : log'[id].scope \in RunScope => id \in kept'
    BY <1>1, <1>2, DoomedIs DEF CacheInv
  <2>3. \A s \in Recorded' : evidence'[s].complete =>
          \A id \in evidence'[s].samples : log'[id].scope = s
    BY <1>1, <1>6
  <2>4. QED BY <1>6, <1>7, <2>1, <2>2, <2>3 DEF CacheInv

LEMMA LegacyIs ==
    ASSUME CacheInv, legacy # None
    PROVE  legacy \in Nat
<1>1. legacy = 0 \/ legacy \in Time
  BY DEF CacheInv, CacheTypeOK
<1>2. \A t \in Time : t \in Nat
  BY CacheAssumption
<1>3. QED BY <1>1, <1>2

\* A covered row that a query would have found marks the query incomplete.
LEMMA SoundOfInv == CacheInv => EvidenceSound
<1> SUFFICES ASSUME CacheInv,
                    NEW scopes \in SUBSET Scope, NEW since \in {0} \cup Time,
                    NEW before \in 1 .. NoBound,
                    NEW id \in Matching(scopes, Ids \ kept),
                    log[id].at >= since, id < before
             PROVE  Incomplete(scopes, since, before)
  BY DEF EvidenceSound, Missed
<1>1. id \in Ids \ kept /\ log[id].scope \in scopes
  BY DEF Matching
<1>2. id \in Nat /\ log[id].at \in Nat /\ since \in Nat /\ before \in Nat
  BY <1>1, AtIs, CacheAssumption DEF NoBound
<1>3. Covered(id)
  BY <1>1 DEF CacheInv
<1>4. CASE legacy # None /\ (legacy = 0 \/ log[id].at <= legacy)
  <2>1. legacy \in Nat
    BY <1>4, LegacyIs
  <2>2. legacy # None /\ (legacy = 0 \/ since <= legacy)
    BY <1>2, <1>4, <2>1
  <2>3. QED BY <2>2 DEF Incomplete
<1>5. CASE \E s \in {log[id].scope, Any} :
             evidence[s] # None /\ Stands(evidence[s], id, log[id].at)
  <2>1. PICK s \in {log[id].scope, Any} :
             evidence[s] # None /\ Stands(evidence[s], id, log[id].at)
    BY <1>5
  <2>2. s \in Recorded /\ s \in Scope \cup {Any} /\ (s = Any \/ s \in scopes)
    BY <1>1, <2>1 DEF Recorded
  <2>3. evidence[s].first \in Nat /\ evidence[s].newest \in Nat
    BY <2>2, EvidenceIs, PieceIsSome
  <2>4. /\ evidence[s].first <= id /\ log[id].at <= evidence[s].newest
        /\ evidence[s].complete => id \in evidence[s].samples
    BY <2>1 DEF Stands
  <2>5. since <= evidence[s].newest /\ evidence[s].first < before
    BY <1>2, <2>3, <2>4
  <2>6. MayMatch(s, scopes, since, before)
    BY <2>1, <2>2, <2>4, <2>5 DEF MayMatch
  <2>7. QED BY <2>2, <2>6 DEF Incomplete
<1>6. QED BY <1>3, <1>4, <1>5 DEF Covered

\* Samples are evicted rows of their scope, and the sentinel has none.
LEMMA ExactOfInv == CacheInv => EvidenceExact
<1> SUFFICES ASSUME CacheInv, legacy = None,
                    \A s \in Recorded : evidence[s].complete,
                    NEW scopes \in SUBSET Scope, NEW since \in {0} \cup Time,
                    NEW before \in 1 .. NoBound,
                    Incomplete(scopes, since, before)
             PROVE  Missed(scopes, since, before)
  BY DEF EvidenceExact
<1>1. PICK s \in Scope \cup {Any} : MayMatch(s, scopes, since, before)
  BY DEF Incomplete
<1>2. s \in Recorded /\ evidence[s].complete /\ (s = Any \/ s \in scopes)
  BY <1>1 DEF MayMatch, Recorded
<1>3. s # Any
  BY <1>2 DEF CacheInv, CacheTypeOK
<1>4. PICK id \in evidence[s].samples : log[id].at >= since /\ id < before
  BY <1>1, <1>2 DEF MayMatch
<1>5. id \in Ids \ kept /\ log[id].scope = s
  BY <1>2, EvidenceIs DEF CacheInv
<1>6. QED BY <1>2, <1>3, <1>4, <1>5 DEF Missed, Matching

LEMMA CacheNextInv == CacheInv /\ [CacheNext]_cache => CacheInv'
<1> SUFFICES ASSUME CacheInv, [CacheNext]_cache  PROVE CacheInv'
  OBVIOUS
<1>1. CASE EvictProgress
  BY <1>1, EvictProgressInv
<1>2. CASE \E s \in Scope, t \in Time : RecordEvent(s, t)
  BY <1>2, RecordEventInv
<1>3. CASE UNCHANGED cache
  <2>1. log' = log /\ kept' = kept /\ evidence' = evidence /\ legacy' = legacy
    BY <1>3 DEF cache
  <2>2. Ids' = Ids /\ Recorded' = Recorded
    BY <2>1 DEF Ids, Recorded
  <2>3. Evidence' = Evidence /\ \A id : Covered(id)' <=> Covered(id)
    BY <2>1, <2>2 DEF Evidence, Covered
  <2>4. CacheTypeOK'
    BY <2>1, <2>2, <2>3 DEF CacheTypeOK, CacheInv
  <2>5. QED BY <2>1, <2>2, <2>3, <2>4 DEF CacheInv
<1>4. QED BY <1>1, <1>2, <1>3 DEF CacheNext

\* The evidence of the cache is bounded and sound, and exact while its samples
\* are: whatever was merged, capped or collapsed, and whatever the clock did
\* (store.py _record_eviction_scopes, eviction_evidence).
THEOREM EvidenceIsSound == CacheSpec => []EvidenceInvariant
<1>1. CacheInv => EvidenceInvariant
  BY SoundOfInv, ExactOfInv DEF CacheInv, EvidenceInvariant
<1>2. QED BY CacheInitInv, CacheNextInv, <1>1, PTL DEF CacheSpec

-----------------------------------------------------------------------------
(* The inductive invariant of the console. *)

\* The newest id of a set, 0 of none.
IsNewest(n, ids) ==
    \/ ids = {} /\ n = 0
    \/ n \in ids /\ \A id \in ids : id <= n

\* A walk in flight knows where it started: at the index's newest event, at
\* the feed's, or at nothing.
StageHolds ==
    /\ walk.stage # "idle" => walk.pages >= 1
    /\ walk.stage = "bootstrap" => walk.known = 0
    /\ walk.stage = "advance" => walk.known = maxRun /\ maxRun # 0
    /\ walk.stage = "panel" =>
          /\ walk.known = walk.newest /\ walk.pages <= FeedPages
          /\ Cardinality(walk.got) <= (FeedPages - walk.pages) * Limit
    /\ walk.stage # "idle" /\ ~raced =>
          walk.filter = filter /\ IsNewest(walk.newest, feed)

\* What a walk has collected: rows that match, above the newest it knew, with
\* no other between its cursor and the newest of them, unless a verdict said
\* that some may have been evicted.
GotHolds ==
    /\ \A g \in walk.got :
          /\ g \in Ids /\ log[g].scope \in Scopes
          /\ walk.known < g /\ walk.cursor <= g
    /\ IF walk.got = {} THEN walk.cursor = NoBound ELSE walk.cursor \in walk.got
    /\ \A id \in Ids, g \in walk.got :
          log[id].scope \in Scopes /\ walk.cursor <= id /\ id <= g =>
             id \in walk.got \/ (walk.stage = "panel" /\ walk.evicted)

\* A page that was read: a row kept before the cursor that is not on it is
\* below a full page, or came after the read of a first page.
PageHolds ==
    walk.rows =>
      /\ \A r \in walk.page :
            r \in Ids /\ log[r].scope \in Scopes /\ r < walk.cursor
      /\ Cardinality(walk.page) <= Limit
      /\ \A id \in kept :
            log[id].scope \in Scopes /\ id < walk.cursor /\ id \notin walk.page =>
               \/ Full /\ \A r \in walk.page : id < r
               \/ walk.cursor = NoBound /\ \A r \in walk.page : r < id

\* The index and the feed are right because what a walk holds is.
ConsoleInv ==
    /\ TypeOK /\ CacheInv
    /\ StageHolds /\ GotHolds /\ PageHolds
    /\ IndexIsLatest /\ FeedHonest

-----------------------------------------------------------------------------
(* The newest of a set, the first rows of a set, and what a step of the     *)
(* cache leaves as it was.                                                  *)

LEMMA NewestIs ==
    ASSUME NEW ids \in SUBSET Nat, IsFiniteSet(ids)
    PROVE  /\ Newest(ids) \in Nat /\ IsNewest(Newest(ids), ids)
           /\ Newest(ids) \in ids \cup {0} /\ \A id \in ids : id <= Newest(ids)
<1> DEFINE all == ids \cup {0}
<1>1. all \in SUBSET Nat /\ all # {} /\ IsFiniteSet(all)
  BY FS_AddElement
<1>2. Newest(ids) = Max(all)
  BY DEF Newest
<1> HIDE DEF all
<1>3. Max(all) \in all /\ \A x \in all : x <= Max(all)
  BY <1>1, MaxOf
<1>4. /\ Newest(ids) \in ids \cup {0} /\ Newest(ids) \in Nat
      /\ \A id \in ids : id <= Newest(ids)
  BY <1>1, <1>2, <1>3 DEF all
<1>5. IsNewest(Newest(ids), ids)
  <2>1. CASE ids = {}
    BY <1>4, <2>1 DEF IsNewest
  <2>2. CASE ids # {} /\ Newest(ids) = 0
    <3>1. \A id \in ids : id = 0
      <4>1. \A id \in ids : id \in Nat /\ id <= 0
        BY <1>4, <2>2
      <4>2. QED BY <4>1
    <3>2. QED BY <1>4, <2>2, <3>1 DEF IsNewest
  <2>3. CASE Newest(ids) \in ids
    BY <1>4, <2>3 DEF IsNewest
  <2>4. QED BY <1>4, <2>1, <2>2, <2>3
<1>6. QED BY <1>4, <1>5

LEMMA NewestOnly ==
    ASSUME NEW ids \in SUBSET Nat, NEW n \in Nat, NEW m \in Nat,
           IsNewest(n, ids), IsNewest(m, ids)
    PROVE  n = m
BY DEF IsNewest

\* The k greatest of a set: no more than k, upwards closed, and k of them
\* when they are not all.
LEMMA TopOf ==
    ASSUME NEW S \in SUBSET Nat, IsFiniteSet(S), NEW k \in Nat
    PROVE  LET T == {x \in S : Cardinality({y \in S : y >= x}) <= k} IN
           /\ T \subseteq S /\ IsFiniteSet(T) /\ Cardinality(T) <= k
           /\ \A x \in T, y \in S : x <= y => y \in T
           /\ T # S => Cardinality(T) = k
<1> DEFINE from(x) == {y \in S : y >= x}
           T == {x \in S : Cardinality(from(x)) <= k}
<1>0. \A x \in S : x \in T <=> Cardinality(from(x)) <= k
  OBVIOUS
<1>1. T \subseteq S /\ IsFiniteSet(T) /\ Cardinality(T) \in Nat
  BY FS_Subset, FS_CardinalityType
<1>2. \A x \in S : IsFiniteSet(from(x)) /\ Cardinality(from(x)) \in Nat
  BY FS_Subset, FS_CardinalityType
<1>3. \A x \in S : x \in Nat
  OBVIOUS
<1>9. \A x, y \in S : y \in from(x) <=> y >= x
  OBVIOUS
<1>10. \A x \in S : from(x) \subseteq S
  OBVIOUS
<1> HIDE DEF from, T
<1>4. ASSUME NEW x \in T, NEW y \in S, x <= y  PROVE y \in T
  <2>1. x \in S /\ Cardinality(from(x)) <= k
    BY <1>0, <1>1
  <2>2. from(y) \subseteq from(x)
    <3>1. \A z \in S : z >= y => z >= x
      BY <1>3, <1>4, <2>1
    <3>2. QED BY <1>9, <1>10, <2>1, <3>1
  <2>3. Cardinality(from(y)) <= Cardinality(from(x))
    BY <1>2, <2>1, <2>2, FS_Subset
  <2>4. Cardinality(from(y)) <= k
    BY <1>2, <2>1, <2>3
  <2>5. QED BY <1>0, <2>4
<1>5. Cardinality(T) <= k
  <2>1. CASE T = {}
    <3>1. Cardinality({}) = 0
      BY FS_EmptySet
    <3>2. QED BY <2>1, <3>1
  <2>2. CASE T # {}
    <3>1. PICK m \in T : \A x \in T : m <= x
      <4>1. T \in SUBSET Nat
        BY <1>1
      <4>2. QED BY <2>2, <4>1, MinOf
    <3>2. T \subseteq from(m) /\ m \in S
      BY <1>1, <1>3, <1>9, <3>1
    <3>3. Cardinality(from(m)) <= k
      BY <1>0, <3>1, <3>2
    <3>4. Cardinality(T) <= Cardinality(from(m))
      BY <1>2, <3>2, FS_Subset
    <3>5. QED BY <1>1, <1>2, <3>2, <3>3, <3>4
  <2>3. QED BY <2>1, <2>2
<1>6. ASSUME T # S  PROVE Cardinality(T) = k
  <2>1. S \ T # {} /\ S \ T \in SUBSET Nat /\ IsFiniteSet(S \ T)
    BY <1>1, <1>6, FS_Difference
  <2>2. PICK x \in S \ T : \A y \in S \ T : y <= x
    BY <2>1, MaxOf
  <2>3. from(x) \subseteq T \cup {x}
    <3>1. ASSUME NEW y \in S, y >= x, y # x  PROVE y \in T
      BY <1>3, <2>2, <3>1
    <3>2. QED BY <1>9, <1>10, <2>2, <3>1
  <2>4. IsFiniteSet(T \cup {x}) /\ Cardinality(T \cup {x}) = Cardinality(T) + 1
    BY <1>1, <2>2, FS_AddElement
  <2>5. Cardinality(from(x)) <= Cardinality(T) + 1
    BY <2>3, <2>4, FS_Subset
  <2>6. ~(Cardinality(from(x)) <= k)
    BY <1>0, <2>2
  <2>7. QED BY <1>1, <1>2, <1>5, <2>2, <2>5, <2>6
<1>7. QED
  <2> USE DEF from, T
  <2> QED BY <1>1, <1>4, <1>5, <1>6

LEMMA IdsAre ==
    ASSUME ConsoleInv
    PROVE  /\ Ids = 1 .. Len(log) /\ IsFiniteSet(Ids) /\ Ids \subseteq Nat
           /\ \A id \in Ids : 0 < id /\ id < NoBound /\ id \in 1 .. NoBound
           /\ kept \subseteq Ids /\ NoBound \in Nat
           /\ \A ids \in SUBSET Ids : IsFiniteSet(ids) /\ ids \in SUBSET Nat
<1>1. CacheInv
  BY DEF ConsoleInv
<1>2. Ids = 1 .. Len(log) /\ Len(log) \in Nat /\ Len(log) <= MaxEvents
      /\ MaxEvents \in Nat /\ kept \subseteq Ids
  BY <1>1, CacheAssumption DEF CacheInv, CacheTypeOK, Ids
<1>3. IsFiniteSet(Ids) /\ Ids \subseteq Nat
  <2>1. IsFiniteSet(1 .. Len(log))
    BY <1>2, FS_Interval
  <2>2. QED BY <1>2, <2>1
<1>4. \A id \in Ids : 0 < id /\ id < NoBound /\ id \in 1 .. NoBound
  BY <1>2 DEF NoBound
<1>5. \A ids \in SUBSET Ids : IsFiniteSet(ids) /\ ids \in SUBSET Nat
  BY <1>3, FS_Subset
<1>6. NoBound \in Nat
  BY <1>2 DEF NoBound
<1>7. QED BY <1>2, <1>3, <1>4, <1>5, <1>6

LEMMA WalkIs ==
    ASSUME ConsoleInv
    PROVE  /\ walk.cursor \in 1 .. NoBound /\ walk.known \in Nat
           /\ walk.pages \in Nat /\ walk.got \subseteq Ids /\ walk.page \subseteq Ids
           /\ walk.newest \in Nat /\ walk.filter \subseteq Scope
           /\ walk.evicted \in BOOLEAN /\ walk.rows \in BOOLEAN
           /\ Scopes \subseteq Scope
           /\ walk.stage \in {"idle", "bootstrap", "advance", "panel"}
           /\ walk.got # {} => walk.cursor \in walk.got
<1>1. walk \in Walk
  BY DEF ConsoleInv, TypeOK
<1>2. walk.got # {} => walk.cursor \in walk.got
  BY DEF ConsoleInv, GotHolds
<1>3. walk.cursor \in 1 .. NoBound
  <2>1. walk.got \subseteq Ids
    BY <1>1 DEF Walk
  <2>2. walk.got = {} => walk.cursor = NoBound
    BY DEF ConsoleInv, GotHolds
  <2>3. NoBound \in 1 .. NoBound
    BY CacheAssumption DEF NoBound
  <2>4. QED BY <1>2, <2>1, <2>2, <2>3, IdsAre
<1>4. QED BY <1>1, <1>2, <1>3, CacheAssumption DEF Walk, Scopes

LEMMA AssumedNat ==
    /\ Limit \in Nat \ {0} /\ IndexPages \in Nat \ {0}
    /\ FeedPages \in Nat \ {0} /\ Keep \in Nat \ {0}
    /\ MaxRefusals \in Nat /\ MaxChanges \in Nat
    /\ \A f \in Filter : f \subseteq Scope
BY ConsoleAssumption

\* What a walk that reads on has not got of the rows up to the newest it has:
\* a verdict said that it may have been evicted, or it is below the page.
LEMMA MissingFrom ==
    ASSUME ConsoleInv, walk.rows, walk.stage # "idle",
           NEW id \in Ids, log[id].scope \in Scopes,
           id \notin walk.got \cup walk.page,
           NEW g \in walk.got \cup walk.page, id <= g
    PROVE  \/ walk.stage = "panel" /\ Verdict
           \/ /\ Full
              /\ \A h \in walk.got \cup walk.page : id < h
<1>1. /\ id \in Nat /\ walk.cursor \in Nat /\ walk.cursor \in 1 .. NoBound
      /\ \A h \in walk.got \cup walk.page : h \in Nat
      /\ \A h \in walk.got : walk.cursor <= h
      /\ \A r \in walk.page : r < walk.cursor
  BY IdsAre, WalkIs DEF ConsoleInv, GotHolds, PageHolds
<1>2. CASE walk.cursor <= id
  <2>1. g \in walk.got
    BY <1>1, <1>2
  <2>2. walk.stage = "panel" /\ walk.evicted
    BY <1>2, <2>1 DEF ConsoleInv, GotHolds
  <2>3. QED BY <2>2 DEF Verdict
<1>3. CASE id < walk.cursor /\ id \notin kept
  <2>1. walk.stage = "panel"
    BY <1>3 DEF ConsoleInv, CacheInv, Scopes
  <2>2. log[id].at >= 0
    <3>1. log[id].at \in Nat
      BY AtIs DEF ConsoleInv
    <3>2. QED BY <3>1
  <2>3. Missed(Scopes, 0, walk.cursor)
    BY <1>3, <2>2 DEF Missed, Matching
  <2>4. EvidenceSound /\ Scopes \in SUBSET Scope /\ 0 \in {0} \cup Time
    BY SoundOfInv, WalkIs DEF ConsoleInv
  <2>5. Incomplete(Scopes, 0, walk.cursor)
    BY <1>1, <2>3, <2>4 DEF EvidenceSound
  <2>6. QED BY <2>1, <2>5 DEF Verdict
<1>4. CASE id < walk.cursor /\ id \in kept
  <2>1. \/ Full /\ \A r \in walk.page : id < r
        \/ walk.cursor = NoBound /\ \A r \in walk.page : r < id
    BY <1>4 DEF ConsoleInv, PageHolds
  <2>2. CASE Full /\ \A r \in walk.page : id < r
    BY <1>1, <1>4, <2>2
  <2>3. CASE walk.cursor = NoBound /\ \A r \in walk.page : r < id
    <3>1. walk.got = {}
      BY <2>3, WalkIs, IdsAre
    <3>2. g \in walk.page /\ g < id
      BY <2>3, <3>1
    <3>3. QED BY <1>1, <3>2
  <2>4. QED BY <2>1, <2>2, <2>3
<1>5. QED BY <1>1, <1>2, <1>3, <1>4

\* A step of the cache keeps the events there are, and what it adds is newer.
LEMMA CacheGrows ==
    ASSUME ConsoleInv, CacheNext
    PROVE  /\ CacheInv' /\ Ids \subseteq Ids' /\ \A id \in Ids : log'[id] = log[id]
           /\ \A id \in Ids' \ Ids : \A i \in Ids : i < id
           /\ \A id \in kept' : id \in kept \/ id \in Ids' \ Ids
           /\ \A id \in Ids' : id \in Nat
           /\ kept' \subseteq Ids'
<1>1. CacheInv'
  BY CacheNextInv DEF ConsoleInv
<1>2. kept' \subseteq Ids'
  BY <1>1 DEF CacheInv, CacheTypeOK
<1>3. log \in Seq([scope : Scope, at : Time]) /\ log' \in Seq([scope : Scope, at : Time])
  BY <1>1 DEF ConsoleInv, CacheInv, CacheTypeOK
<1>4. Ids = 1 .. Len(log) /\ Ids' = 1 .. Len(log') /\ Len(log) \in Nat /\ Len(log') \in Nat
  BY <1>3 DEF Ids
<1>5. CASE EvictProgress
  <2>1. log' = log /\ kept' \subseteq kept
    BY <1>5 DEF EvictProgress
  <2>2. QED BY <1>1, <1>2, <1>4, <2>1
<1>6. ASSUME NEW s \in Scope, NEW t \in Time, RecordEvent(s, t)
      PROVE  /\ Ids \subseteq Ids' /\ \A id \in Ids : log'[id] = log[id]
             /\ \A id \in Ids' \ Ids : \A i \in Ids : i < id
             /\ \A id \in kept' : id \in kept \/ id \in Ids' \ Ids
             /\ \A id \in Ids' : id \in Nat
  <2>1. log' = Append(log, [scope |-> s, at |-> t]) /\ kept' = kept \cup {Len(log) + 1}
    BY <1>6 DEF RecordEvent
  <2>2. Len(log') = Len(log) + 1 /\ \A id \in Ids : log'[id] = log[id]
    BY <1>3, <1>4, <2>1
  <2>3. Ids' = Ids \cup {Len(log) + 1} /\ Len(log) + 1 \notin Ids
    BY <1>4, <2>2
  <2>4. QED BY <1>4, <2>1, <2>2, <2>3
<1>7. QED BY <1>1, <1>2, <1>5, <1>6 DEF CacheNext

LEMMA CacheStep ==
    ASSUME ConsoleInv, CacheNext, UNCHANGED console
    PROVE  ConsoleInv'
<1>1. /\ index' = index /\ maxRun' = maxRun /\ truncated' = truncated
      /\ filter' = filter /\ feed' = feed /\ evicted' = evicted /\ gap' = gap
      /\ walk' = walk /\ raced' = raced /\ left' = left
  BY DEF console, runs, panel
<1>2. /\ CacheInv' /\ Ids \subseteq Ids' /\ \A id \in Ids : log'[id] = log[id]
      /\ \A id \in Ids' \ Ids : \A i \in Ids : i < id
      /\ \A id \in kept' : id \in kept \/ id \in Ids' \ Ids
      /\ \A id \in Ids' : id \in Nat
      /\ kept' \subseteq Ids'
  BY CacheGrows
<1>3. Scopes' = Scopes
  BY <1>1 DEF Scopes
<1>4. TypeOK'
  <2>1. walk' \in Walk'
    <3>1. walk \in Walk
      BY DEF ConsoleInv, TypeOK
    <3>2. QED BY <1>1, <1>2, <3>1 DEF Walk
  <2>2. CacheTypeOK'
    BY <1>2 DEF CacheInv
  <2>3. QED BY <1>1, <1>2, <2>1, <2>2 DEF ConsoleInv, TypeOK
<1>5. StageHolds'
  BY <1>1 DEF ConsoleInv, StageHolds, IsNewest
<1>6. GotHolds'
  <2>1. \A g \in walk.got :
           /\ g \in Ids' /\ log'[g].scope \in Scopes
           /\ walk.known < g /\ walk.cursor <= g
    BY <1>2 DEF ConsoleInv, GotHolds
  <2>2. IF walk.got = {} THEN walk.cursor = NoBound ELSE walk.cursor \in walk.got
    BY DEF ConsoleInv, GotHolds
  <2>3. ASSUME NEW id \in Ids', NEW g \in walk.got,
               log'[id].scope \in Scopes, walk.cursor <= id, id <= g
        PROVE  id \in walk.got \/ (walk.stage = "panel" /\ walk.evicted)
    <3>1. g \in Ids /\ g \in Nat /\ id \in Nat
      BY <1>2, IdsAre, WalkIs
    <3>2. id \in Ids
      BY <1>2, <2>3, <3>1
    <3>3. QED BY <1>2, <2>3, <3>2 DEF ConsoleInv, GotHolds
  <2>4. QED BY <1>1, <1>3, <2>1, <2>2, <2>3 DEF GotHolds
<1>7. PageHolds'
  <2>1. SUFFICES ASSUME walk.rows  PROVE PageHolds'
    BY <1>1 DEF PageHolds
  <2>2. \A r \in walk.page :
           r \in Ids' /\ log'[r].scope \in Scopes /\ r < walk.cursor
    BY <1>2, <2>1 DEF ConsoleInv, PageHolds
  <2>3. ASSUME NEW id \in kept', log'[id].scope \in Scopes, id < walk.cursor,
               id \notin walk.page
        PROVE  \/ Full /\ \A r \in walk.page : id < r
               \/ walk.cursor = NoBound /\ \A r \in walk.page : r < id
    <3>1. CASE id \in kept
      <4>1. id \in Ids
        BY <3>1, IdsAre
      <4>2. QED BY <1>2, <2>1, <2>3, <3>1, <4>1 DEF ConsoleInv, PageHolds
    <3>2. CASE id \in Ids' \ Ids
      <4>1. \A r \in walk.page : r < id
        BY <1>2, <3>2, WalkIs
      <4>2. walk.got = {}
        <5>1. SUFFICES ASSUME walk.got # {}  PROVE FALSE
          OBVIOUS
        <5>2. walk.cursor \in Ids
          BY <5>1, WalkIs
        <5>3. walk.cursor < id
          BY <1>2, <3>2, <5>2
        <5>4. QED BY <1>2, <2>3, <3>2, <5>2, <5>3, IdsAre
      <4>3. QED BY <4>1, <4>2 DEF ConsoleInv, GotHolds
    <3>3. QED BY <1>2, <3>1, <3>2
  <2>4. Cardinality(walk.page) <= Limit
    BY <2>1 DEF ConsoleInv, PageHolds
  <2>5. Full' <=> Full
    BY <1>1 DEF Full
  <2>6. QED BY <1>1, <1>3, <2>2, <2>3, <2>4, <2>5 DEF PageHolds
<1>8. IndexIsLatest'
  <2>1. ASSUME NEW s \in RunScope
        PROVE  {id \in 1 .. maxRun : log'[id].scope \in {s}}
                 = {id \in 1 .. maxRun : log[id].scope \in {s}}
    <3>1. 1 .. maxRun \subseteq Ids
      BY IdsAre DEF ConsoleInv, TypeOK
    <3>2. QED BY <1>2, <3>1
  <2>2. QED BY <1>1, <2>1 DEF ConsoleInv, IndexIsLatest, LatestOf, Matching
<1>9. FeedHonest'
  <2>1. CASE feed = {}
    BY <1>1, <2>1 DEF FeedHonest, Honest
  <2>2. CASE feed # {}
    <3> DEFINE mn == Min(feed)
               mx == Max(feed)
    <3>1. mn \in Ids /\ mx \in Ids
      <4>1. feed \subseteq Ids
        BY DEF ConsoleInv, TypeOK
      <4>2. feed \in SUBSET Nat /\ IsFiniteSet(feed)
        BY <4>1, IdsAre
      <4>3. QED BY <2>2, <4>1, <4>2, MinOf, MaxOf
    <3> HIDE DEF mn, mx
    <3>2. mn .. mx \subseteq Ids
      BY <3>1, IdsAre
    <3>3. {id \in mn .. mx : log'[id].scope \in filter}
            = {id \in mn .. mx : log[id].scope \in filter}
      BY <1>2, <3>2
    <3>4. QED BY <1>1, <3>3 DEF ConsoleInv, FeedHonest, Honest, Matching, mn, mx
  <2>3. QED BY <2>1, <2>2
<1>10. QED BY <1>2, <1>4, <1>5, <1>6, <1>7, <1>8, <1>9 DEF ConsoleInv

LEMMA SameCache ==
    ASSUME ConsoleInv, UNCHANGED cache
    PROVE  /\ log' = log /\ kept' = kept /\ Ids' = Ids /\ Walk' = Walk
           /\ CacheInv' /\ CacheTypeOK'
<1>1. log' = log /\ kept' = kept
  BY DEF cache
<1>2. Ids' = Ids
  BY <1>1 DEF Ids
<1>3. Walk' = Walk
  BY <1>2 DEF Walk
<1>4. CacheInv'
  BY CacheNextInv DEF ConsoleInv
<1>5. QED BY <1>1, <1>2, <1>3, <1>4 DEF CacheInv

LEMMA IdleIs ==
    Idle = [stage |-> "idle", filter |-> {}, newest |-> 0, known |-> 0,
            cursor |-> NoBound, pages |-> 0, got |-> {}, page |-> {},
            rows |-> FALSE, evicted |-> FALSE]
BY DEF Idle, Reading

\* A walk that has not begun to read holds nothing that could be wrong.
LEMMA IdleWalk ==
    ASSUME ConsoleInv, UNCHANGED cache, walk' = Idle
    PROVE  walk' \in Walk /\ StageHolds' /\ GotHolds' /\ PageHolds'
<1>1. /\ walk'.stage = "idle" /\ walk'.got = {} /\ walk'.cursor = NoBound
      /\ walk'.rows = FALSE
  BY IdleIs
<1>2. walk' \in Walk
  BY IdleIs, IdsAre DEF Walk
<1>3. QED BY <1>1, <1>2 DEF StageHolds, GotHolds, PageHolds

LEMMA FreshWalk ==
    ASSUME ConsoleInv, UNCHANGED cache,
           NEW st \in {"bootstrap", "advance", "panel"},
           NEW w, w.filter \in SUBSET Scope, w.newest \in Nat,
           NEW k \in Nat, NEW p \in Nat \ {0},
           walk' = Reading(st, w, k, p),
           st = "bootstrap" => k = 0,
           st = "advance" => k = maxRun' /\ maxRun' # 0,
           st = "panel" => k = w.newest /\ p = FeedPages,
           ~raced' => w.filter = filter' /\ IsNewest(w.newest, feed')
    PROVE  walk' \in Walk /\ StageHolds' /\ GotHolds' /\ PageHolds'
<1>1. walk' = Reading(st, w, k, p)
  OBVIOUS
<1>2. walk' \in Walk
  <2>1. NoBound \in Nat
    BY IdsAre
  <2>2. QED BY <1>1, <2>1 DEF Walk, Reading
<1>3. /\ walk'.stage = st /\ walk'.filter = w.filter /\ walk'.newest = w.newest
      /\ walk'.known = k /\ walk'.pages = p /\ walk'.got = {}
      /\ walk'.cursor = NoBound /\ walk'.rows = FALSE
  BY <1>1 DEF Reading
<1>4. StageHolds'
  <2>1. Cardinality({}) = 0
    BY FS_EmptySet
  <2>2. (FeedPages - FeedPages) * Limit = 0 /\ FeedPages <= FeedPages
    BY AssumedNat
  <2>3. st = "panel" => /\ walk'.known = walk'.newest /\ walk'.pages <= FeedPages
                        /\ Cardinality(walk'.got) <= (FeedPages - walk'.pages) * Limit
    BY <1>3, <2>1, <2>2
  <2>4. walk'.pages >= 1
    BY <1>3
  <2>5. ~raced' => walk'.filter = filter' /\ IsNewest(walk'.newest, feed')
    BY <1>3
  <2>6. QED BY <1>3, <2>3, <2>4, <2>5 DEF StageHolds, IsNewest
<1>5. QED BY <1>2, <1>3, <1>4 DEF GotHolds, PageHolds

\* The start of a walk of the run events, and of one of the panel's.
LEMMA RunsWalk ==
    ASSUME ConsoleInv, UNCHANGED cache, UNCHANGED <<maxRun, filter, feed, raced>>,
           NEW st \in {"bootstrap", "advance"}, st = "advance" => maxRun # 0,
           NEW w, w.filter \in SUBSET Scope, w.newest \in Nat,
           ~raced => w.filter = filter /\ IsNewest(w.newest, feed),
           walk' = ReadRuns(st, w)
    PROVE  walk' \in Walk /\ StageHolds' /\ GotHolds' /\ PageHolds'
<1> DEFINE k == IF st = "advance" THEN maxRun ELSE 0
<1>1. k \in Nat /\ maxRun' = maxRun
  BY IdsAre DEF ConsoleInv, TypeOK
<1>2. walk' = Reading(st, w, k, IndexPages)
  BY DEF ReadRuns
<1>3. /\ st = "bootstrap" => k = 0
      /\ st = "advance" => k = maxRun' /\ maxRun' # 0
  BY <1>1
<1>4. ~raced' => w.filter = filter' /\ IsNewest(w.newest, feed')
  BY DEF IsNewest
<1> HIDE DEF k
<1>5. QED BY <1>1, <1>2, <1>3, <1>4, AssumedNat, FreshWalk

LEMMA PanelWalk ==
    ASSUME ConsoleInv, UNCHANGED cache, UNCHANGED <<filter, feed, raced>>,
           walk.stage # "idle", walk' = ReadPanel(walk)
    PROVE  walk' \in Walk /\ StageHolds' /\ GotHolds' /\ PageHolds'
<1>1. walk' = Reading("panel", walk, walk.newest, FeedPages)
  BY DEF ReadPanel
<1>2. ~raced' => walk.filter = filter' /\ IsNewest(walk.newest, feed')
  BY DEF ConsoleInv, StageHolds, IsNewest
<1>3. QED BY <1>1, <1>2, AssumedNat, WalkIs, FreshWalk

\* What is left of the panel and the index when they are not touched.
LEMMA FeedStays ==
    ASSUME ConsoleInv, UNCHANGED cache, UNCHANGED <<filter, feed, evicted, gap, raced>>
    PROVE  FeedHonest'
BY SameCache DEF ConsoleInv, FeedHonest, Honest, Matching

LEMMA IndexStays ==
    ASSUME ConsoleInv, UNCHANGED cache, UNCHANGED <<index, maxRun, truncated>>
    PROVE  IndexIsLatest'
BY SameCache DEF ConsoleInv, IndexIsLatest, LatestOf, Matching

\* The type invariant where a step leaves the panel and the index.
LEMMA TypeStays ==
    ASSUME ConsoleInv, UNCHANGED cache,
           UNCHANGED <<index, maxRun, truncated, filter, feed, evicted, gap, raced>>,
           walk' \in Walk, left' \in [Budget -> Nat]
    PROVE  TypeOK'
BY SameCache DEF ConsoleInv, TypeOK

LEMMA ConsoleInit == Init => ConsoleInv
<1> SUFFICES ASSUME Init  PROVE ConsoleInv
  OBVIOUS
<1>1. CacheInv
  BY CacheInitInv DEF Init
<1>2. /\ index = [s \in RunScope |-> 0] /\ maxRun = 0 /\ truncated = FALSE
      /\ filter \in Filter /\ feed = {} /\ evicted = FALSE /\ gap = FALSE
      /\ walk = Idle /\ raced = FALSE
      /\ left = [b \in Budget |-> IF b = "refusal" THEN MaxRefusals ELSE MaxChanges]
  BY DEF Init
<1>3. /\ walk.stage = "idle" /\ walk.got = {} /\ walk.cursor = NoBound
      /\ walk.rows = FALSE
  BY <1>2, IdleIs
<1>4. walk \in Walk
  <2>1. NoBound \in Nat
    BY CacheAssumption DEF NoBound
  <2>2. QED BY <1>2, <2>1, IdleIs DEF Walk
<1>5. TypeOK
  <2>1. Cardinality(feed) <= Max({Keep, FeedPages * Limit})
    <3>1. FeedPages * Limit \in Nat
      BY AssumedNat
    <3>2. Max({Keep, FeedPages * Limit}) \in Nat
      BY <3>1, AssumedNat, MaxOfTwo
    <3>3. Cardinality({}) = 0
      BY FS_EmptySet
    <3>4. QED BY <1>2, <3>2, <3>3
  <2>2. left \in [Budget -> Nat]
    BY <1>2, AssumedNat
  <2>3. filter \subseteq Scope
    BY <1>2, AssumedNat
  <2>4. QED BY <1>1, <1>2, <1>4, <2>1, <2>2, <2>3 DEF TypeOK, CacheInv
<1>6. StageHolds /\ GotHolds /\ PageHolds
  BY <1>3 DEF StageHolds, GotHolds, PageHolds
<1>7. IndexIsLatest
  <2>1. ASSUME NEW s \in RunScope  PROVE index[s] = LatestOf(s, 1 .. maxRun)
    <3>1. Matching({s}, 1 .. maxRun) = {}
      BY <1>2 DEF Matching
    <3>2. Newest({}) = 0
      <4>1. IsFiniteSet({}) /\ {} \in SUBSET Nat
        BY FS_EmptySet
      <4>2. QED BY <4>1, NewestIs
    <3>3. QED BY <1>2, <3>1, <3>2 DEF LatestOf
  <2>2. QED BY <2>1 DEF IndexIsLatest
<1>8. FeedHonest
  BY <1>2 DEF FeedHonest, Honest
<1>9. QED BY <1>1, <1>5, <1>6, <1>7, <1>8 DEF ConsoleInv

-----------------------------------------------------------------------------
(* The steps of the console keep its invariant. *)

LEMMA BudgetStays ==
    ASSUME ConsoleInv, NEW b \in Budget, left' = left \/ Spend(b)
    PROVE  left' \in [Budget -> Nat]
BY DEF ConsoleInv, TypeOK, Spend

LEMMA StartRefreshStep ==
    ASSUME ConsoleInv, StartRefresh
    PROVE  ConsoleInv'
<1> DEFINE st == IF maxRun = 0 THEN "bootstrap" ELSE "advance"
           w == [filter |-> filter, newest |-> Newest(feed)]
<1>1. /\ UNCHANGED cache
      /\ UNCHANGED <<index, maxRun, truncated, filter, feed, evicted, gap, raced, left>>
      /\ walk' = ReadRuns(st, w)
  BY DEF StartRefresh, runs, panel
<1>2. Newest(feed) \in Nat /\ IsNewest(Newest(feed), feed)
  BY IdsAre, NewestIs DEF ConsoleInv, TypeOK
<1>3. /\ w.filter \in SUBSET Scope /\ w.newest \in Nat
      /\ w.filter = filter /\ IsNewest(w.newest, feed)
  BY <1>2 DEF ConsoleInv, TypeOK
<1>4. st \in {"bootstrap", "advance"} /\ (st = "advance" => maxRun # 0)
  OBVIOUS
<1> HIDE DEF st, w
<1>5. walk' \in Walk /\ StageHolds' /\ GotHolds' /\ PageHolds'
  BY <1>1, <1>3, <1>4, RunsWalk
<1>6. TypeOK'
  BY <1>1, <1>5, TypeStays DEF ConsoleInv, TypeOK
<1>7. QED BY <1>1, <1>5, <1>6, SameCache, IndexStays, FeedStays DEF ConsoleInv

LEMMA RebootstrapStep ==
    ASSUME ConsoleInv, Rebootstrap
    PROVE  ConsoleInv'
<1>1. /\ UNCHANGED cache
      /\ UNCHANGED <<index, maxRun, truncated, filter, feed, evicted, gap, raced, left>>
      /\ walk' = ReadRuns("bootstrap", walk) /\ walk.stage = "advance"
  BY DEF Rebootstrap, runs, panel
<1>2. /\ walk.filter \in SUBSET Scope /\ walk.newest \in Nat
      /\ ~raced => walk.filter = filter /\ IsNewest(walk.newest, feed)
  BY <1>1, WalkIs DEF ConsoleInv, StageHolds
<1>3. walk' \in Walk /\ StageHolds' /\ GotHolds' /\ PageHolds'
  BY <1>1, <1>2, RunsWalk
<1>4. TypeOK'
  BY <1>1, <1>3, TypeStays DEF ConsoleInv, TypeOK
<1>5. QED BY <1>1, <1>3, <1>4, SameCache, IndexStays, FeedStays DEF ConsoleInv

LEMMA RefusedStep ==
    ASSUME ConsoleInv, Refused
    PROVE  ConsoleInv'
<1>1. /\ UNCHANGED cache
      /\ UNCHANGED <<index, maxRun, truncated, filter, feed, evicted, gap, raced>>
      /\ walk' = Idle /\ Spend("refusal")
  BY DEF Refused, runs, panel
<1>2. left' \in [Budget -> Nat]
  BY <1>1, BudgetStays DEF Budget
<1>3. walk' \in Walk /\ StageHolds' /\ GotHolds' /\ PageHolds'
  BY <1>1, IdleWalk
<1>4. TypeOK'
  BY <1>1, <1>2, <1>3, TypeStays
<1>5. QED BY <1>1, <1>3, <1>4, SameCache, IndexStays, FeedStays DEF ConsoleInv

LEMMA SubmitFilterStep ==
    ASSUME ConsoleInv, NEW f \in Filter, SubmitFilter(f)
    PROVE  ConsoleInv'
<1>1. /\ UNCHANGED cache
      /\ UNCHANGED <<index, maxRun, truncated, walk>>
      /\ filter' = f /\ feed' = {} /\ evicted' = FALSE /\ gap' = FALSE
      /\ raced' = (walk.stage # "idle") /\ Spend("change")
  BY DEF SubmitFilter, runs
<1>2. left' \in [Budget -> Nat]
  BY <1>1, BudgetStays DEF Budget
<1>3. /\ log' = log /\ kept' = kept /\ Ids' = Ids /\ Walk' = Walk
      /\ CacheInv' /\ CacheTypeOK' /\ Scopes' = Scopes
  BY <1>1, SameCache DEF Scopes
<1>4. TypeOK'
  <2>1. Cardinality({}) <= Max({Keep, FeedPages * Limit})
    <3>1. FeedPages * Limit \in Nat
      BY AssumedNat
    <3>2. Max({Keep, FeedPages * Limit}) \in Nat
      BY <3>1, AssumedNat, MaxOfTwo
    <3>3. QED BY <3>2, FS_EmptySet
  <2>2. f \subseteq Scope
    BY AssumedNat
  <2>3. QED BY <1>1, <1>2, <1>3, <2>1, <2>2 DEF ConsoleInv, TypeOK
<1>5. StageHolds'
  BY <1>1 DEF ConsoleInv, StageHolds
<1>6. GotHolds' /\ PageHolds'
  BY <1>1, <1>3 DEF ConsoleInv, GotHolds, PageHolds, Full
<1>7. FeedHonest'
  BY <1>1 DEF FeedHonest, Honest
<1>8. QED BY <1>1, <1>3, <1>4, <1>5, <1>6, <1>7, IndexStays DEF ConsoleInv

\* The newest rows before the cursor.
LEMMA PageIs ==
    ASSUME ConsoleInv
    PROVE  LET p == Page(Scopes, walk.cursor) IN
           /\ p \subseteq kept
           /\ \A r \in p : log[r].scope \in Scopes /\ r < walk.cursor
           /\ Cardinality(p) <= Limit
           /\ \A id \in kept :
                 log[id].scope \in Scopes /\ id < walk.cursor /\ id \notin p =>
                    Cardinality(p) = Limit /\ \A r \in p : id < r
<1> DEFINE rows == {id \in Matching(Scopes, kept) : id < walk.cursor}
           p == Page(Scopes, walk.cursor)
<1>1. p = {x \in rows : Cardinality({y \in rows : y >= x}) <= Limit}
  BY DEF Page
<1>2. rows \subseteq kept /\ rows \in SUBSET Nat /\ IsFiniteSet(rows) /\ Limit \in Nat
  <2>1. rows \subseteq kept
    BY DEF Matching
  <2>2. rows \in SUBSET Ids
    BY <2>1, IdsAre
  <2>3. QED BY <2>1, <2>2, IdsAre, AssumedNat
<1>3. \A id \in kept :
         id \in rows <=> log[id].scope \in Scopes /\ id < walk.cursor
  BY DEF Matching
<1> HIDE DEF rows
<1>4. /\ p \subseteq rows /\ Cardinality(p) <= Limit
      /\ \A x \in p, y \in rows : x <= y => y \in p
      /\ p # rows => Cardinality(p) = Limit
  BY <1>1, <1>2, TopOf
<1> HIDE DEF p
<1>5. ASSUME NEW id \in kept, log[id].scope \in Scopes, id < walk.cursor, id \notin p
      PROVE  Cardinality(p) = Limit /\ \A r \in p : id < r
  <2>1. id \in rows
    BY <1>3, <1>5
  <2>2. \A r \in p : ~(r <= id) /\ r \in Nat /\ id \in Nat
    BY <1>2, <1>4, <1>5, <2>1
  <2>3. QED BY <1>4, <1>5, <2>1, <2>2
<1>6. QED BY <1>2, <1>3, <1>4, <1>5 DEF p

LEMMA ReadRowsStep ==
    ASSUME ConsoleInv, ReadRows
    PROVE  ConsoleInv'
<1> DEFINE p == Page(Scopes, walk.cursor)
<1>1. /\ UNCHANGED cache
      /\ UNCHANGED <<index, maxRun, truncated, filter, feed, evicted, gap, raced, left>>
      /\ walk' = [walk EXCEPT !.page = p, !.rows = TRUE] /\ walk.stage # "idle"
  BY DEF ReadRows, runs, panel
<1>2. walk \in Walk
  BY DEF ConsoleInv, TypeOK
<1>3. /\ p \subseteq kept
      /\ \A r \in p : log[r].scope \in Scopes /\ r < walk.cursor
      /\ Cardinality(p) <= Limit
      /\ \A id \in kept :
            log[id].scope \in Scopes /\ id < walk.cursor /\ id \notin p =>
               Cardinality(p) = Limit /\ \A r \in p : id < r
  BY PageIs
<1> HIDE DEF p
<1>4. p \subseteq Ids
  BY <1>3, IdsAre
<1>5. /\ walk'.stage = walk.stage /\ walk'.filter = walk.filter
      /\ walk'.newest = walk.newest /\ walk'.known = walk.known
      /\ walk'.cursor = walk.cursor /\ walk'.pages = walk.pages
      /\ walk'.got = walk.got /\ walk'.evicted = walk.evicted
      /\ walk'.page = p /\ walk'.rows = TRUE /\ walk' \in Walk
  BY <1>1, <1>2, <1>4 DEF Walk
<1>6. /\ log' = log /\ kept' = kept /\ Ids' = Ids /\ CacheInv' /\ Scopes' = Scopes
  BY <1>1, <1>5, SameCache DEF Scopes
<1>7. TypeOK'
  BY <1>1, <1>5, TypeStays DEF ConsoleInv, TypeOK
<1>8. StageHolds'
  BY <1>1, <1>5 DEF ConsoleInv, StageHolds, IsNewest
<1>9. GotHolds'
  BY <1>5, <1>6 DEF ConsoleInv, GotHolds
<1>10. PageHolds'
  <2>1. Full' <=> Cardinality(p) = Limit
    BY <1>5 DEF Full
  <2>2. \A r \in p : r \in Ids /\ log[r].scope \in Scopes /\ r < walk.cursor
    BY <1>3, <1>4
  <2>3. QED BY <1>3, <1>5, <1>6, <2>1, <2>2 DEF PageHolds
<1>11. QED BY <1>1, <1>6, <1>7, <1>8, <1>9, <1>10, IndexStays, FeedStays DEF ConsoleInv

\* Of a walk that reads on, all of the page is new, and the page is full.
LEMMA AllFresh ==
    ASSUME ConsoleInv, Answered, ~Over
    PROVE  Fresh = walk.page /\ Full /\ walk.page # {}
<1>1. Full /\ Fresh = walk.page
  <2>1. CASE walk.stage = "bootstrap"
    <3>1. walk.known = 0
      BY <2>1 DEF ConsoleInv, StageHolds
    <3>2. \A r \in walk.page : r > walk.known
      BY <3>1, IdsAre, WalkIs
    <3>3. QED BY <2>1, <3>2 DEF Over, Fresh
  <2>2. CASE walk.stage # "bootstrap"
    BY <2>2 DEF Over, Closed
  <2>3. QED BY <2>1, <2>2
<1>2. walk.page # {}
  <2>1. Cardinality({}) = 0
    BY FS_EmptySet
  <2>2. QED BY <1>1, <2>1, AssumedNat DEF Full
<1>3. QED BY <1>1, <1>2

\* The rows a walk has with its page are no more than its pages hold.
LEMMA GotBound ==
    ASSUME ConsoleInv, Answered, walk.stage = "panel"
    PROVE  /\ IsFiniteSet(Got) /\ Cardinality(Got) \in Nat
           /\ Cardinality(Got) <= (FeedPages - (walk.pages - 1)) * Limit
<1>1. /\ Fresh \subseteq walk.page /\ walk.rows
      /\ IsFiniteSet(walk.got) /\ IsFiniteSet(walk.page) /\ IsFiniteSet(Fresh)
      /\ Got = walk.got \cup Fresh
  BY IdsAre, WalkIs DEF Fresh, Answered, Got
<1>2. /\ Cardinality(walk.got) \in Nat /\ Cardinality(Fresh) \in Nat
      /\ Cardinality(walk.page) \in Nat
  BY <1>1, FS_CardinalityType
<1>3. Cardinality(Fresh) <= Cardinality(walk.page)
  BY <1>1, FS_Subset
<1>4. Cardinality(walk.page) <= Limit
  BY <1>1 DEF ConsoleInv, PageHolds
<1>5. /\ Cardinality(walk.got) <= (FeedPages - walk.pages) * Limit
      /\ walk.pages <= FeedPages /\ walk.pages \in Nat
  BY WalkIs DEF ConsoleInv, StageHolds
<1>6. IsFiniteSet(Got) /\ Cardinality(Got) <= Cardinality(walk.got) + Cardinality(Fresh)
  <2>1. /\ IsFiniteSet(walk.got \cup Fresh)
        /\ Cardinality(walk.got \cup Fresh) =
             Cardinality(walk.got) + Cardinality(Fresh)
               - Cardinality(walk.got \cap Fresh)
    BY <1>1, FS_Union
  <2>2. Cardinality(walk.got \cap Fresh) \in Nat
    BY <1>1, FS_Intersection, FS_CardinalityType
  <2>3. QED BY <1>1, <1>2, <2>1, <2>2
<1>7. Cardinality(Got) \in Nat
  BY <1>6, FS_CardinalityType
<1>8. /\ (FeedPages - (walk.pages - 1)) * Limit = (FeedPages - walk.pages) * Limit + Limit
      /\ (FeedPages - walk.pages) * Limit \in Nat
  <2>1. /\ FeedPages \in Nat /\ Limit \in Nat /\ walk.pages \in Nat
        /\ FeedPages - walk.pages \in Nat
    BY <1>5, AssumedNat
  <2>2. \A a \in Nat, l \in Nat : (a + 1) * l = a * l + l /\ a * l \in Nat
    OBVIOUS
  <2>3. FeedPages - (walk.pages - 1) = (FeedPages - walk.pages) + 1
    BY <2>1
  <2>4. QED BY <2>1, <2>2, <2>3
<1>9. Cardinality(Got) <= (FeedPages - walk.pages) * Limit + Limit
  <2>1. Limit \in Nat
    BY AssumedNat
  <2> DEFINE m == (FeedPages - walk.pages) * Limit
  <2>2. m \in Nat /\ Cardinality(walk.got) <= m
    BY <1>5, <1>8
  <2> HIDE DEF m
  <2>3. Cardinality(Got) <= m + Limit
    BY <1>2, <1>3, <1>4, <1>6, <1>7, <2>1, <2>2
  <2>4. QED BY <2>3 DEF m
<1>10. QED BY <1>6, <1>7, <1>8, <1>9

LEMMA ContinueStep ==
    ASSUME ConsoleInv, Continue
    PROVE  ConsoleInv'
<1> DEFINE c == Min(walk.page)
<1>1. /\ UNCHANGED cache
      /\ UNCHANGED <<index, maxRun, truncated, filter, feed, evicted, gap, raced, left>>
      /\ walk' = [walk EXCEPT !.got = Got, !.cursor = c, !.evicted = Verdict,
                              !.pages = @ - 1, !.page = {}, !.rows = FALSE]
      /\ Answered /\ ~Over /\ walk.pages > 1 /\ walk.rows /\ walk.stage # "idle"
  BY DEF Continue, runs, panel, Answered
<1>2. walk \in Walk
  BY DEF ConsoleInv, TypeOK
<1>3. Fresh = walk.page /\ Full /\ walk.page # {} /\ Got = walk.got \cup walk.page
  BY <1>1, AllFresh DEF Got
<1>4. c \in walk.page /\ \A r \in walk.page : c <= r
  <2>1. walk.page \in SUBSET Nat
    BY IdsAre, WalkIs
  <2>2. QED BY <1>3, <2>1, MinOf
<1>5. /\ walk.got \subseteq Ids /\ walk.page \subseteq Ids /\ Ids \subseteq Nat
      /\ walk.cursor \in Nat /\ walk.known \in Nat /\ c \in Nat /\ Got \subseteq Ids
  BY <1>3, <1>4, IdsAre, WalkIs
<1> HIDE DEF c
<1>6. Verdict \in BOOLEAN
  BY WalkIs DEF Verdict
<1>7. walk.pages - 1 \in Nat /\ walk.pages - 1 >= 1
  BY <1>1, WalkIs
<1>8. /\ walk'.stage = walk.stage /\ walk'.filter = walk.filter
      /\ walk'.newest = walk.newest /\ walk'.known = walk.known
      /\ walk'.cursor = c /\ walk'.pages = walk.pages - 1
      /\ walk'.got = Got /\ walk'.evicted = Verdict
      /\ walk'.rows = FALSE /\ walk' \in Walk
  <2> DEFINE v == Verdict
             q == Got
  <2>1. v \in BOOLEAN /\ q \in SUBSET Ids
    BY <1>5, <1>6
  <2>2. walk' = [walk EXCEPT !.got = q, !.cursor = c, !.evicted = v,
                              !.pages = @ - 1, !.page = {}, !.rows = FALSE]
    BY <1>1
  <2> HIDE DEF v, q
  <2>3. PICK b \in BOOLEAN : v = b
    BY <2>1
  <2>4. walk' = [walk EXCEPT !.got = q, !.cursor = c, !.evicted = b,
                              !.pages = @ - 1, !.page = {}, !.rows = FALSE]
    BY <2>2, <2>3
  <2>5. /\ walk'.stage = walk.stage /\ walk'.filter = walk.filter
        /\ walk'.newest = walk.newest /\ walk'.known = walk.known
        /\ walk'.cursor = c /\ walk'.pages = walk.pages - 1
        /\ walk'.got = q /\ walk'.evicted = b
        /\ walk'.rows = FALSE /\ walk' \in Walk
    BY <1>2, <1>5, <1>7, <2>1, <2>4 DEF Walk
  <2>6. QED BY <2>3, <2>5 DEF v, q
<1>9. /\ log' = log /\ kept' = kept /\ Ids' = Ids /\ CacheInv' /\ Scopes' = Scopes
  BY <1>1, <1>8, SameCache DEF Scopes
<1>10. TypeOK'
  BY <1>1, <1>8, TypeStays DEF ConsoleInv, TypeOK
<1>11. StageHolds'
  <2>1. walk.stage = "panel" =>
          Cardinality(Got) <= (FeedPages - (walk.pages - 1)) * Limit
    BY <1>1, GotBound
  <2>2. walk.stage = "panel" => walk.pages - 1 <= FeedPages
    BY <1>1, WalkIs, AssumedNat DEF ConsoleInv, StageHolds
  <2>3. QED BY <1>1, <1>7, <1>8, <2>1, <2>2 DEF ConsoleInv, StageHolds, IsNewest
<1>12. GotHolds'
  <2>1. ASSUME NEW g \in Got
        PROVE  /\ g \in Ids /\ log[g].scope \in Scopes
               /\ walk.known < g /\ c <= g
    <3>1. CASE g \in walk.page
      <4>1. g \in Fresh
        BY <1>3, <3>1
      <4>2. QED BY <1>1, <1>4, <1>5, <3>1, <4>1 DEF ConsoleInv, PageHolds, Fresh
    <3>2. CASE g \in walk.got
      <4>1. c < walk.cursor /\ walk.cursor <= g
        BY <1>1, <1>4, <3>2 DEF ConsoleInv, PageHolds, GotHolds
      <4>2. g \in Nat
        BY <1>5, <3>2
      <4>3. c <= g
        BY <1>5, <4>1, <4>2
      <4>4. QED BY <3>2, <4>3 DEF ConsoleInv, GotHolds
    <3>3. QED BY <1>3, <3>1, <3>2
  <2>2. Got # {} /\ c \in Got
    BY <1>3, <1>4
  <2>3. ASSUME NEW id \in Ids, NEW g \in Got,
               log[id].scope \in Scopes, c <= id, id <= g, id \notin Got
        PROVE  walk.stage = "panel" /\ Verdict
    <3>1. \/ walk.stage = "panel" /\ Verdict
          \/ \A h \in walk.got \cup walk.page : id < h
      BY <1>1, <1>3, <2>3, MissingFrom
    <3>2. ~(id < c) /\ c \in walk.got \cup walk.page
      BY <1>4, <1>5, <2>3
    <3>3. QED BY <3>1, <3>2
  <2>4. QED BY <1>8, <1>9, <2>1, <2>2, <2>3 DEF GotHolds
<1>13. PageHolds'
  BY <1>8 DEF PageHolds
<1>14. QED BY <1>1, <1>9, <1>10, <1>11, <1>12, <1>13, IndexStays, FeedStays DEF ConsoleInv

LEMMA LatestIs ==
    ASSUME ConsoleInv, NEW s, NEW ids \in SUBSET Ids
    PROVE  /\ LatestOf(s, ids) \in Nat
           /\ IsNewest(LatestOf(s, ids), {id \in ids : log[id].scope = s})
           /\ \A n \in Nat : IsNewest(n, {id \in ids : log[id].scope = s})
                               => LatestOf(s, ids) = n
<1> DEFINE of == {id \in ids : log[id].scope = s}
<1>1. of \in SUBSET Ids
  OBVIOUS
<1>2. of \in SUBSET Nat /\ IsFiniteSet(of)
  BY <1>1, IdsAre
<1>3. LatestOf(s, ids) = Newest(of)
  <2>1. Matching({s}, ids) = of
    BY DEF Matching
  <2>2. QED BY <2>1 DEF LatestOf
<1> HIDE DEF of
<1>4. Newest(of) \in Nat /\ IsNewest(Newest(of), of)
  BY <1>2, NewestIs
<1>5. \A n \in Nat : IsNewest(n, of) => Newest(of) = n
  BY <1>2, <1>4, NewestOnly
<1>6. LatestOf(s, ids) \in Nat /\ IsNewest(LatestOf(s, ids), of)
      /\ \A n \in Nat : IsNewest(n, of) => LatestOf(s, ids) = n
  BY <1>3, <1>4, <1>5
<1>7. QED BY <1>6 DEF of

\* The walk that goes on to the panel or ends.
LEMMA AfterRunsWalk ==
    ASSUME ConsoleInv, UNCHANGED cache, UNCHANGED <<filter, feed, raced>>,
           walk.stage # "idle", AfterRuns
    PROVE  walk' \in Walk /\ StageHolds' /\ GotHolds' /\ PageHolds'
BY PanelWalk, IdleWalk DEF AfterRuns

LEMMA BootstrapRunsStep ==
    ASSUME ConsoleInv, BootstrapRuns
    PROVE  ConsoleInv'
<1> DEFINE ids == walk.got \cup walk.page
           m == Newest(ids)
<1>1. /\ UNCHANGED cache
      /\ UNCHANGED <<filter, feed, evicted, gap, raced, left>>
      /\ walk.stage = "bootstrap" /\ walk.rows /\ AfterRuns
      /\ index' = [s \in RunScope |-> LatestOf(s, ids)]
      /\ maxRun' = m /\ truncated' = Full
  BY DEF BootstrapRuns, panel, Answered
<1>2. walk' \in Walk /\ StageHolds' /\ GotHolds' /\ PageHolds'
  BY <1>1, AfterRunsWalk
<1>3. /\ log' = log /\ kept' = kept /\ Ids' = Ids /\ Walk' = Walk
      /\ CacheInv' /\ CacheTypeOK'
  BY <1>1, SameCache
<1>4. ids \in SUBSET Ids
  BY WalkIs
<1>5. m \in {0} \cup Ids /\ m \in ids \cup {0} /\ m \in Nat /\ \A id \in ids : id <= m
  BY <1>4, IdsAre, NewestIs
<1>6. 1 .. m \in SUBSET Ids
  BY <1>5, IdsAre
<1>7. \A id \in ids : id \in Ids /\ id \in Nat /\ 0 < id
  BY <1>4, IdsAre
<1> HIDE DEF m, ids
<1>8. ASSUME NEW s \in RunScope
      PROVE  /\ LatestOf(s, ids) \in {0} \cup Ids
             /\ \/ LatestOf(s, ids) = LatestOf(s, 1 .. m)
                \/ Full /\ LatestOf(s, ids) = 0
  <2> DEFINE a == LatestOf(s, ids)
             A == {id \in ids : log[id].scope = s}
             B == {id \in 1 .. m : log[id].scope = s}
  <2>1. a \in Nat /\ IsNewest(a, A)
    BY <1>4, LatestIs
  <2>2. \A n \in Nat : IsNewest(n, B) => LatestOf(s, 1 .. m) = n
    BY <1>6, LatestIs
  <2>3. ASSUME NEW id \in B, id \notin ids
        PROVE  Full /\ \A h \in ids : id < h
    <3>1. id \in Ids /\ log[id].scope = s /\ id <= m /\ 1 <= id /\ id \in Nat
      BY <1>5, <1>6
    <3>2. m \in ids
      BY <1>5, <3>1
    <3>3. log[id].scope \in Scopes
      BY <1>1, <3>1 DEF Scopes
    <3>4. QED
      BY <1>1, <2>3, <3>1, <3>2, <3>3, MissingFrom DEF ids
  <2> HIDE DEF a
  <2>4. CASE A = {}
    <3>1. a = 0
      BY <2>1, <2>4 DEF IsNewest
    <3>2. CASE B = {}
      <4>1. IsNewest(0, B)
        BY <3>2 DEF IsNewest
      <4>2. QED BY <2>2, <3>1, <4>1 DEF a
    <3>3. CASE B # {}
      <4>1. PICK id \in B : TRUE
        BY <3>3
      <4>2. id \notin ids
        BY <2>4, <4>1
      <4>3. QED BY <2>3, <3>1, <4>1, <4>2 DEF a
    <3>4. QED BY <3>2, <3>3
  <2>5. CASE A # {}
    <3>1. a \in A /\ \A id \in A : id <= a
      BY <2>1, <2>5 DEF IsNewest
    <3>2. a \in Ids /\ a \in ids /\ a <= m /\ log[a].scope = s /\ a \in Nat /\ 0 < a
      BY <1>5, <1>7, <3>1
    <3>3. a \in B
      BY <1>5, <3>2
    <3>4. ASSUME NEW id \in B  PROVE id <= a
      <4>1. CASE id \in ids
        BY <3>1, <4>1
      <4>2. CASE id \notin ids
        <5>1. id < a
          BY <2>3, <3>2, <4>2
        <5>2. id \in Nat
          BY <1>5
        <5>3. QED BY <3>2, <5>1, <5>2
      <4>3. QED BY <4>1, <4>2
    <3>5. IsNewest(a, B)
      BY <3>3, <3>4 DEF IsNewest
    <3>6. QED BY <2>1, <2>2, <3>2, <3>5 DEF a
  <2>6. QED BY <2>4, <2>5
<1>9. IndexIsLatest'
  <2>1. ASSUME NEW s \in RunScope
        PROVE  \/ index'[s] = LatestOf(s, 1 .. maxRun')
               \/ truncated' /\ index'[s] = 0
    BY <1>1, <1>8
  <2>2. QED BY <1>3, <2>1 DEF IndexIsLatest, LatestOf, Matching
<1>10. TypeOK'
  <2>1. index' \in [RunScope -> {0} \cup Ids] /\ maxRun' \in {0} \cup Ids
    BY <1>1, <1>5, <1>8
  <2>2. truncated' \in BOOLEAN
    BY <1>1 DEF Full
  <2>3. QED BY <1>1, <1>2, <1>3, <2>1, <2>2 DEF ConsoleInv, TypeOK
<1>11. QED BY <1>1, <1>2, <1>3, <1>9, <1>10, FeedStays DEF ConsoleInv

\* An advance that closes has every row between what it knew and the newest
\* it has, or a verdict that some may have been evicted.
LEMMA Filled ==
    ASSUME ConsoleInv, Answered, Over, walk.stage \in {"advance", "panel"},
           NEW id \in Ids, log[id].scope \in Scopes, walk.known < id,
           NEW g \in Got, id <= g,
           walk.known # 0 \/ \E h \in Got : h <= id
    PROVE  id \in Got \/ (walk.stage = "panel" /\ Verdict)
<1> SUFFICES ASSUME id \notin Got  PROVE walk.stage = "panel" /\ Verdict
  OBVIOUS
<1>1. /\ walk.rows /\ Got = walk.got \cup Fresh /\ walk.stage # "idle"
      /\ Fresh \subseteq walk.page /\ walk.known \in Nat /\ id \in Nat
      /\ \A h \in walk.got \cup walk.page : h \in Nat
  BY IdsAre, WalkIs DEF Answered, Got, Fresh
<1>2. id \notin walk.got \cup walk.page /\ g \in walk.got \cup walk.page
  BY <1>1 DEF Fresh
<1>3. SUFFICES ASSUME Full, \A h \in walk.got \cup walk.page : id < h
               PROVE  FALSE
  BY <1>1, <1>2, MissingFrom
<1>4. Fresh = walk.page
  BY <1>1, <1>3 DEF Fresh
<1>5. walk.known # 0
  BY <1>1, <1>3
<1>6. Fresh # {} /\ Min(Fresh) = walk.known + 1
  BY <1>3, <1>4, <1>5 DEF Over, Closed
<1>7. Min(Fresh) \in Fresh
  BY <1>1, <1>4, <1>6, MinOf
<1>8. QED BY <1>1, <1>3, <1>6, <1>7

LEMMA AdvanceRunsStep ==
    ASSUME ConsoleInv, AdvanceRuns
    PROVE  ConsoleInv'
<1> DEFINE n == Newest(Got)
           m == Max({maxRun, n})
<1>1. /\ UNCHANGED cache
      /\ UNCHANGED <<truncated, filter, feed, evicted, gap, raced, left>>
      /\ walk.stage = "advance" /\ Answered /\ Over /\ AfterRuns
      /\ index' = [s \in RunScope |-> Max({index[s], LatestOf(s, Got)})]
      /\ maxRun' = m
  BY DEF AdvanceRuns, panel
<1>2. walk' \in Walk /\ StageHolds' /\ GotHolds' /\ PageHolds'
  BY <1>1, AfterRunsWalk
<1>3. /\ log' = log /\ kept' = kept /\ Ids' = Ids /\ Walk' = Walk
      /\ CacheInv' /\ CacheTypeOK'
  BY <1>1, SameCache
<1>4. Got \in SUBSET Ids /\ \A g \in Got : g \in Ids /\ g \in Nat /\ walk.known < g
  BY IdsAre, WalkIs DEF Got, Fresh, ConsoleInv, GotHolds
<1>5. n \in Nat /\ n \in Got \cup {0} /\ \A g \in Got : g <= n
  BY <1>4, IdsAre, NewestIs
<1>6. /\ maxRun \in {0} \cup Ids /\ maxRun \in Nat /\ walk.known = maxRun /\ maxRun # 0
      /\ index \in [RunScope -> {0} \cup Ids]
  BY <1>1, IdsAre DEF ConsoleInv, TypeOK, StageHolds
<1> HIDE DEF n
<1>7. m \in {maxRun, n} /\ maxRun <= m /\ n <= m
  BY <1>5, <1>6, MaxOfTwo
<1> HIDE DEF m
<1>8. m \in Nat /\ m \in {0} \cup Ids
  BY <1>4, <1>5, <1>6, <1>7
<1>9. 1 .. m \in SUBSET Ids /\ 1 .. maxRun \in SUBSET Ids
  BY <1>6, <1>8, IdsAre
<1>10. ASSUME NEW s \in RunScope
       PROVE  LET i == Max({index[s], LatestOf(s, Got)}) IN
              /\ i \in {0} \cup Ids
              /\ i = LatestOf(s, 1 .. m) \/ (truncated /\ i = 0)
  <2> DEFINE a == LatestOf(s, Got)
             i == Max({index[s], a})
             A == {id \in Got : log[id].scope = s}
             B == {id \in 1 .. m : log[id].scope = s}
             C == {id \in 1 .. maxRun : log[id].scope = s}
  <2>1. a \in Nat /\ IsNewest(a, A)
    BY <1>4, LatestIs
  <2>2. \A x \in Nat : IsNewest(x, B) => LatestOf(s, 1 .. m) = x
    BY <1>9, LatestIs
  <2>3. \/ IsNewest(index[s], C)
        \/ truncated /\ index[s] = 0
    <3>1. IsNewest(LatestOf(s, 1 .. maxRun), C)
      BY <1>9, LatestIs
    <3>2. QED BY <3>1 DEF ConsoleInv, IndexIsLatest
  <2>4. index[s] \in Nat /\ index[s] \in {0} \cup Ids /\ index[s] <= maxRun
    <3>1. index[s] \in Nat /\ index[s] \in {0} \cup Ids
      BY <1>6, IdsAre
    <3>2. index[s] = 0 \/ index[s] \in 1 .. maxRun
      BY <2>3 DEF IsNewest
    <3>3. QED BY <1>6, <3>1, <3>2
  <2>5. ASSUME NEW id \in B, maxRun < id  PROVE id \in A
    <3>1. id \in Ids /\ log[id].scope = s /\ id <= m /\ id \in Nat
      BY <1>8, <1>9
    <3>2. n \in Got /\ id <= n
      BY <1>5, <1>6, <1>7, <2>5, <3>1
    <3>3. log[id].scope \in Scopes
      BY <1>1, <3>1 DEF Scopes
    <3>4. id \in Got
      BY <1>1, <1>6, <2>5, <3>1, <3>2, <3>3, Filled
    <3>5. QED BY <3>1, <3>4
  <2> HIDE DEF a
  <2>6. i \in {index[s], a} /\ index[s] <= i /\ a <= i
    BY <2>1, <2>4, MaxOfTwo
  <2> HIDE DEF i
  <2>7. CASE A = {}
    <3>1. a = 0 /\ i = index[s]
      BY <2>1, <2>4, <2>6, <2>7 DEF IsNewest
    <3>2. B = C
      <4>1. C \subseteq B
        BY <1>6, <1>7, <1>8
      <4>2. ASSUME NEW id \in B  PROVE id \in C
        <5>1. ~(maxRun < id) /\ id \in Nat /\ 1 <= id
          BY <1>8, <2>5, <2>7
        <5>2. QED BY <1>6, <5>1
      <4>3. QED BY <4>1, <4>2
    <3>3. QED BY <2>2, <2>3, <2>4, <3>1, <3>2 DEF i, a
  <2>8. CASE A # {}
    <3>1. a \in A /\ \A id \in A : id <= a
      BY <2>1, <2>8 DEF IsNewest
    <3>2. a \in Ids /\ maxRun < a /\ a <= m /\ log[a].scope = s /\ 0 < a
      BY <1>4, <1>5, <1>6, <1>7, <1>8, <2>1, <3>1
    <3>3. i = a
      BY <1>6, <2>1, <2>4, <2>6, <3>2
    <3>4. a \in B
      BY <1>8, <2>1, <3>2
    <3>5. ASSUME NEW id \in B  PROVE id <= a
      <4>1. id \in Nat
        BY <1>8
      <4>2. CASE maxRun < id
        BY <2>5, <3>1, <4>2
      <4>3. CASE ~(maxRun < id)
        BY <1>6, <2>1, <3>2, <4>1, <4>3
      <4>4. QED BY <4>2, <4>3
    <3>6. IsNewest(a, B)
      BY <3>4, <3>5 DEF IsNewest
    <3>7. QED BY <2>1, <2>2, <3>2, <3>3, <3>6 DEF i, a
  <2>9. QED BY <2>7, <2>8
<1>11. IndexIsLatest'
  <2>1. ASSUME NEW s \in RunScope
        PROVE  \/ index'[s] = LatestOf(s, 1 .. maxRun')
               \/ truncated' /\ index'[s] = 0
    BY <1>1, <1>10
  <2>2. QED BY <1>3, <2>1 DEF IndexIsLatest, LatestOf, Matching
<1>12. TypeOK'
  <2>1. index' \in [RunScope -> {0} \cup Ids] /\ maxRun' \in {0} \cup Ids
    BY <1>1, <1>8, <1>10
  <2>2. QED BY <1>1, <1>2, <1>3, <2>1 DEF ConsoleInv, TypeOK
<1>13. QED BY <1>1, <1>2, <1>3, <1>11, <1>12, FeedStays DEF ConsoleInv

LEMMA FeedRoom ==
    /\ Max({Keep, FeedPages * Limit}) \in Nat
    /\ Keep <= Max({Keep, FeedPages * Limit})
    /\ FeedPages * Limit <= Max({Keep, FeedPages * Limit})
    /\ FeedPages * Limit \in Nat
<1>1. FeedPages * Limit \in Nat
  BY AssumedNat
<1>2. QED BY <1>1, AssumedNat, MaxOfTwo

LEMMA GotIs ==
    ASSUME ConsoleInv, Answered
    PROVE  /\ Got \in SUBSET Ids
           /\ \A g \in Got : log[g].scope \in Scopes /\ walk.known < g
<1>1. Got \in SUBSET Ids
  BY WalkIs DEF Got, Fresh
<1>2. walk.known \in Nat /\ \A r \in walk.page : r \in Nat
  BY WalkIs, IdsAre
<1>3. \A g \in walk.got : log[g].scope \in Scopes /\ walk.known < g
  BY DEF ConsoleInv, GotHolds
<1>4. \A r \in Fresh : log[r].scope \in Scopes /\ walk.known < r
  BY <1>2 DEF ConsoleInv, PageHolds, Answered, Fresh
<1>5. QED BY <1>1, <1>3, <1>4 DEF Got

LEMMA ResyncPanelStep ==
    ASSUME ConsoleInv, ResyncPanel
    PROVE  ConsoleInv'
<1>1. /\ UNCHANGED cache
      /\ UNCHANGED <<index, maxRun, truncated, filter, raced, left>>
      /\ walk.stage = "panel" /\ Answered /\ walk.pages = 1
      /\ feed' = Got /\ gap' = TRUE /\ evicted' = (evicted \/ Verdict)
      /\ walk' = Idle
  BY DEF ResyncPanel, runs
<1>2. walk' \in Walk /\ StageHolds' /\ GotHolds' /\ PageHolds'
  BY <1>1, IdleWalk
<1>3. /\ log' = log /\ kept' = kept /\ Ids' = Ids /\ Walk' = Walk
      /\ CacheInv' /\ CacheTypeOK'
  BY <1>1, SameCache
<1>4. Got \subseteq Ids
  BY <1>1, GotIs
<1>5. Cardinality(Got) <= Max({Keep, FeedPages * Limit})
  <2>1. /\ Cardinality(Got) \in Nat
        /\ Cardinality(Got) <= (FeedPages - (walk.pages - 1)) * Limit
    BY <1>1, GotBound
  <2>2. FeedPages - (walk.pages - 1) = FeedPages
    BY <1>1, AssumedNat
  <2>3. Cardinality(Got) <= FeedPages * Limit
    BY <2>1, <2>2
  <2>4. QED BY <2>1, <2>3, FeedRoom
<1>6. evicted' \in BOOLEAN
  BY <1>1 DEF ConsoleInv, TypeOK
<1>7. TypeOK'
  BY <1>1, <1>2, <1>3, <1>4, <1>5, <1>6 DEF ConsoleInv, TypeOK
<1>8. FeedHonest'
  BY <1>1 DEF FeedHonest, Honest
<1>9. QED BY <1>1, <1>2, <1>3, <1>7, <1>8, IndexStays DEF ConsoleInv

LEMMA AdvancePanelStep ==
    ASSUME ConsoleInv, AdvancePanel
    PROVE  ConsoleInv'
<1> DEFINE rows == feed \cup Got
           top == {id \in rows : Cardinality({r \in rows : r >= id}) <= Keep}
<1>1. /\ UNCHANGED cache
      /\ UNCHANGED <<index, maxRun, truncated, filter, gap, raced, left>>
      /\ walk.stage = "panel" /\ Answered /\ Over
      /\ feed' = top /\ evicted' = (evicted \/ Verdict)
      /\ walk' = Idle
  BY DEF AdvancePanel, runs
<1>2. walk' \in Walk /\ StageHolds' /\ GotHolds' /\ PageHolds'
  BY <1>1, IdleWalk
<1>3. /\ log' = log /\ kept' = kept /\ Ids' = Ids /\ Walk' = Walk
      /\ CacheInv' /\ CacheTypeOK'
  BY <1>1, SameCache
<1>4. /\ Got \in SUBSET Ids /\ feed \in SUBSET Ids /\ rows \in SUBSET Ids
      /\ \A g \in Got : log[g].scope \in Scopes /\ walk.known < g
  BY <1>1, GotIs DEF ConsoleInv, TypeOK
<1>5. /\ top \subseteq rows /\ Cardinality(top) <= Keep
      /\ \A x \in top, y \in rows : x <= y => y \in top
  <2>1. rows \in SUBSET Nat /\ IsFiniteSet(rows)
    BY <1>4, IdsAre
  <2> HIDE DEF rows
  <2>2. QED BY <2>1, AssumedNat, TopOf
<1> HIDE DEF top
<1>6. top \in SUBSET Ids /\ IsFiniteSet(top) /\ top \in SUBSET Nat
  BY <1>4, <1>5, IdsAre
<1>7. Cardinality(top) <= Max({Keep, FeedPages * Limit})
  <2>1. Cardinality(top) \in Nat
    BY <1>6, FS_CardinalityType
  <2>2. QED BY <1>5, <2>1, FeedRoom, AssumedNat
<1>8. evicted' \in BOOLEAN
  BY <1>1 DEF ConsoleInv, TypeOK
<1>9. TypeOK'
  BY <1>1, <1>2, <1>3, <1>6, <1>7, <1>8 DEF ConsoleInv, TypeOK
<1>10. ASSUME ~raced, ~evicted, ~Verdict, ~gap, top # {}
       PROVE  top = {id \in Min(top) .. Max(top) : log[id].scope \in filter}
  <2> DEFINE lo == Min(top)
             hi == Max(top)
  <2>1. /\ lo \in top /\ \A id \in top : lo <= id
        /\ hi \in top /\ \A id \in top : id <= hi
    BY <1>6, <1>10, MinOf, MaxOf
  <2> HIDE DEF lo, hi
  <2>2. /\ Scopes = filter /\ IsNewest(walk.known, feed) /\ walk.known \in Nat
    BY <1>1, <1>10, WalkIs DEF ConsoleInv, StageHolds, Scopes
  <2>3. feed = {} \/ feed = {id \in Min(feed) .. Max(feed) : log[id].scope \in filter}
    BY <1>10 DEF ConsoleInv, FeedHonest, Honest, Matching
  <2>4. feed # {} =>
          /\ Min(feed) \in feed /\ \A id \in feed : Min(feed) <= id
          /\ Max(feed) \in feed /\ \A id \in feed : id <= Max(feed)
    <3>1. feed \in SUBSET Nat /\ IsFiniteSet(feed)
      BY <1>4, IdsAre
    <3>2. QED BY <3>1, MinOf, MaxOf
  <2>5. \A id \in Ids : id \in Nat /\ 0 < id
    BY IdsAre
  <2>6. lo .. hi \subseteq Ids
    BY <1>6, <2>1, IdsAre
  <2>7. \A id \in rows : log[id].scope \in filter
    BY <1>4, <2>2, <2>3
  <2>8. ASSUME NEW id \in lo .. hi, log[id].scope \in filter  PROVE id \in rows
    <3>1. /\ id \in Ids /\ id \in Nat /\ 0 < id /\ lo <= id /\ id <= hi
          /\ lo \in rows /\ hi \in rows /\ lo \in Nat /\ hi \in Nat
      BY <1>5, <1>6, <2>1, <2>5, <2>6
    <3>2. CASE id <= walk.known
      <4>1. feed # {} /\ walk.known \in feed
        BY <2>2, <3>1, <3>2 DEF IsNewest
      <4>2. lo \in feed
        <5>1. ~(walk.known < lo)
          BY <2>2, <3>1, <3>2
        <5>2. QED BY <1>4, <3>1, <5>1
      <4>3. Min(feed) <= lo /\ walk.known <= Max(feed)
        BY <2>4, <4>1, <4>2
      <4>4. Min(feed) \in Nat /\ Max(feed) \in Nat
        BY <1>4, <2>4, <2>5, <4>1
      <4>5. id \in Min(feed) .. Max(feed)
        BY <2>2, <3>1, <3>2, <4>3, <4>4
      <4>6. QED BY <2>3, <2>8, <4>1, <4>5
    <3>3. CASE walk.known < id
      <4>1. \A f \in feed : f <= walk.known /\ f \in Nat
        BY <1>4, <2>2, <2>5 DEF IsNewest
      <4>2. hi \in Got
        <5>1. ~(hi <= walk.known)
          BY <2>2, <3>1, <3>3
        <5>2. QED BY <3>1, <4>1, <5>1
      <4>3. walk.known # 0 \/ \E h \in Got : h <= id
        <5>1. CASE walk.known = 0
          <6>1. feed = {}
            BY <1>4, <2>2, <2>5, <5>1 DEF IsNewest
          <6>2. lo \in Got
            BY <3>1, <6>1
          <6>3. QED BY <3>1, <6>2
        <5>2. QED BY <5>1
      <4>4. id \in Got
        BY <1>1, <1>10, <2>2, <2>8, <3>1, <3>3, <4>2, <4>3, Filled
      <4>5. QED BY <4>4
    <3>4. QED BY <2>2, <3>1, <3>2, <3>3
  <2>9. ASSUME NEW id \in lo .. hi, log[id].scope \in filter  PROVE id \in top
    <3>1. id \in rows /\ lo <= id
      BY <2>1, <1>6, <2>8, <2>9
    <3>2. QED BY <1>5, <2>1, <3>1
  <2>10. \A id \in top : id \in lo .. hi /\ log[id].scope \in filter
    BY <1>5, <1>6, <2>1, <2>7
  <2>11. top = {id \in lo .. hi : log[id].scope \in filter}
    BY <2>9, <2>10
  <2>12. QED BY <2>11 DEF lo, hi
<1>11. FeedHonest'
  <2>1. SUFFICES ASSUME ~raced', ~evicted', ~gap', feed' # {}
                 PROVE  feed' = {id \in Min(feed') .. Max(feed') :
                                   log'[id].scope \in filter'}
    BY DEF FeedHonest, Honest, Matching
  <2>2. ~raced /\ ~evicted /\ ~Verdict /\ ~gap /\ top # {}
    BY <1>1, <2>1
  <2>3. QED BY <1>1, <1>3, <1>10, <2>2
<1>12. QED BY <1>1, <1>2, <1>3, <1>9, <1>11, IndexStays DEF ConsoleInv

-----------------------------------------------------------------------------
(* The theorems. *)

LEMMA ConsoleNext ==
    ConsoleInv /\ [Next]_vars => ConsoleInv'
<1> SUFFICES ASSUME ConsoleInv, [Next]_vars  PROVE ConsoleInv'
  OBVIOUS
<1>1. CASE CacheNext /\ UNCHANGED console
  BY <1>1, CacheStep
<1>2. CASE StartRefresh
  BY <1>2, StartRefreshStep
<1>3. CASE ReadRows
  BY <1>3, ReadRowsStep
<1>4. CASE Continue
  BY <1>4, ContinueStep
<1>5. CASE BootstrapRuns
  BY <1>5, BootstrapRunsStep
<1>6. CASE AdvanceRuns
  BY <1>6, AdvanceRunsStep
<1>7. CASE Rebootstrap
  BY <1>7, RebootstrapStep
<1>8. CASE ResyncPanel
  BY <1>8, ResyncPanelStep
<1>9. CASE AdvancePanel
  BY <1>9, AdvancePanelStep
<1>10. CASE Refused
  BY <1>10, RefusedStep
<1>11. CASE \E f \in Filter : SubmitFilter(f)
  BY <1>11, SubmitFilterStep
<1>12. CASE UNCHANGED vars
  <2>1. /\ UNCHANGED cache
        /\ UNCHANGED <<index, maxRun, truncated, filter, feed, evicted, gap, raced, left>>
        /\ walk' = walk
    BY <1>12 DEF vars, console, runs, panel
  <2>2. /\ log' = log /\ kept' = kept /\ Ids' = Ids /\ Walk' = Walk
        /\ CacheInv' /\ CacheTypeOK' /\ Scopes' = Scopes
    BY <2>1, SameCache DEF Scopes
  <2>3. TypeOK'
    BY <2>1, <2>2, TypeStays DEF ConsoleInv, TypeOK
  <2>4. StageHolds'
    BY <2>1 DEF ConsoleInv, StageHolds, IsNewest
  <2>5. GotHolds' /\ PageHolds'
    BY <2>1, <2>2 DEF ConsoleInv, GotHolds, PageHolds, Full
  <2>6. QED BY <2>1, <2>2, <2>3, <2>4, <2>5, IndexStays, FeedStays DEF ConsoleInv
<1>13. QED
  BY <1>1, <1>2, <1>3, <1>4, <1>5, <1>6, <1>7, <1>8, <1>9, <1>10, <1>11, <1>12
     DEF Next, Console

\* The console's index is the store's run_states as of the newest run event it
\* knows, and its walks are bounded, though pages are read while events arrive
\* and older ones are evicted (tui/model.py RunIndex).
THEOREM IndexIsRight == Spec => []IndexInvariant
<1>1. ConsoleInv => IndexInvariant
  BY DEF ConsoleInv, IndexInvariant
<1>2. QED BY ConsoleInit, ConsoleNext, <1>1, PTL DEF Spec

\* The feed shows every event of its query between the oldest and the newest
\* it holds, or the panel says that its history is incomplete, across
\* advances, evictions between the pages of a walk, refused reads and pauses
\* (tui/model.py advance_events, tui/app.py refresh_now).
THEOREM FeedIsHonest == Spec => []FeedHonest
<1>1. ConsoleInv => FeedHonest
  BY DEF ConsoleInv
<1>2. QED BY ConsoleInit, ConsoleNext, <1>1, PTL DEF Spec
=============================================================================
