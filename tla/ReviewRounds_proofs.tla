--------------------------- MODULE ReviewRounds_proofs ---------------------------
(***************************************************************************)
(* Proofs about a PR's rounds of review, for every budget and bound.  Of   *)
(* any number of Reviewers and any human: the drift lane's rulings, and    *)
(* that a PR falls out of every pool only by a cut.  Of one Reviewer and a *)
(* human who waits for its round to end: the labels and the turns.         *)
(***************************************************************************)
EXTENDS ReviewRounds, TLAPS

\* What may be left of the writes of a verdict.
Rest(kind) ==
    CASE kind = "approve" -> {<<"comment", "stamp">>, <<"stamp">>}
      [] kind = "revise" ->
           {<<"comment", "attempt", "unready", "unassign", "unprogress", "requeue">>,
            <<"attempt", "unready", "unassign", "unprogress", "requeue">>,
            <<"unready", "unassign", "unprogress", "requeue">>,
            <<"unassign", "unprogress", "requeue">>,
            <<"unprogress", "requeue">>, <<"requeue">>}
      [] kind = "escalate" ->
           {<<"comment", "unready", "hold">>, <<"unready", "hold">>, <<"hold">>}

Published(r) == round[r].at = "publish"
Pending(r, w) == w \in ToSet(round[r].todo)

\* A verdict that is published is a record of its parts.
RoundForm(r) ==
    \/ round[r] \in {Idle, [at |-> "listed"]}
    \/ round[r] \in [at : {"session"}, round : 1 .. RoundBudget, head : Nat]
    \/ /\ Published(r) /\ round[r].verdict \in Verdict
       /\ round[r].todo \in Rest(round[r].verdict.kind)
       /\ round[r] = [at |-> "publish", verdict |-> round[r].verdict, todo |-> round[r].todo]

Types ==
    /\ PullTypes /\ LaneTypes /\ left \in [Budget -> Nat]
    /\ DOMAIN round = Reviewer /\ \A r \in Reviewer : RoundForm(r)
    /\ tip + left["drifts"] = MaxDrifts

-----------------------------------------------------------------------------
\* The writes of a verdict, in their order.

LEMMA ApproveRest ==
  ASSUME NEW s \in Rest("approve")
  PROVE  /\ s # <<>> /\ IsSuffix(s, Writes("approve")) /\ Head(s) \in ToSet(s)
         /\ \/ Tail(s) = <<>> /\ Head(s) = "stamp"
            \/ /\ Tail(s) \in Rest("approve") /\ ToSet(Tail(s)) = ToSet(s) \ {Head(s)}
               /\ Tail(s) # <<>> /\ Head(s) = "comment"
         /\ Head(s) = "stamp" => ToSet(s) = {"stamp"}
         /\ Head(s) = "comment" => ToSet(s) = {"comment", "stamp"}
<1>1. s \in {<<"comment", "stamp">>, <<"stamp">>}
  BY DEF Rest
<1>2. CASE s = <<"comment", "stamp">>
  BY <1>2 DEF Rest, Writes, ToSet, IsSuffix, IsPrefix, Reverse
<1>3. CASE s = <<"stamp">>
  BY <1>3 DEF Rest, Writes, ToSet, IsSuffix, IsPrefix, Reverse
<1> QED BY <1>1, <1>2, <1>3

LEMMA EscalateRest ==
  ASSUME NEW s \in Rest("escalate")
  PROVE  /\ s # <<>> /\ IsSuffix(s, Writes("escalate")) /\ Head(s) \in ToSet(s)
         /\ \/ Tail(s) = <<>> /\ Head(s) = "hold"
            \/ /\ Tail(s) \in Rest("escalate") /\ ToSet(Tail(s)) = ToSet(s) \ {Head(s)}
               /\ Tail(s) # <<>> /\ Head(s) \in {"comment", "unready"}
         /\ Head(s) = "hold" => ToSet(s) = {"hold"}
         /\ Head(s) = "unready" => ToSet(s) = {"unready", "hold"}
         /\ Head(s) = "comment" => ToSet(s) = {"comment", "unready", "hold"}
<1>1. s \in {<<"comment", "unready", "hold">>, <<"unready", "hold">>, <<"hold">>}
  BY DEF Rest
<1>2. CASE s = <<"comment", "unready", "hold">>
  BY <1>2 DEF Rest, Writes, ToSet, IsSuffix, IsPrefix, Reverse
<1>3. CASE s = <<"unready", "hold">>
  BY <1>3 DEF Rest, Writes, ToSet, IsSuffix, IsPrefix, Reverse
<1>4. CASE s = <<"hold">>
  BY <1>4 DEF Rest, Writes, ToSet, IsSuffix, IsPrefix, Reverse
<1> QED BY <1>1, <1>2, <1>3, <1>4

LEMMA ReviseRest ==
  ASSUME NEW s \in Rest("revise")
  PROVE  /\ s # <<>> /\ IsSuffix(s, Writes("revise")) /\ Head(s) \in ToSet(s)
         /\ \/ Tail(s) = <<>> /\ Head(s) = "requeue"
            \/ /\ Tail(s) \in Rest("revise") /\ ToSet(Tail(s)) = ToSet(s) \ {Head(s)}
               /\ Tail(s) # <<>>
               /\ Head(s) \in {"comment", "attempt", "unready", "unassign", "unprogress"}
         /\ Head(s) = "requeue" => ToSet(s) = {"requeue"}
         /\ Head(s) = "unprogress" => ToSet(s) = {"unprogress", "requeue"}
         /\ Head(s) = "unassign" => ToSet(s) = {"unassign", "unprogress", "requeue"}
         /\ Head(s) = "unready" => ToSet(s) = {"unready", "unassign", "unprogress", "requeue"}
         /\ Head(s) = "attempt" =>
              ToSet(s) = {"attempt", "unready", "unassign", "unprogress", "requeue"}
         /\ Head(s) = "comment" =>
              ToSet(s) = {"comment", "attempt", "unready", "unassign", "unprogress", "requeue"}
<1>1. s \in {<<"comment", "attempt", "unready", "unassign", "unprogress", "requeue">>,
             <<"attempt", "unready", "unassign", "unprogress", "requeue">>,
             <<"unready", "unassign", "unprogress", "requeue">>,
             <<"unassign", "unprogress", "requeue">>, <<"unprogress", "requeue">>, <<"requeue">>}
  BY DEF Rest
<1>2. CASE s = <<"comment", "attempt", "unready", "unassign", "unprogress", "requeue">>
  BY <1>2 DEF Rest, Writes, ToSet, IsSuffix, IsPrefix, Reverse
<1>3. CASE s = <<"attempt", "unready", "unassign", "unprogress", "requeue">>
  BY <1>3 DEF Rest, Writes, ToSet, IsSuffix, IsPrefix, Reverse
<1>4. CASE s = <<"unready", "unassign", "unprogress", "requeue">>
  BY <1>4 DEF Rest, Writes, ToSet, IsSuffix, IsPrefix, Reverse
<1>5. CASE s = <<"unassign", "unprogress", "requeue">>
  BY <1>5 DEF Rest, Writes, ToSet, IsSuffix, IsPrefix, Reverse
<1>6. CASE s = <<"unprogress", "requeue">>
  BY <1>6 DEF Rest, Writes, ToSet, IsSuffix, IsPrefix, Reverse
<1>7. CASE s = <<"requeue">>
  BY <1>7 DEF Rest, Writes, ToSet, IsSuffix, IsPrefix, Reverse
<1> QED BY <1>1, <1>2, <1>3, <1>4, <1>5, <1>6, <1>7

-----------------------------------------------------------------------------
\* Rounds.

\* A round that publishes has a verdict, and something left to write of it.
LEMMA PublishedForm ==
  ASSUME Types, NEW r \in Reviewer, Published(r)
  PROVE  /\ round[r].verdict \in Verdict /\ round[r].verdict.kind \in Kind
         /\ round[r].todo \in Rest(round[r].verdict.kind)
         /\ round[r] = [at |-> "publish", verdict |-> round[r].verdict, todo |-> round[r].todo]
BY DEF Types, RoundForm, Published, Idle, Verdict

\* The type that the specification states follows from the form of a round.
LEMMA FormIsType ==
  ASSUME Types, NEW r \in Reviewer
  PROVE  RoundType(r)
<1>1. CASE Published(r)
  <2> DEFINE v == round[r].verdict
  <2>1. v \in Verdict /\ v.kind \in Kind /\ round[r].todo \in Rest(v.kind)
    BY <1>1, PublishedForm
  <2> HIDE DEF v
  <2>2. round[r].todo # <<>> /\ IsSuffix(round[r].todo, Writes(v.kind))
    <3>1. CASE v.kind = "approve"
      BY <2>1, <3>1, ApproveRest
    <3>2. CASE v.kind = "revise"
      BY <2>1, <3>2, ReviseRest
    <3>3. CASE v.kind = "escalate"
      BY <2>1, <3>3, EscalateRest
    <3> QED BY <2>1, <3>1, <3>2, <3>3 DEF Kind
  <2> QED BY <1>1, <2>1, <2>2 DEF RoundType, Published, v
<1>2. CASE ~Published(r)
  BY <1>2 DEF Types, RoundForm, RoundType
<1> QED BY <1>1, <1>2

\* One round goes on to something of the right form, the others stay.
LEMMA RoundMoves ==
  ASSUME Types, NEW r \in Reviewer, NEW next, round' = [round EXCEPT ![r] = next],
         \/ next \in {Idle, [at |-> "listed"]}
         \/ next \in [at : {"session"}, round : 1 .. RoundBudget, head : Nat]
         \/ \E v \in Verdict : \E todo \in Rest(v.kind) :
               next = [at |-> "publish", verdict |-> v, todo |-> todo]
  PROVE  /\ DOMAIN round' = Reviewer /\ (\A q \in Reviewer : RoundForm(q))'
         /\ round'[r] = next /\ \A q \in Reviewer \ {r} : round'[q] = round[q]
<1>1. DOMAIN round' = Reviewer /\ round'[r] = next /\ \A q \in Reviewer \ {r} : round'[q] = round[q]
  BY DEF Types
<1>2. RoundForm(r)'
  BY <1>1 DEF RoundForm, Published
<1>3. ASSUME NEW q \in Reviewer \ {r}
      PROVE  RoundForm(q)'
  BY <1>1, <1>3 DEF Types, RoundForm, Published
<1> QED BY <1>1, <1>2, <1>3

\* A verdict's writes begin with all of them.
LEMMA WholeRest ==
  ASSUME NEW kind \in Kind
  PROVE  Writes(kind) \in Rest(kind) /\ "comment" \in ToSet(Writes(kind))
         /\ (kind # "approve" => "unready" \in ToSet(Writes(kind)))
         /\ (kind = "revise" => "attempt" \in ToSet(Writes(kind)))
<1>1. CASE kind = "approve"
  BY <1>1 DEF Writes, Rest, ToSet
<1>2. CASE kind = "revise"
  BY <1>2 DEF Writes, Rest, ToSet
<1>3. CASE kind = "escalate"
  BY <1>3 DEF Writes, Rest, ToSet
<1> QED BY <1>1, <1>2, <1>3 DEF Kind

LEMMA PublishMoves ==
  ASSUME Types, NEW r \in Reviewer, NEW kind \in Kind, NEW n \in 1 .. RoundBudget,
         NEW head \in Nat, Publish(r, kind, n, head)
  PROVE  /\ DOMAIN round' = Reviewer /\ (\A q \in Reviewer : RoundForm(q))'
         /\ round'[r].at = "publish" /\ round'[r].todo = Writes(kind)
         /\ round'[r].verdict = [kind |-> kind, round |-> n, head |-> head]
         /\ \A q \in Reviewer \ {r} : round'[q] = round[q]
<1> DEFINE v == [kind |-> kind, round |-> n, head |-> head]
<1> DEFINE next == [at |-> "publish", verdict |-> v, todo |-> Writes(kind)]
<1>1. v \in Verdict /\ v.kind = kind
  BY DEF Verdict
<1>2. Writes(kind) \in Rest(v.kind)
  BY <1>1, WholeRest
<1>3. round' = [round EXCEPT ![r] = next]
  BY DEF Publish
<1> HIDE DEF v
<1>4. \E w \in Verdict : \E todo \in Rest(w.kind) :
        next = [at |-> "publish", verdict |-> w, todo |-> todo]
  BY <1>1, <1>2
<1> HIDE DEF next
<1>5. /\ DOMAIN round' = Reviewer /\ (\A q \in Reviewer : RoundForm(q))'
      /\ round'[r] = next /\ \A q \in Reviewer \ {r} : round'[q] = round[q]
  BY <1>3, <1>4, RoundMoves
<1> QED BY <1>5 DEF next, v

\* A write: what is first of the rest, and what is left after it.
LEMMA WriteMoves ==
  ASSUME Types, NEW r \in Reviewer, Write(r)
  PROVE  /\ Published(r) /\ DOMAIN round' = Reviewer /\ (\A q \in Reviewer : RoundForm(q))'
         /\ \A q \in Reviewer \ {r} : round'[q] = round[q]
         /\ Pending(r, Head(round[r].todo))
         /\ \/ Tail(round[r].todo) = <<>> /\ round'[r] = Idle
            \/ /\ Tail(round[r].todo) # <<>> /\ Published(r)'
               /\ round'[r].verdict = round[r].verdict
               /\ \A w : Pending(r, w)' <=> Pending(r, w) /\ w # Head(round[r].todo)
<1> DEFINE v == round[r].verdict
<1> DEFINE s == round[r].todo
<1> DEFINE rest == Tail(s)
<1>1. Published(r) /\ v \in Verdict /\ v.kind \in Kind /\ s \in Rest(v.kind)
      /\ round[r] = [at |-> "publish", verdict |-> v, todo |-> s]
  BY PublishedForm DEF Write, Published
<1>2. round' = [round EXCEPT ![r] = IF rest = <<>> THEN Idle ELSE [round[r] EXCEPT !.todo = rest]]
  BY DEF Write
<1> HIDE DEF v, s, rest
<1>3. /\ Head(s) \in ToSet(s)
      /\ rest # <<>> => rest \in Rest(v.kind) /\ ToSet(rest) = ToSet(s) \ {Head(s)}
  <2>1. CASE v.kind = "approve"
    BY <1>1, <2>1, ApproveRest DEF rest
  <2>2. CASE v.kind = "revise"
    BY <1>1, <2>2, ReviseRest DEF rest
  <2>3. CASE v.kind = "escalate"
    BY <1>1, <2>3, EscalateRest DEF rest
  <2> QED BY <1>1, <2>1, <2>2, <2>3 DEF Kind
<1>4. CASE rest = <<>>
  <2>1. round' = [round EXCEPT ![r] = Idle]
    BY <1>2, <1>4 DEF Types
  <2>2. /\ DOMAIN round' = Reviewer /\ (\A q \in Reviewer : RoundForm(q))'
        /\ round'[r] = Idle /\ \A q \in Reviewer \ {r} : round'[q] = round[q]
    BY <2>1, RoundMoves
  <2> QED BY <1>1, <1>3, <1>4, <2>2 DEF Pending, s, rest
<1>5. CASE rest # <<>>
  <2> DEFINE next == [at |-> "publish", verdict |-> v, todo |-> rest]
  <2>1. round' = [round EXCEPT ![r] = next]
    <3>1. [round[r] EXCEPT !.todo = rest] = next
      BY <1>1
    <3> HIDE DEF next
    <3> QED BY <1>2, <1>5, <3>1 DEF Types
  <2>2. \E w \in Verdict : \E todo \in Rest(w.kind) :
          next = [at |-> "publish", verdict |-> w, todo |-> todo]
    BY <1>1, <1>3, <1>5
  <2> HIDE DEF next
  <2>3. /\ DOMAIN round' = Reviewer /\ (\A q \in Reviewer : RoundForm(q))'
        /\ round'[r] = next /\ \A q \in Reviewer \ {r} : round'[q] = round[q]
    BY <2>1, <2>2, RoundMoves
  <2>4. round'[r].at = "publish" /\ round'[r].verdict = v /\ round'[r].todo = rest
    BY <2>3 DEF next
  <2> QED BY <1>1, <1>3, <1>5, <2>3, <2>4 DEF Pending, Published, v, s, rest
<1> QED BY <1>4, <1>5

-----------------------------------------------------------------------------
\* What holds of any number of Reviewers and any human.

\* What the ledger of the lane knows of each drift, and the lane of its own.
LaneKnows ==
    /\ \A t \in landed : Commented(t) \in acted
    /\ \A t \in 1 .. MaxDrifts : Commented(t) \in acted => t \in notes
    /\ \A t \in firm : Complete(t) \in acted
    /\ drift.at = "note" => drift.tip \in notes
    /\ drift.at = "label" => Commented(drift.tip) \in acted
    /\ drift.at = "record" => drift.tip \in landed
    /\ DriftRuledOnce

\* A verdict's comment is on the PR before anything else of it.
CommentsFirst ==
    \A r \in Reviewer :
        Published(r) /\ ~Pending(r, "comment") => round[r].verdict \in verdicts

\* A PR is blocked with a hold, and for a reason that is on it.
Explained ==
    /\ pr.blocked => pr.hold
    /\ pr.blocked => landed # {} \/ \E v \in verdicts : v.kind = "escalate"

\* A Run has the issue, or had it when it died; a claim that is off the issue
\* says nothing of who goes on.
AtWork == run \in {"working", "pushed", "dead"} /\ (issue.assigned \/ issue.progress)

\* Who has a PR that the Reviewer's pool has not.
HandedOn ==
    ~pr.ready =>
        \/ cut \/ pr.hold \/ issue.ready \/ issue.failed \/ AtWork
        \/ \E r \in Reviewer :
              Published(r) /\ round[r].verdict.kind # "approve" /\ ~Pending(r, "unready")

AnyInv == Types /\ LaneKnows /\ CommentsFirst /\ Explained /\ HandedOn

LEMMA SpendKeeps ==
  ASSUME left \in [Budget -> Nat], NEW b \in Budget, Spend(b)
  PROVE  /\ left' \in [Budget -> Nat]
         /\ b # "drifts" => left'["drifts"] = left["drifts"]
         /\ b = "drifts" => left'["drifts"] = left["drifts"] - 1 /\ left["drifts"] > 0
BY DEF Spend, Budget

\* The lane is where it was.
LEMMA LaneStays ==
  ASSUME AnyInv, UNCHANGED lane
  PROVE  LaneKnows' /\ (tip' = tip => LaneTypes')
<1>1. UNCHANGED <<drift, acted, notes, landed, firm>>
  BY DEF lane
<1> QED BY <1>1 DEF AnyInv, Types, LaneTypes, LaneKnows, DriftRuledOnce

\* A Reviewer's step that leaves GitHub alone, and a round that publishes
\* unless it is cut.
LEMMA RoundStepKeeps ==
  ASSUME AnyInv, NEW r \in Reviewer,
         UNCHANGED <<pr, issue, verdicts, latest, run, claim, reworks, tip, lane>>,
         DOMAIN round' = Reviewer, (\A q \in Reviewer : RoundForm(q))',
         \A q \in Reviewer \ {r} : round'[q] = round[q],
         Published(r)' => Pending(r, "comment")',
         cut' \in BOOLEAN, cut => cut',
         Published(r) => cut' \/ round[r].verdict.kind = "approve" \/ Pending(r, "unready"),
         left' \in [Budget -> Nat], left'["drifts"] = left["drifts"]
  PROVE  AnyInv'
<1>1. LaneKnows' /\ LaneTypes'
  BY LaneStays
<1>2. Types'
  BY <1>1 DEF AnyInv, Types, PullTypes
<1>3. CommentsFirst' /\ Explained'
  <2>1. UNCHANGED landed
    BY DEF lane
  <2> QED BY <2>1 DEF AnyInv, CommentsFirst, Explained, Published, Pending
<1>4. HandedOn'
  BY DEF AnyInv, HandedOn, AtWork, Published, Pending
<1> QED BY <1>1, <1>2, <1>3, <1>4 DEF AnyInv

LEMMA DiscoverKeeps ==
  ASSUME AnyInv, NEW r \in Reviewer, Discover(r)
  PROVE  AnyInv'
<1>1. round[r] = Idle /\ round' = [round EXCEPT ![r] = [at |-> "listed"]]
      /\ UNCHANGED <<pr, issue, verdicts, latest, run, claim, reworks, cut, left, tip, lane>>
  BY DEF Discover
<1>2. /\ DOMAIN round' = Reviewer /\ (\A q \in Reviewer : RoundForm(q))'
      /\ round'[r] = [at |-> "listed"] /\ \A q \in Reviewer \ {r} : round'[q] = round[q]
  BY <1>1, RoundMoves DEF AnyInv
<1>3. ~Published(r) /\ ~Published(r)'
  BY <1>1, <1>2 DEF Published, Idle
<1> QED BY <1>1, <1>2, <1>3, RoundStepKeeps DEF AnyInv, Types, PullTypes

LEMMA TakeKeeps ==
  ASSUME ReviewAssumption, AnyInv, NEW r \in Reviewer, Take(r)
  PROVE  AnyInv'
<1>1. round[r].at = "listed" /\ ~Published(r)
      /\ UNCHANGED <<pr, issue, verdicts, latest, run, claim, reworks, cut, left, tip, lane>>
  BY DEF Take, Published
<1>2. /\ pr.head \in Nat /\ pr.attempts \in 0 .. RoundBudget /\ RoundBudget \in Nat \ {0}
      /\ cut \in BOOLEAN /\ left \in [Budget -> Nat]
  BY DEF AnyInv, Types, PullTypes, ReviewAssumption
<1>3. /\ DOMAIN round' = Reviewer /\ (\A q \in Reviewer : RoundForm(q))'
      /\ \A q \in Reviewer \ {r} : round'[q] = round[q]
      /\ Published(r)' => Pending(r, "comment")'
  <2>1. CASE round' = [round EXCEPT ![r] = Idle]
    <3>1. /\ DOMAIN round' = Reviewer /\ (\A q \in Reviewer : RoundForm(q))'
          /\ round'[r] = Idle /\ \A q \in Reviewer \ {r} : round'[q] = round[q]
      BY <2>1, RoundMoves DEF AnyInv
    <3> QED BY <3>1 DEF Published, Idle
  <2>2. CASE Publish(r, "escalate", RoundBudget, pr.head)
    <3>1. "escalate" \in Kind /\ RoundBudget \in 1 .. RoundBudget /\ Types
      BY <1>2 DEF Kind, AnyInv
    <3>2. /\ DOMAIN round' = Reviewer /\ (\A q \in Reviewer : RoundForm(q))'
          /\ round'[r].todo = Writes("escalate") /\ \A q \in Reviewer \ {r} : round'[q] = round[q]
      BY <1>2, <2>2, <3>1, PublishMoves
    <3> QED BY <3>1, <3>2, WholeRest DEF Pending
  <2>3. CASE /\ pr.attempts < RoundBudget
             /\ round' = [round EXCEPT ![r] =
                  [at |-> "session", round |-> pr.attempts + 1, head |-> pr.head]]
    <3> DEFINE next == [at |-> "session", round |-> pr.attempts + 1, head |-> pr.head]
    <3>1. next \in [at : {"session"}, round : 1 .. RoundBudget, head : Nat] /\ next.at = "session"
      BY <1>2, <2>3
    <3>2. round' = [round EXCEPT ![r] = next]
      BY <2>3
    <3> HIDE DEF next
    <3>3. /\ DOMAIN round' = Reviewer /\ (\A q \in Reviewer : RoundForm(q))'
          /\ round'[r] = next /\ \A q \in Reviewer \ {r} : round'[q] = round[q]
      BY <3>1, <3>2, RoundMoves DEF AnyInv
    <3> QED BY <3>1, <3>3 DEF Published
  <2> QED BY <2>1, <2>2, <2>3 DEF Take
<1> QED BY <1>1, <1>2, <1>3, RoundStepKeeps

LEMMA JudgeKeeps ==
  ASSUME AnyInv, NEW r \in Reviewer, NEW kind \in Kind, Judge(r, kind)
  PROVE  AnyInv'
<1> DEFINE k == Validated(kind, round[r].round)
<1>1. round[r].at = "session" /\ ~Published(r)
      /\ UNCHANGED <<pr, issue, verdicts, latest, run, claim, reworks, cut, left, tip, lane>>
      /\ Publish(r, k, round[r].round, round[r].head)
  BY DEF Judge, Published
<1>2. k \in Kind /\ round[r].round \in 1 .. RoundBudget /\ round[r].head \in Nat
  BY <1>1 DEF AnyInv, Types, RoundForm, Idle, Published, Validated, Kind
<1> HIDE DEF k
<1>3. /\ DOMAIN round' = Reviewer /\ (\A q \in Reviewer : RoundForm(q))'
      /\ round'[r].todo = Writes(k) /\ \A q \in Reviewer \ {r} : round'[q] = round[q]
  BY <1>1, <1>2, PublishMoves DEF AnyInv
<1>4. Pending(r, "comment")'
  BY <1>2, <1>3, WholeRest DEF Pending
<1> QED BY <1>1, <1>3, <1>4, RoundStepKeeps DEF AnyInv, Types, PullTypes

LEMMA NoVerdictKeeps ==
  ASSUME AnyInv, NEW r \in Reviewer, NoVerdict(r)
  PROVE  AnyInv'
<1>1. round[r].at = "session" /\ ~Published(r) /\ round' = [round EXCEPT ![r] = Idle]
      /\ UNCHANGED <<pr, issue, verdicts, latest, run, claim, reworks, cut, tip, lane>>
      /\ left' \in [Budget -> Nat] /\ left'["drifts"] = left["drifts"]
  BY SpendKeeps DEF NoVerdict, Published, AnyInv, Types, Budget
<1>2. /\ DOMAIN round' = Reviewer /\ (\A q \in Reviewer : RoundForm(q))'
      /\ round'[r] = Idle /\ \A q \in Reviewer \ {r} : round'[q] = round[q]
  BY <1>1, RoundMoves DEF AnyInv
<1>3. ~Published(r)'
  BY <1>2 DEF Published, Idle
<1> QED BY <1>1, <1>2, <1>3, RoundStepKeeps DEF AnyInv, Types, PullTypes

LEMMA CutShortKeeps ==
  ASSUME AnyInv, NEW r \in Reviewer, CutShort(r)
  PROVE  AnyInv'
<1>1. Published(r) /\ round' = [round EXCEPT ![r] = Idle]
      /\ UNCHANGED <<pr, issue, verdicts, latest, run, claim, reworks, tip, lane>>
      /\ left' \in [Budget -> Nat] /\ left'["drifts"] = left["drifts"]
      /\ cut' = (cut \/ (round[r].verdict.kind # "approve" /\ ~Pending(r, "unready")))
  BY SpendKeeps DEF CutShort, Published, Pending, AnyInv, Types, Budget
<1>2. /\ DOMAIN round' = Reviewer /\ (\A q \in Reviewer : RoundForm(q))'
      /\ round'[r] = Idle /\ \A q \in Reviewer \ {r} : round'[q] = round[q]
  BY <1>1, RoundMoves DEF AnyInv
<1>3. ~Published(r)'
  BY <1>2 DEF Published, Idle
<1>4. cut' \in BOOLEAN
  BY <1>1
<1> QED BY <1>1, <1>2, <1>3, <1>4, RoundStepKeeps

\* The write that is next says what the verdict is and what is done of it.
LEMMA NextWrite ==
  ASSUME Types, NEW r \in Reviewer, Published(r), NEW w, w = Head(round[r].todo),
         NEW kind, kind = round[r].verdict.kind
  PROVE  /\ w \in {"comment", "stamp", "attempt", "unready", "unassign", "unprogress",
                   "requeue", "hold"}
         /\ w \in {"attempt", "unassign", "unprogress", "requeue"} => kind = "revise"
         /\ w = "stamp" => kind = "approve"
         /\ w = "hold" => kind = "escalate"
         /\ w = "unready" => kind # "approve"
         /\ Tail(round[r].todo) = <<>> <=> w \in {"stamp", "requeue", "hold"}
         /\ w # "comment" => ~Pending(r, "comment")
         /\ w = "comment" /\ kind = "revise" => Pending(r, "attempt") /\ Pending(r, "unready")
         /\ w = "comment" /\ kind = "escalate" => Pending(r, "unready")
         /\ w = "attempt" => Pending(r, "unready")
         /\ w \in {"unready", "unassign", "unprogress", "requeue"} => ~Pending(r, "attempt")
         /\ w \in {"unassign", "unprogress", "requeue", "hold"} => ~Pending(r, "unready")
<1> DEFINE s == round[r].todo
<1>1. s \in Rest(kind) /\ kind \in Kind
  BY PublishedForm
<1>2. CASE kind = "approve"
  BY <1>1, <1>2, ApproveRest DEF Pending
<1>3. CASE kind = "revise"
  BY <1>1, <1>3, ReviseRest DEF Pending
<1>4. CASE kind = "escalate"
  BY <1>1, <1>4, EscalateRest DEF Pending
<1> QED BY <1>1, <1>2, <1>3, <1>4 DEF Kind

\* A write keeps the types of what it writes to.
LEMMA WriteTypes ==
  ASSUME AnyInv, NEW r \in Reviewer, Write(r)
  PROVE  Types'
<1> DEFINE v == round[r].verdict
<1> DEFINE w == Head(round[r].todo)
<1>1. /\ Published(r) /\ DOMAIN round' = Reviewer /\ (\A q \in Reviewer : RoundForm(q))'
  BY WriteMoves DEF AnyInv
<1>2. v \in Verdict /\ v.round \in 1 .. RoundBudget
  BY <1>1, PublishedForm DEF AnyInv, Verdict
<1>3. /\ pr' = PrAfter(w, v.round) /\ issue' = IssueAfter(w)
      /\ IF w = "comment" THEN verdicts' = verdicts \cup {v} /\ latest' = v
                          ELSE UNCHANGED <<verdicts, latest>>
      /\ reworks' = IF w = "requeue" THEN reworks + 1 ELSE reworks
      /\ UNCHANGED <<run, claim, cut, left, tip, lane>>
  BY DEF Write
<1> HIDE DEF v, w
<1>4. PullTypes
  BY DEF AnyInv, Types
<1>5. /\ pr' \in [open : BOOLEAN, ready : BOOLEAN, hold : BOOLEAN, blocked : BOOLEAN,
                  attempts : 0 .. RoundBudget, head : Nat]
  <2>1. pr \in [open : BOOLEAN, ready : BOOLEAN, hold : BOOLEAN, blocked : BOOLEAN,
                attempts : 0 .. RoundBudget, head : Nat]
    BY <1>4 DEF PullTypes
  <2>2. (IF v.round > pr.attempts THEN v.round ELSE pr.attempts) \in 0 .. RoundBudget
    BY <1>2, <2>1
  <2>3. CASE w = "attempt"
    BY <1>3, <2>1, <2>2, <2>3 DEF PrAfter
  <2>4. CASE w \in {"stamp", "unready", "hold"}
    BY <1>3, <2>1, <2>4 DEF PrAfter
  <2>5. CASE w \notin {"attempt", "stamp", "unready", "hold"}
    BY <1>3, <2>1, <2>5 DEF PrAfter
  <2> QED BY <2>3, <2>4, <2>5
<1>6. issue' \in [ready : BOOLEAN, assigned : BOOLEAN, progress : BOOLEAN, failed : BOOLEAN]
  BY <1>3, <1>4 DEF PullTypes, IssueAfter
<1>7. verdicts' \subseteq Verdict /\ latest' \in Verdict \cup {[kind |-> "none"], [kind |-> "human"]}
  BY <1>2, <1>3, <1>4 DEF PullTypes
<1>8. reworks' \in Nat
  BY <1>3, <1>4 DEF PullTypes
<1>9. PullTypes'
  BY <1>3, <1>4, <1>5, <1>6, <1>7, <1>8 DEF PullTypes
<1>10. LaneTypes'
  BY <1>3, LaneStays
<1> QED BY <1>1, <1>3, <1>9, <1>10 DEF AnyInv, Types

LEMMA WriteKeeps ==
  ASSUME AnyInv, NEW r \in Reviewer, Write(r)
  PROVE  AnyInv'
<1> DEFINE v == round[r].verdict
<1> DEFINE w == Head(round[r].todo)
<1>1. /\ Published(r)
      /\ \A q \in Reviewer \ {r} : round'[q] = round[q]
      /\ \/ Tail(round[r].todo) = <<>> /\ round'[r] = Idle
         \/ /\ Tail(round[r].todo) # <<>> /\ Published(r)'
            /\ round'[r].verdict = v
            /\ \A x : Pending(r, x)' <=> Pending(r, x) /\ x # w
  BY WriteMoves DEF AnyInv
<1>2. /\ pr' = PrAfter(w, v.round) /\ issue' = IssueAfter(w)
      /\ IF w = "comment" THEN verdicts' = verdicts \cup {v} /\ latest' = v
                          ELSE UNCHANGED <<verdicts, latest>>
      /\ UNCHANGED <<run, claim, cut, left, tip, lane>>
  BY DEF Write
<1>3. /\ w \in {"comment", "stamp", "attempt", "unready", "unassign", "unprogress",
                "requeue", "hold"}
      /\ w = "hold" => v.kind = "escalate"
      /\ w = "unready" => v.kind # "approve"
      /\ w \in {"attempt", "unassign", "unprogress", "requeue"} => v.kind = "revise"
      /\ w = "stamp" => v.kind = "approve"
      /\ Tail(round[r].todo) = <<>> <=> w \in {"stamp", "requeue", "hold"}
      /\ w # "comment" => ~Pending(r, "comment")
      /\ w \in {"unassign", "unprogress"} => ~Pending(r, "unready")
  BY <1>1, NextWrite DEF AnyInv
<1>4. Types' /\ LaneKnows' /\ UNCHANGED landed
  BY <1>2, WriteTypes, LaneStays DEF lane
<1> HIDE DEF v, w
<1>5. pr \in [open : BOOLEAN, ready : BOOLEAN, hold : BOOLEAN, blocked : BOOLEAN,
              attempts : 0 .. RoundBudget, head : Nat]
      /\ issue \in [ready : BOOLEAN, assigned : BOOLEAN, progress : BOOLEAN, failed : BOOLEAN]
  BY DEF AnyInv, Types, PullTypes
<1>6. /\ pr'.ready = IF w = "unready" THEN FALSE ELSE pr.ready
      /\ pr'.hold = IF w \in {"stamp", "hold"} THEN TRUE ELSE pr.hold
      /\ pr'.blocked = IF w = "hold" THEN TRUE ELSE pr.blocked
      /\ issue'.ready = IF w = "requeue" THEN TRUE ELSE issue.ready
      /\ issue'.failed = issue.failed
  BY <1>2, <1>5 DEF PrAfter, IssueAfter
<1>7. CommentsFirst'
  <2>1. ASSUME NEW q \in Reviewer, Published(q)', ~Pending(q, "comment")'
        PROVE  round'[q].verdict \in verdicts'
    <3>1. CASE q = r
      <4>1. round'[q] # Idle
        BY <2>1 DEF Published, Idle
      <4>2. round'[r].verdict = v /\ (~Pending(r, "comment") \/ w = "comment")
        BY <1>1, <2>1, <3>1, <4>1
      <4> QED BY <1>1, <1>2, <3>1, <4>2 DEF AnyInv, CommentsFirst, v
    <3>2. CASE q # r
      BY <1>1, <1>2, <2>1, <3>2 DEF AnyInv, CommentsFirst, Published, Pending
    <3> QED BY <3>1, <3>2
  <2> QED BY <2>1 DEF CommentsFirst
<1>8. Explained'
  <2>1. CASE w = "hold"
    <3>1. v \in verdicts' /\ v.kind = "escalate"
      BY <1>1, <1>2, <1>3, <2>1 DEF AnyInv, CommentsFirst, v
    <3> QED BY <1>6, <2>1, <3>1 DEF Explained
  <2>2. CASE w # "hold"
    BY <1>2, <1>4, <1>6, <2>2 DEF AnyInv, Explained
  <2> QED BY <2>1, <2>2
<1>9. HandedOn'
  <2>1. CASE w = "unready"
    <3>1. Published(r)' /\ round'[r].verdict = v /\ ~Pending(r, "unready")' /\ v.kind # "approve"
      BY <1>1, <1>3, <2>1
    <3> QED BY <3>1 DEF HandedOn
  <2>2. CASE w = "requeue"
    BY <1>6, <2>2 DEF HandedOn
  <2>3. CASE w \in {"stamp", "hold"}
    BY <1>6, <2>3 DEF HandedOn
  <2>4. CASE w \in {"unassign", "unprogress"}
    <3>1. Published(r)' /\ round'[r].verdict = v /\ ~Pending(r, "unready")' /\ v.kind # "approve"
      BY <1>1, <1>3, <2>4
    <3> QED BY <3>1 DEF HandedOn
  <2>5. CASE w \in {"comment", "attempt"}
    <3>1. issue' = issue /\ pr'.ready = pr.ready /\ pr'.hold = pr.hold /\ issue'.ready = issue.ready
      BY <1>2, <1>6, <2>5 DEF IssueAfter
    <3>2. ASSUME NEW q \in Reviewer, Published(q), round[q].verdict.kind # "approve",
                 ~Pending(q, "unready")
          PROVE  Published(q)' /\ (round[q].verdict.kind # "approve")' /\ ~Pending(q, "unready")'
      <4>1. CASE q = r
        BY <1>1, <1>3, <2>5, <3>2, <4>1 DEF v
      <4>2. CASE q # r
        BY <1>1, <3>2, <4>2 DEF Published, Pending
      <4> QED BY <4>1, <4>2
    <3> QED BY <1>2, <1>6, <3>1, <3>2 DEF AnyInv, HandedOn, AtWork
  <2> QED BY <1>3, <2>1, <2>2, <2>3, <2>4, <2>5
<1> QED BY <1>4, <1>7, <1>8, <1>9 DEF AnyInv

-----------------------------------------------------------------------------
\* The Runs and the human: they leave the rounds and the lane alone.

LEMMA OutsideStepKeeps ==
  ASSUME AnyInv, UNCHANGED <<verdicts, round, cut, lane>>, PullTypes',
         left' \in [Budget -> Nat], tip' + left'["drifts"] = MaxDrifts, tip' \in 0 .. MaxDrifts,
         pr'.blocked => pr.blocked /\ pr'.hold,
         ~pr'.ready =>
            \/ pr'.hold \/ issue'.ready \/ issue'.failed \/ AtWork'
            \/ /\ ~pr.ready /\ ~pr.hold /\ (issue.ready => issue'.ready)
               /\ (issue.failed => issue'.failed) /\ (AtWork => AtWork')
  PROVE  AnyInv'
<1>1. UNCHANGED <<drift, acted, notes, landed, firm>>
  BY DEF lane
<1>2. LaneKnows' /\ LaneTypes'
  BY <1>1, LaneStays DEF AnyInv, Types, LaneTypes
<1>3. Types'
  BY <1>2 DEF AnyInv, Types, RoundForm, Published
<1>4. CommentsFirst'
  BY DEF AnyInv, CommentsFirst, Published, Pending
<1>5. Explained'
  BY <1>1 DEF AnyInv, Explained
<1>6. HandedOn'
  BY DEF AnyInv, HandedOn, AtWork, Published, Pending
<1> QED BY <1>2, <1>3, <1>4, <1>5, <1>6 DEF AnyInv

\* The types that a step outside starts from.
LEMMA Outside ==
  ASSUME AnyInv
  PROVE  /\ PullTypes /\ left \in [Budget -> Nat] /\ tip \in 0 .. MaxDrifts
         /\ tip + left["drifts"] = MaxDrifts /\ Explained
BY DEF AnyInv, Types, LaneTypes

LEMMA ResumeKeeps ==
  ASSUME AnyInv, Resume
  PROVE  AnyInv'
<1>1. PullTypes'
  BY Outside DEF Resume, PullTypes, Claim, Ended
<1> QED BY <1>1, Outside, OutsideStepKeeps DEF Resume, AtWork, Explained

LEMMA PushKeeps ==
  ASSUME AnyInv, Push
  PROVE  AnyInv'
<1>1. /\ PullTypes' /\ pr'.blocked = pr.blocked /\ pr'.hold = pr.hold /\ pr'.ready = pr.ready
  <2>1. pr' \in [open : BOOLEAN, ready : BOOLEAN, hold : BOOLEAN, blocked : BOOLEAN,
                  attempts : 0 .. RoundBudget, head : Nat]
        /\ pr'.blocked = pr.blocked /\ pr'.hold = pr.hold /\ pr'.ready = pr.ready
    BY Outside DEF Push, PullTypes
  <2> QED BY <2>1, Outside DEF Push, PullTypes
<1> QED BY <1>1, Outside, OutsideStepKeeps DEF Push, AtWork, Explained

LEMMA MarkReadyKeeps ==
  ASSUME AnyInv, MarkReady
  PROVE  AnyInv'
<1>1. /\ PullTypes' /\ pr'.blocked = pr.blocked /\ pr'.hold = pr.hold /\ pr'.ready
  <2>1. pr' \in [open : BOOLEAN, ready : BOOLEAN, hold : BOOLEAN, blocked : BOOLEAN,
                  attempts : 0 .. RoundBudget, head : Nat]
        /\ pr'.blocked = pr.blocked /\ pr'.hold = pr.hold /\ pr'.ready
    BY Outside DEF MarkReady, PullTypes
  <2> QED BY <2>1, Outside DEF MarkReady, PullTypes
<1> QED BY <1>1, Outside, OutsideStepKeeps DEF MarkReady, AtWork, Explained

LEMMA ConcludeKeeps ==
  ASSUME AnyInv, Conclude
  PROVE  AnyInv'
<1>1. PullTypes'
  BY Outside DEF Conclude, PullTypes, Claim, Ended
<1> QED BY <1>1, Outside, OutsideStepKeeps DEF Conclude, AtWork, Explained

LEMMA ReleasedType ==
  ASSUME PullTypes
  PROVE  /\ Released \in [ready : BOOLEAN, assigned : BOOLEAN, progress : BOOLEAN, failed : BOOLEAN]
         /\ Released.failed /\ Released.ready = issue.ready
BY DEF PullTypes, Released

LEMMA RunFailsKeeps ==
  ASSUME AnyInv, RunFails
  PROVE  AnyInv'
<1>1. PullTypes' /\ issue'.failed
  <2>1. claim' \in [known : {"live", "handled", "ended"}, silent : BOOLEAN, bundle : BOOLEAN]
    <3>1. Ended \in [known : {"live", "handled", "ended"}, silent : BOOLEAN, bundle : BOOLEAN]
      BY DEF Ended, Claim
    <3> QED BY <3>1, Outside DEF RunFails, PullTypes
  <2> QED BY <2>1, Outside, ReleasedType DEF RunFails, PullTypes
<1>2. left' \in [Budget -> Nat] /\ left'["drifts"] = left["drifts"]
  BY Outside, SpendKeeps DEF RunFails, Budget
<1> QED BY <1>1, <1>2, Outside, OutsideStepKeeps DEF RunFails, AtWork, Explained

LEMMA RunDiesKeeps ==
  ASSUME AnyInv, RunDies
  PROVE  AnyInv'
<1>1. PullTypes'
  BY Outside DEF RunDies, PullTypes
<1>2. left' \in [Budget -> Nat] /\ left'["drifts"] = left["drifts"]
  BY Outside, SpendKeeps DEF RunDies, Budget
<1> QED BY <1>1, <1>2, Outside, OutsideStepKeeps DEF RunDies, AtWork, Explained

LEMMA EventLostKeeps ==
  ASSUME AnyInv, EventLost
  PROVE  AnyInv'
<1>1. PullTypes'
  BY Outside DEF EventLost, PullTypes
<1>2. left' \in [Budget -> Nat] /\ left'["drifts"] = left["drifts"]
  BY Outside, SpendKeeps DEF EventLost, Budget
<1> QED BY <1>1, <1>2, Outside, OutsideStepKeeps DEF EventLost, AtWork, Explained

LEMMA WatchKeeps ==
  ASSUME AnyInv, Silence \/ BundleLands
  PROVE  AnyInv'
<1>1. PullTypes' /\ UNCHANGED <<pr, issue, run>>
  BY Outside DEF Silence, BundleLands, PullTypes
<1> QED BY <1>1, Outside, OutsideStepKeeps DEF Silence, BundleLands, AtWork, Explained

\* What is off the issue is somebody's already; what is not becomes the human's.
LEMMA JanitorKeeps ==
  ASSUME AnyInv, Janitor
  PROVE  AnyInv'
<1>1. PullTypes' /\ UNCHANGED <<pr, verdicts, round, cut, left, tip, lane>>
  <2>1. UNCHANGED <<pr, verdicts, latest, round, reworks, cut, left, tip, lane>>
        /\ run' = "none" /\ (issue' = issue \/ issue' = Released)
        /\ claim' = [known |-> "handled", silent |-> FALSE, bundle |-> FALSE]
    BY DEF Janitor, Claim
  <2>2. issue' \in [ready : BOOLEAN, assigned : BOOLEAN, progress : BOOLEAN, failed : BOOLEAN]
    BY <2>1, Outside, ReleasedType DEF PullTypes
  <2> QED BY <2>1, <2>2, Outside DEF PullTypes
<1>2. \/ ~issue.progress /\ ~issue.assigned /\ issue' = issue
      \/ pr.ready
      \/ issue'.failed
  BY Outside, ReleasedType DEF Janitor, Settled
<1>3. ~AtWork \/ pr.ready \/ issue'.failed
  BY <1>2 DEF AtWork
<1> QED BY <1>1, <1>2, <1>3, Outside, OutsideStepKeeps DEF Explained

LEMMA BlockerMovesKeeps ==
  ASSUME AnyInv, BlockerMoves
  PROVE  AnyInv'
<1>1. PullTypes'
  BY Outside DEF BlockerMoves, PullTypes
<1>2. /\ left' \in [Budget -> Nat] /\ left'["drifts"] = left["drifts"] - 1
      /\ left["drifts"] > 0 /\ left["drifts"] \in Nat
  BY Outside, SpendKeeps DEF BlockerMoves, Budget
<1>3. tip' + left'["drifts"] = MaxDrifts /\ tip' \in 0 .. MaxDrifts
  BY <1>2, Outside DEF BlockerMoves
<1> QED BY <1>1, <1>2, <1>3, Outside, OutsideStepKeeps DEF BlockerMoves, AtWork, Explained

LEMMA MergeKeeps ==
  ASSUME AnyInv, Merge
  PROVE  AnyInv'
<1>1. /\ PullTypes' /\ pr'.blocked = pr.blocked /\ pr'.hold = pr.hold /\ pr'.ready = pr.ready
  <2>1. pr \in [open : BOOLEAN, ready : BOOLEAN, hold : BOOLEAN, blocked : BOOLEAN,
                 attempts : 0 .. RoundBudget, head : Nat]
    BY Outside DEF PullTypes
  <2>2. pr' = [pr EXCEPT !.open = FALSE]
        /\ UNCHANGED <<issue, verdicts, latest, run, claim, reworks, cut>>
    BY DEF Merge
  <2>3. pr' \in [open : BOOLEAN, ready : BOOLEAN, hold : BOOLEAN, blocked : BOOLEAN,
                  attempts : 0 .. RoundBudget, head : Nat]
        /\ pr'.blocked = pr.blocked /\ pr'.hold = pr.hold /\ pr'.ready = pr.ready
    BY <2>1, <2>2
  <2> QED BY <2>2, <2>3, Outside DEF PullTypes
<1> QED BY <1>1, Outside, OutsideStepKeeps DEF Merge, AtWork, Explained

LEMMA HandBackKeeps ==
  ASSUME AnyInv, HandBack
  PROVE  AnyInv'
<1>1. PullTypes' /\ ~pr'.blocked /\ pr'.ready
  BY Outside DEF HandBack, PullTypes
<1>2. left' \in [Budget -> Nat] /\ left'["drifts"] = left["drifts"]
  BY Outside, SpendKeeps DEF HandBack, Budget
<1> QED BY <1>1, <1>2, Outside, OutsideStepKeeps DEF HandBack, AtWork, Explained

LEMMA DecideKeeps ==
  ASSUME AnyInv, Decide
  PROVE  AnyInv'
<1>1. PullTypes' /\ ~pr'.blocked /\ issue'.ready
  BY Outside DEF Decide, PullTypes
<1>2. left' \in [Budget -> Nat] /\ left'["drifts"] = left["drifts"]
  BY Outside, SpendKeeps DEF Decide, Budget
<1> QED BY <1>1, <1>2, Outside, OutsideStepKeeps DEF Decide, AtWork, Explained

-----------------------------------------------------------------------------
\* The lane: it writes a hold and nothing else.

LEMMA LaneStepKeeps ==
  ASSUME AnyInv, UNCHANGED <<issue, verdicts, latest, run, claim, round, reworks, cut, tip>>,
         pr' = pr \/ (pr' = [pr EXCEPT !.blocked = TRUE, !.hold = TRUE] /\ landed' # {}),
         LaneTypes', LaneKnows', landed \subseteq landed',
         left' \in [Budget -> Nat], left'["drifts"] = left["drifts"]
  PROVE  AnyInv'
<1>1. /\ PullTypes' /\ pr'.ready = pr.ready /\ (pr.hold => pr'.hold)
      /\ (pr'.blocked => pr'.hold)
      /\ (pr'.blocked => pr.blocked \/ landed' # {})
  <2>1. CASE pr' = pr
    BY <2>1, Outside DEF PullTypes, Explained
  <2>2. CASE pr' = [pr EXCEPT !.blocked = TRUE, !.hold = TRUE] /\ landed' # {}
    <3>1. /\ pr' \in [open : BOOLEAN, ready : BOOLEAN, hold : BOOLEAN, blocked : BOOLEAN,
                     attempts : 0 .. RoundBudget, head : Nat]
          /\ pr'.ready = pr.ready /\ pr'.hold /\ pr'.blocked
      BY <2>2, Outside DEF PullTypes
    <3> QED BY <2>2, <3>1, Outside DEF PullTypes
  <2> QED BY <2>1, <2>2
<1>2. Types'
  BY <1>1 DEF AnyInv, Types, RoundForm, Published
<1>3. CommentsFirst'
  BY DEF AnyInv, CommentsFirst, Published, Pending
<1>4. Explained'
  BY <1>1 DEF AnyInv, Explained
<1>5. HandedOn'
  BY <1>1 DEF AnyInv, HandedOn, AtWork, Published, Pending
<1> QED BY <1>1, <1>2, <1>3, <1>4, <1>5 DEF AnyInv

\* A lane that is about to write has a drift with it; a free or listed one none.
LEMMA LaneForm ==
  ASSUME AnyInv
  PROVE  /\ drift.at \in {"comment", "note", "label", "record"} =>
              drift.tip \in 1 .. MaxDrifts
              /\ drift \in [at : {"comment", "note", "label", "record"}, tip : 1 .. MaxDrifts]
         /\ LaneTypes /\ LaneKnows /\ left \in [Budget -> Nat]
BY DEF AnyInv, Types, LaneTypes, Free

LEMMA DriftListKeeps ==
  ASSUME AnyInv, DriftList
  PROVE  AnyInv'
<1>1. LaneTypes' /\ drift'.at = "listed"
  BY Outside, LaneForm DEF DriftList, LaneTypes, PullTypes
<1>2. LaneKnows'
  BY <1>1, LaneForm DEF DriftList, LaneKnows, DriftRuledOnce
<1> QED BY <1>1, <1>2, LaneForm, LaneStepKeeps DEF DriftList

LEMMA DriftReadKeeps ==
  ASSUME AnyInv, DriftRead
  PROVE  AnyInv'
<1>1. UNCHANGED <<pr, issue, verdicts, latest, run, claim, round, reworks, cut, left, tip, notes, landed>>
  BY DEF DriftRead
<1>2. LaneTypes /\ LaneKnows /\ left \in [Budget -> Nat]
  BY LaneForm
<1>3. LaneTypes' /\ LaneKnows'
  <2>1. CASE drift' = Free /\ UNCHANGED <<acted, firm>>
    <3>1. drift'.at = "idle"
      BY <2>1 DEF Free
    <3> QED BY <1>1, <1>2, <2>1, <3>1 DEF LaneTypes, LaneKnows, DriftRuledOnce
  <2>2. CASE /\ tip # 0 /\ drift' = Free /\ acted' = Healed(tip)
             /\ firm' = firm \cup ({tip} \cap landed)
    <3>1. drift'.at = "idle" /\ tip \in 1 .. MaxDrifts
      BY <1>2, <2>2 DEF Free, LaneTypes
    <3>2. /\ acted \subseteq acted'
          /\ acted' \subseteq [tip : 1 .. MaxDrifts, part : {"comment", "act"}]
          /\ \A t \in 1 .. MaxDrifts : Commented(t) \in acted' => Commented(t) \in acted
      BY <1>2, <2>2, <3>1 DEF Healed, Commented, Complete, LaneTypes
    <3>3. tip \in landed => Complete(tip) \in acted'
      BY <1>2, <2>2 DEF Healed, LaneKnows
    <3>4. LaneTypes'
      BY <1>1, <1>2, <2>2, <3>2 DEF LaneTypes
    <3>5. LaneKnows'
      BY <1>1, <1>2, <2>2, <3>1, <3>2, <3>3 DEF LaneKnows, LaneTypes, DriftRuledOnce, Commented, Complete
    <3> QED BY <3>4, <3>5
  <2>3. CASE /\ tip # 0 /\ Complete(tip) \notin acted
             /\ drift' = [at |-> DriftStep(tip), tip |-> tip] /\ UNCHANGED <<acted, firm>>
    <3>1. /\ drift'.tip = tip /\ tip \in 1 .. MaxDrifts
          /\ drift'.at \in {"comment", "label"}
          /\ drift'.at = "label" => Commented(tip) \in acted
          /\ drift' \in [at : {"comment", "note", "label", "record"}, tip : 1 .. MaxDrifts]
      BY <1>2, <2>3 DEF DriftStep, LaneTypes
    <3>2. tip \notin firm
      BY <1>2, <2>3 DEF LaneKnows
    <3> QED BY <1>1, <1>2, <2>3, <3>1, <3>2 DEF LaneTypes, LaneKnows, DriftRuledOnce
  <2> QED BY <2>1, <2>2, <2>3 DEF DriftRead
<1> QED BY <1>1, <1>2, <1>3, LaneStepKeeps

LEMMA DriftCommentKeeps ==
  ASSUME AnyInv, DriftComment
  PROVE  AnyInv'
<1>1. /\ drift.at = "comment" /\ notes' = notes \cup {drift.tip} /\ drift.tip \in 1 .. MaxDrifts
      /\ drift'.at = "note" /\ drift'.tip = drift.tip
      /\ drift' \in [at : {"comment", "note", "label", "record"}, tip : 1 .. MaxDrifts]
  BY LaneForm DEF DriftComment
<1>2. LaneTypes' /\ LaneKnows'
  BY <1>1, LaneForm DEF DriftComment, LaneTypes, LaneKnows, DriftRuledOnce
<1> QED BY <1>2, LaneForm, LaneStepKeeps DEF DriftComment

LEMMA DriftNoteKeeps ==
  ASSUME AnyInv, DriftNote
  PROVE  AnyInv'
<1>1. /\ drift.at = "note" /\ drift.tip \in 1 .. MaxDrifts
      /\ acted' = acted \cup {Commented(drift.tip)}
      /\ drift'.at = "label" /\ drift'.tip = drift.tip
      /\ drift' \in [at : {"comment", "note", "label", "record"}, tip : 1 .. MaxDrifts]
  BY LaneForm DEF DriftNote, Recorded, Commented
<1>2. LaneTypes'
  BY <1>1, LaneForm DEF DriftNote, LaneTypes, Commented
<1>3. LaneKnows'
  BY <1>1, LaneForm DEF DriftNote, LaneTypes, LaneKnows, DriftRuledOnce, Commented
<1> QED BY <1>2, <1>3, LaneForm, LaneStepKeeps DEF DriftNote

LEMMA DriftLabelKeeps ==
  ASSUME AnyInv, DriftLabel
  PROVE  AnyInv'
<1>1. /\ drift.at = "label" /\ drift.tip \in 1 .. MaxDrifts
      /\ landed' = landed \cup {drift.tip}
      /\ drift'.at = "record" /\ drift'.tip = drift.tip
      /\ drift' \in [at : {"comment", "note", "label", "record"}, tip : 1 .. MaxDrifts]
  BY LaneForm DEF DriftLabel
<1>2. LaneTypes' /\ LaneKnows'
  BY <1>1, LaneForm DEF DriftLabel, LaneTypes, LaneKnows, DriftRuledOnce
<1> QED BY <1>1, <1>2, LaneForm, LaneStepKeeps DEF DriftLabel

LEMMA DriftRecordKeeps ==
  ASSUME AnyInv, DriftRecord
  PROVE  AnyInv'
<1>1. /\ drift.at = "record" /\ drift.tip \in 1 .. MaxDrifts
      /\ acted' = acted \cup {Complete(drift.tip)}
      /\ drift' = Free /\ drift'.at = "idle"
  BY LaneForm DEF DriftRecord, Recorded, Complete, Free
<1>2. LaneTypes'
  BY <1>1, LaneForm DEF DriftRecord, LaneTypes, LaneKnows, Complete
<1>3. LaneKnows'
  BY <1>1, LaneForm DEF DriftRecord, LaneTypes, LaneKnows, DriftRuledOnce, Commented, Complete
<1> QED BY <1>2, <1>3, LaneForm, LaneStepKeeps DEF DriftRecord

LEMMA DriftCutKeeps ==
  ASSUME AnyInv, DriftCut
  PROVE  AnyInv'
<1>1. drift' = Free /\ drift'.at = "idle"
  BY DEF DriftCut, Free
<1>2. LaneTypes' /\ LaneKnows'
  BY <1>1, LaneForm DEF DriftCut, LaneTypes, LaneKnows, DriftRuledOnce
<1>3. left' \in [Budget -> Nat] /\ left'["drifts"] = left["drifts"]
  BY LaneForm, SpendKeeps DEF DriftCut, Budget
<1> QED BY <1>2, <1>3, LaneStepKeeps DEF DriftCut

-----------------------------------------------------------------------------
\* The invariant.

LEMMA AnyInit ==
  ASSUME ReviewAssumption, Init
  PROVE  AnyInv
<1>1. PullTypes
  <2>1. /\ pr = [open |-> TRUE, ready |-> TRUE, hold |-> FALSE, blocked |-> FALSE,
                 attempts |-> 0, head |-> 1]
        /\ issue = [ready |-> FALSE, assigned |-> TRUE, progress |-> TRUE, failed |-> FALSE]
        /\ 0 \in 0 .. RoundBudget
    BY DEF ReviewAssumption, Init
  <2>2. verdicts = {} /\ latest = [kind |-> "none"] /\ run = "shipped" /\ reworks = 0 /\ cut = FALSE
        /\ claim = [known |-> "live", silent |-> FALSE, bundle |-> FALSE]
    BY DEF Init, Claim
  <2> QED BY <2>1, <2>2 DEF PullTypes
<1>5. left \in [Budget -> Nat] /\ left["drifts"] = MaxDrifts
  BY DEF ReviewAssumption, Init, Budget
<1>6. tip = 0 /\ MaxDrifts \in Nat
  BY DEF ReviewAssumption, Init
<1>2. LaneTypes /\ LaneKnows
  BY DEF ReviewAssumption, Init, LaneTypes, LaneKnows, DriftRuledOnce, Free
<1>3. DOMAIN round = Reviewer /\ \A r \in Reviewer : RoundForm(r) /\ ~Published(r)
  BY DEF Init, RoundForm, Published, Idle
<1>4. CommentsFirst /\ Explained /\ HandedOn
  BY <1>3 DEF Init, CommentsFirst, Explained, HandedOn
<1> QED BY <1>1, <1>2, <1>3, <1>4, <1>5, <1>6 DEF AnyInv, Types

LEMMA AnyStep ==
  ASSUME ReviewAssumption, AnyInv, [Next]_vars
  PROVE  AnyInv'
<1>1. CASE \E r \in Reviewer : Review(r) \/ NoVerdict(r) \/ CutShort(r)
  BY <1>1, DiscoverKeeps, TakeKeeps, JudgeKeeps, WriteKeeps, NoVerdictKeeps, CutShortKeeps DEF Review
<1>2. CASE Implement \/ EventLost \/ RunFails \/ RunDies \/ Silence \/ BundleLands \/ Janitor
           \/ BlockerMoves
  BY <1>2, ResumeKeeps, PushKeeps, MarkReadyKeeps, ConcludeKeeps, EventLostKeeps, RunFailsKeeps,
     RunDiesKeeps, WatchKeeps, JanitorKeeps, BlockerMovesKeeps DEF Implement
<1>3. CASE Drift
  BY <1>3, DriftListKeeps, DriftReadKeeps, DriftCommentKeeps, DriftNoteKeeps, DriftLabelKeeps,
     DriftRecordKeeps, DriftCutKeeps DEF Drift
<1>4. CASE Merge \/ HandBack \/ Decide
  BY <1>4, MergeKeeps, HandBackKeeps, DecideKeeps
<1>5. CASE UNCHANGED vars
  BY <1>5, Outside, OutsideStepKeeps DEF vars, PullTypes, AtWork, Explained
<1> QED BY <1>1, <1>2, <1>3, <1>4, <1>5 DEF Next

\* What the lane, the labels and the verdicts owe each other holds of every
\* reachable state, whoever reviews.
THEOREM AnyInvariance == Spec => []AnyInv
<1>1. Init => AnyInv
  BY AnyInit, ReviewAssumption
<1>2. AnyInv /\ [Next]_vars => AnyInv'
  BY AnyStep, ReviewAssumption
<1> QED BY <1>1, <1>2, PTL DEF Spec

\* Every variable keeps its type, whoever acts on the PR.
THEOREM TypeCorrect == Spec => []TypeOK
<1>1. AnyInv => TypeOK
  BY FormIsType DEF AnyInv, Types, TypeOK
<1> QED BY <1>1, AnyInvariance, PTL

\* A blocked PR says why, and what a human lifts of a drift stays lifted
\* (janitor.py _drift_one, reviewer.py _publish).
THEOREM DriftIsRuledOnce == Spec => []DriftInvariant
<1>1. ASSUME AnyInv
      PROVE  landed \subseteq notes
  BY <1>1 DEF AnyInv, Types, LaneTypes, LaneKnows
<1>2. AnyInv => DriftInvariant
  BY <1>1 DEF AnyInv, Explained, LaneKnows, DriftInvariant, BlockIsExplained
<1> QED BY <1>2, AnyInvariance, PTL

\* Nobody loses a PR but by a verdict that was cut between the write that took
\* it from the Reviewer's pool and the one that hands it on (reviewer.py
\* _publish).
THEOREM CutsStrand == Spec => []OnlyCutsStrand
<1>1. AnyInv => OnlyCutsStrand
  BY DEF AnyInv, Explained, HandedOn, AtWork, OnlyCutsStrand, Stranded, Reviewable, Published
<1> QED BY <1>1, AnyInvariance, PTL

-----------------------------------------------------------------------------
\* What holds of one Reviewer whose rounds the human waits for.

Solitary == Patient /\ \A r, s \in Reviewer : r = s

Live(r) == round[r].at \in {"session", "publish"}
Works == run \in {"working", "pushed"}

\* The Reviewer's pool, the Implementer's and the human's are apart, and what
\* is stamped is approved at its head.
WorkingApart ==
    /\ issue.ready \/ Works => ~pr.ready
    /\ issue.ready => ~Works
    /\ pr.hold => \/ pr.blocked
                  \/ pr.ready /\ \E v \in verdicts : v.kind = "approve" /\ v.head = pr.head
    /\ ~pr.open => pr.hold
    /\ reworks <= pr.attempts /\ pr.attempts < RoundBudget

\* What a round that judges or publishes knows of the PR.
RoundKnows(r) ==
    /\ Live(r) => pr.open /\ ~issue.ready /\ ~Works /\ (pr.hold => pr.blocked)
    /\ round[r].at = "session" =>
         round[r].head = pr.head /\ pr.ready /\ round[r].round = pr.attempts + 1
    /\ Published(r) =>
         /\ round[r].verdict.head = pr.head
         /\ ~Pending(r, "comment") => latest = round[r].verdict
         /\ round[r].verdict.kind = "approve" \/ Pending(r, "unready") => pr.ready
         /\ round[r].verdict.kind = "revise" =>
              /\ round[r].verdict.round < RoundBudget /\ reworks < round[r].verdict.round
              /\ Pending(r, "attempt") => pr.attempts <= round[r].verdict.round
              /\ ~Pending(r, "attempt") => pr.attempts = round[r].verdict.round
              /\ ~Pending(r, "unready") => ~pr.ready

Apart == WorkingApart /\ PlanOnPR /\ \A r \in Reviewer : RoundKnows(r)

PullNumbers == pr.attempts \in Nat /\ pr.head \in Nat /\ reworks \in Nat /\ RoundBudget \in Nat \ {0}

LEMMA Numbers ==
  ASSUME ReviewAssumption, AnyInv
  PROVE  PullNumbers
BY DEF ReviewAssumption, AnyInv, Types, PullTypes, PullNumbers

\* The Reviewer's step leaves GitHub alone: what its round knows is all there is.
LEMMA SilentApart ==
  ASSUME Apart, NEW r \in Reviewer, \A s \in Reviewer : s = r,
         UNCHANGED <<pr, issue, verdicts, latest, run, reworks>>,
         RoundKnows(r)'
  PROVE  Apart'
<1>1. WorkingApart' /\ PlanOnPR'
  BY DEF Apart, WorkingApart, PlanOnPR, Works
<1> QED BY <1>1 DEF Apart

LEMMA IdleKnows ==
  ASSUME NEW r \in Reviewer, round'[r] \in {Idle, [at |-> "listed"]}
  PROVE  RoundKnows(r)'
BY DEF RoundKnows, Live, Published, Idle

LEMMA TakeApart ==
  ASSUME ReviewAssumption, AnyInv, Apart, NEW r \in Reviewer, \A s \in Reviewer : s = r, Take(r)
  PROVE  Apart'
<1>1. UNCHANGED <<pr, issue, verdicts, latest, run, reworks>> /\ DOMAIN round = Reviewer
  BY DEF Take, AnyInv, Types
<1>2. CASE round' = [round EXCEPT ![r] = Idle]
  BY <1>1, <1>2, IdleKnows, SilentApart
<1>3. pr.attempts < RoundBudget
  BY DEF Apart, WorkingApart
<1>4. CASE /\ Reviewable
           /\ round' = [round EXCEPT ![r] =
                [at |-> "session", round |-> pr.attempts + 1, head |-> pr.head]]
  <2>1. round'[r] = [at |-> "session", round |-> pr.attempts + 1, head |-> pr.head]
    BY <1>1, <1>4
  <2>2. /\ round'[r].at = "session" /\ round'[r].head = pr.head
        /\ round'[r].round = pr.attempts + 1
    BY <2>1
  <2>3. pr.open /\ pr.ready /\ ~issue.ready /\ ~Works /\ ~pr.hold
    BY <1>4 DEF Apart, WorkingApart, Reviewable
  <2>4. RoundKnows(r)'
    BY <1>1, <2>2, <2>3 DEF RoundKnows, Live, Published, Works
  <2> QED BY <1>1, <2>4, SilentApart
<1>5. ~(pr.attempts >= RoundBudget)
  BY <1>3, Numbers DEF PullNumbers
<1> QED BY <1>2, <1>4, <1>5 DEF Take

LEMMA JudgeApart ==
  ASSUME ReviewAssumption, AnyInv, Apart, NEW r \in Reviewer, \A s \in Reviewer : s = r,
         NEW kind \in Kind, Judge(r, kind)
  PROVE  Apart'
<1> DEFINE k == Validated(kind, round[r].round)
<1> DEFINE n == round[r].round
<1>1. /\ round[r].at = "session" /\ UNCHANGED <<pr, issue, verdicts, latest, run, reworks>>
      /\ Publish(r, k, n, round[r].head)
  BY DEF Judge
<1>2. k \in Kind /\ n \in 1 .. RoundBudget /\ round[r].head \in Nat
  BY <1>1 DEF AnyInv, Types, RoundForm, Idle, Published, Validated, Kind
<1>3. k = "revise" => n < RoundBudget
  BY <1>2, Numbers DEF Validated, PullNumbers
<1>4. /\ pr.open /\ ~issue.ready /\ ~Works /\ (pr.hold => pr.blocked)
      /\ round[r].head = pr.head /\ pr.ready /\ n = pr.attempts + 1 /\ reworks <= pr.attempts
  BY <1>1 DEF Apart, RoundKnows, Live, WorkingApart
<1> HIDE DEF k, n
<1>5. /\ round'[r].at = "publish" /\ round'[r].todo = Writes(k)
      /\ round'[r].verdict = [kind |-> k, round |-> n, head |-> round[r].head]
  BY <1>1, <1>2, PublishMoves DEF AnyInv
<1>6. /\ round'[r].verdict.kind = k /\ round'[r].verdict.round = n
      /\ round'[r].verdict.head = round[r].head
  BY <1>5
<1>7. /\ Pending(r, "comment")'
      /\ k = "revise" => Pending(r, "attempt")' /\ Pending(r, "unready")'
  BY <1>2, <1>5, WholeRest DEF Pending
<1>8. reworks < n /\ pr.attempts <= n
  BY <1>4, Numbers DEF PullNumbers
<1>9. RoundKnows(r)'
  BY <1>1, <1>3, <1>4, <1>5, <1>6, <1>7, <1>8 DEF RoundKnows, Live, Published, Works
<1> QED BY <1>1, <1>9, SilentApart

\* A round that ends without a further write knows nothing.
LEMMA EndApart ==
  ASSUME AnyInv, Apart, NEW r \in Reviewer, \A s \in Reviewer : s = r,
         Discover(r) \/ NoVerdict(r) \/ CutShort(r)
  PROVE  Apart'
<1>1. /\ UNCHANGED <<pr, issue, verdicts, latest, run, reworks>>
      /\ round'[r] \in {Idle, [at |-> "listed"]}
  BY DEF Discover, NoVerdict, CutShort, AnyInv, Types
<1> QED BY <1>1, IdleKnows, SilentApart

LEMMA WriteApart ==
  ASSUME ReviewAssumption, AnyInv, Apart, NEW r \in Reviewer, \A s \in Reviewer : s = r, Write(r)
  PROVE  Apart'
<1> DEFINE v == round[r].verdict
<1> DEFINE w == Head(round[r].todo)
<1>1. /\ Published(r) /\ Live(r)
      /\ \/ Tail(round[r].todo) = <<>> /\ round'[r] = Idle
         \/ /\ Tail(round[r].todo) # <<>> /\ Published(r)' /\ round'[r].verdict = v
            /\ \A x : Pending(r, x)' <=> Pending(r, x) /\ x # w
  BY WriteMoves DEF AnyInv, Live, Published
<1>2. /\ pr' = PrAfter(w, v.round) /\ issue' = IssueAfter(w)
      /\ IF w = "comment" THEN verdicts' = verdicts \cup {v} /\ latest' = v
                          ELSE UNCHANGED <<verdicts, latest>>
      /\ reworks' = IF w = "requeue" THEN reworks + 1 ELSE reworks
      /\ UNCHANGED run
  BY DEF Write
<1>3. /\ w \in {"comment", "stamp", "attempt", "unready", "unassign", "unprogress",
                "requeue", "hold"}
      /\ w \in {"attempt", "unassign", "unprogress", "requeue"} => v.kind = "revise"
      /\ w = "stamp" => v.kind = "approve"
      /\ w = "hold" => v.kind = "escalate"
      /\ w = "unready" => v.kind # "approve"
      /\ Tail(round[r].todo) = <<>> <=> w \in {"stamp", "requeue", "hold"}
      /\ w # "comment" => ~Pending(r, "comment")
      /\ w = "attempt" => Pending(r, "unready")
      /\ w \in {"unready", "unassign", "unprogress", "requeue"} => ~Pending(r, "attempt")
      /\ w \in {"unassign", "unprogress", "requeue", "hold"} => ~Pending(r, "unready")
      /\ Pending(r, w)
  BY <1>1, NextWrite, WriteMoves DEF AnyInv
<1>4. /\ pr.open /\ ~issue.ready /\ ~Works /\ (pr.hold => pr.blocked) /\ v.head = pr.head
      /\ ~Pending(r, "comment") => latest = v /\ v \in verdicts
      /\ v.kind = "approve" \/ Pending(r, "unready") => pr.ready
      /\ v.kind = "revise" =>
           /\ v.round < RoundBudget /\ reworks < v.round
           /\ Pending(r, "attempt") => pr.attempts <= v.round
           /\ ~Pending(r, "attempt") => pr.attempts = v.round
           /\ ~Pending(r, "unready") => ~pr.ready
  BY <1>1 DEF Apart, RoundKnows, AnyInv, CommentsFirst
<1>5. /\ reworks <= pr.attempts /\ pr.attempts < RoundBudget /\ v.round \in Nat
      /\ pr.attempts \in Nat /\ reworks \in Nat /\ RoundBudget \in Nat
  <2>1. v \in Verdict
    BY <1>1, PublishedForm DEF AnyInv
  <2> HIDE DEF v
  <2>2. v.round \in 1 .. RoundBudget /\ PullNumbers
    BY <2>1, Numbers DEF Verdict
  <2> QED BY <2>2 DEF Apart, WorkingApart, PullNumbers
<1> HIDE DEF v, w
<1>6. /\ pr'.open = pr.open /\ pr'.head = pr.head
      /\ pr'.ready = IF w = "unready" THEN FALSE ELSE pr.ready
      /\ pr'.hold = IF w \in {"stamp", "hold"} THEN TRUE ELSE pr.hold
      /\ pr'.blocked = IF w = "hold" THEN TRUE ELSE pr.blocked
      /\ pr'.attempts = IF w = "attempt" THEN v.round ELSE pr.attempts
      /\ issue'.ready = IF w = "requeue" THEN TRUE ELSE issue.ready
  <2>1. /\ pr \in [open : BOOLEAN, ready : BOOLEAN, hold : BOOLEAN, blocked : BOOLEAN,
                   attempts : 0 .. RoundBudget, head : Nat]
        /\ issue \in [ready : BOOLEAN, assigned : BOOLEAN, progress : BOOLEAN, failed : BOOLEAN]
    BY DEF AnyInv, Types, PullTypes
  <2>2. w = "attempt" => (IF v.round > pr.attempts THEN v.round ELSE pr.attempts) = v.round
    BY <1>3, <1>4, <1>5
  <2>3. CASE w = "attempt"
    BY <1>2, <2>1, <2>2, <2>3 DEF PrAfter, IssueAfter
  <2>4. CASE w # "attempt"
    BY <1>2, <2>1, <2>4 DEF PrAfter, IssueAfter
  <2> QED BY <2>3, <2>4
<1>7. WorkingApart'
  <2>1. ~Works' /\ pr'.open
    BY <1>2, <1>4, <1>6 DEF Works
  <2>2. issue'.ready => ~pr'.ready
    BY <1>3, <1>4, <1>6
  <2>3. pr'.hold =>
           \/ pr'.blocked
           \/ pr'.ready /\ \E u \in verdicts' : u.kind = "approve" /\ u.head = pr'.head
    <3>1. CASE w = "stamp"
      BY <1>2, <1>3, <1>4, <1>6, <3>1
    <3>2. CASE w = "hold"
      <4>1. pr'.blocked
        BY <1>6, <3>2
      <4> QED BY <4>1
    <3>3. CASE w \notin {"stamp", "hold"}
      <4>1. pr'.hold => pr'.blocked
        BY <1>4, <1>6, <3>3
      <4> QED BY <4>1
    <3> QED BY <3>1, <3>2, <3>3
  <2>4. reworks' <= pr'.attempts /\ pr'.attempts < RoundBudget
    <3>1. CASE w = "attempt"
      BY <1>2, <1>3, <1>4, <1>5, <1>6, <3>1
    <3>2. CASE w = "requeue"
      BY <1>2, <1>3, <1>4, <1>5, <1>6, <3>2
    <3>3. CASE w \notin {"attempt", "requeue"}
      BY <1>2, <1>5, <1>6, <3>3
    <3> QED BY <3>1, <3>2, <3>3
  <2> QED BY <2>1, <2>2, <2>3, <2>4 DEF WorkingApart
<1>8. PlanOnPR'
  <2>1. CASE w = "requeue"
    BY <1>2, <1>3, <1>4, <1>6, <2>1 DEF PlanOnPR
  <2>2. CASE w # "requeue"
    BY <1>4, <1>6, <2>2 DEF PlanOnPR
  <2> QED BY <2>1, <2>2
<1>9. RoundKnows(r)'
  <2>1. CASE round'[r] = Idle
    BY <2>1, IdleKnows
  <2>2. CASE /\ Tail(round[r].todo) # <<>> /\ Published(r)' /\ round'[r].verdict = v
             /\ \A x : Pending(r, x)' <=> Pending(r, x) /\ x # w
    <3>1. w \notin {"stamp", "requeue", "hold"} /\ round'[r].at # "session"
      BY <1>3, <2>2 DEF Published
    <3>2. ~issue'.ready /\ ~Works' /\ pr'.open /\ (pr'.hold => pr'.blocked) /\ pr'.head = pr.head
      BY <1>2, <1>4, <1>6, <3>1 DEF Works
    <3>3. ~Pending(r, "comment")' => latest' = v
      BY <1>2, <1>4, <2>2
    <3>4. v.kind = "approve" \/ Pending(r, "unready")' => pr'.ready
      BY <1>3, <1>4, <1>6, <2>2
    <3>5. v.kind = "revise" =>
            /\ v.round < RoundBudget /\ reworks' < v.round
            /\ Pending(r, "attempt")' => pr'.attempts <= v.round
            /\ ~Pending(r, "attempt")' => pr'.attempts = v.round
            /\ ~Pending(r, "unready")' => ~pr'.ready
      BY <1>2, <1>3, <1>4, <1>6, <2>2, <3>1
    <3> QED BY <1>4, <2>2, <3>1, <3>2, <3>3, <3>4, <3>5 DEF RoundKnows
  <2> QED BY <1>1, <2>1, <2>2
<1> QED BY <1>7, <1>8, <1>9 DEF Apart

\* A Run works only while no round judges.
LEMMA WorkApart ==
  ASSUME ReviewAssumption, AnyInv, Apart,
         Resume \/ Push \/ MarkReady \/ RunFails
  PROVE  Apart'
<1>1. /\ pr \in [open : BOOLEAN, ready : BOOLEAN, hold : BOOLEAN, blocked : BOOLEAN,
                 attempts : 0 .. RoundBudget, head : Nat]
      /\ issue \in [ready : BOOLEAN, assigned : BOOLEAN, progress : BOOLEAN, failed : BOOLEAN]
  BY DEF AnyInv, Types, PullTypes
<1>2. issue.ready \/ Works
  BY DEF Resume, Push, MarkReady, RunFails, Works
<1>3. ~pr.ready /\ (pr.hold => pr.blocked) /\ \A r \in Reviewer : ~Live(r)
  BY <1>2 DEF Apart, WorkingApart, RoundKnows
<1>4. UNCHANGED <<verdicts, round, reworks>> /\ ~issue'.ready
  BY <1>1 DEF Resume, Push, MarkReady, RunFails, Apart, WorkingApart, Works, Released
<1>5. /\ pr'.open = pr.open /\ pr'.hold = pr.hold /\ pr'.blocked = pr.blocked
      /\ pr'.attempts = pr.attempts
      /\ Works' => ~pr'.ready
  BY <1>1, <1>3 DEF Resume, Push, MarkReady, RunFails, Works
<1>6. WorkingApart' /\ PlanOnPR'
  BY <1>3, <1>4, <1>5 DEF Apart, WorkingApart, PlanOnPR
<1>7. ASSUME NEW r \in Reviewer
      PROVE  RoundKnows(r)'
  BY <1>3, <1>4, <1>7 DEF RoundKnows, Live, Published
<1> QED BY <1>6, <1>7 DEF Apart

\* What the PR is to the Reviewer, the Runs and the human does not change but
\* by a hold.
LEMMA AsideApart ==
  ASSUME AnyInv, Apart,
         \/ Conclude \/ EventLost \/ RunDies \/ Silence \/ BundleLands \/ Janitor
         \/ BlockerMoves \/ Drift \/ UNCHANGED vars
  PROVE  Apart'
<1>1. /\ pr \in [open : BOOLEAN, ready : BOOLEAN, hold : BOOLEAN, blocked : BOOLEAN,
                 attempts : 0 .. RoundBudget, head : Nat]
      /\ issue \in [ready : BOOLEAN, assigned : BOOLEAN, progress : BOOLEAN, failed : BOOLEAN]
  BY DEF AnyInv, Types, PullTypes
<1>2. UNCHANGED <<verdicts, latest, round, reworks>>
  BY DEF Conclude, EventLost, RunDies, Silence, BundleLands, Janitor, BlockerMoves,
     Drift, DriftList, DriftRead, DriftComment, DriftNote, DriftLabel, DriftRecord, DriftCut, vars
<1>3. issue'.ready = issue.ready /\ (Works' => Works)
  BY <1>1 DEF Conclude, EventLost, RunDies, Silence, BundleLands, Janitor, BlockerMoves,
     Drift, DriftList, DriftRead, DriftComment, DriftNote, DriftLabel, DriftRecord, DriftCut, vars,
     Works, Released
<1>4. pr' = pr \/ pr' = [pr EXCEPT !.blocked = TRUE, !.hold = TRUE]
  BY DEF Conclude, EventLost, RunDies, Silence, BundleLands, Janitor, BlockerMoves,
     Drift, DriftList, DriftRead, DriftComment, DriftNote, DriftLabel, DriftRecord, DriftCut, vars
<1>5. /\ pr'.open = pr.open /\ pr'.ready = pr.ready /\ pr'.head = pr.head
      /\ pr'.attempts = pr.attempts /\ (pr.hold => pr'.hold)
      /\ \/ pr'.hold = pr.hold /\ pr'.blocked = pr.blocked
         \/ pr'.hold /\ pr'.blocked
  BY <1>1, <1>4
<1>6. WorkingApart' /\ PlanOnPR'
  BY <1>2, <1>3, <1>5 DEF Apart, WorkingApart, PlanOnPR
<1>7. ASSUME NEW r \in Reviewer
      PROVE  RoundKnows(r)'
  BY <1>2, <1>3, <1>5, <1>7 DEF Apart, RoundKnows, Live, Published, Pending
<1> QED BY <1>6, <1>7 DEF Apart

\* The human moves a PR when no round on it is under way.
LEMMA HumanApart ==
  ASSUME Patient, AnyInv, Apart, Merge \/ HandBack \/ Decide
  PROVE  Apart'
<1>1. pr \in [open : BOOLEAN, ready : BOOLEAN, hold : BOOLEAN, blocked : BOOLEAN,
              attempts : 0 .. RoundBudget, head : Nat]
  BY DEF AnyInv, Types, PullTypes
<1>2. UNCHANGED <<run, verdicts, round, reworks>>
  BY DEF Merge, HandBack, Decide
<1>3. \A r \in Reviewer : ~Live(r)
  <2>1. CASE Merge
    BY <2>1 DEF Merge, Apart, RoundKnows
  <2>2. CASE HandBack \/ Decide
    BY <2>2 DEF HandBack, Decide, Quiet, Idle, Live
  <2> QED BY <2>1, <2>2
<1>4. WorkingApart' /\ PlanOnPR'
  <2>1. CASE Merge
    BY <1>1, <1>2, <2>1 DEF Merge, Apart, WorkingApart, PlanOnPR, Works
  <2>2. CASE HandBack
    BY <1>1, <1>2, <2>2 DEF HandBack, Quiet, Over, Apart, WorkingApart, PlanOnPR, Works
  <2>3. CASE Decide
    BY <1>1, <1>2, <2>3 DEF Decide, Quiet, Over, Apart, WorkingApart, PlanOnPR, Works
  <2> QED BY <2>1, <2>2, <2>3
<1>5. ASSUME NEW r \in Reviewer
      PROVE  RoundKnows(r)'
  BY <1>2, <1>3, <1>5 DEF RoundKnows, Live, Published
<1> QED BY <1>4, <1>5 DEF Apart

LEMMA ApartInit ==
  ASSUME ReviewAssumption, Init
  PROVE  Apart
<1>1. \A r \in Reviewer : ~Live(r)
  BY DEF Init, Live, Idle
<1>2. WorkingApart /\ PlanOnPR
  BY DEF ReviewAssumption, Init, WorkingApart, PlanOnPR, Works
<1> QED BY <1>1, <1>2 DEF Apart, RoundKnows, Live, Published

LEMMA ApartStep ==
  ASSUME ReviewAssumption, Solitary, AnyInv, Apart, [Next]_vars
  PROVE  Apart'
<1>1. \A r, s \in Reviewer : s = r
  BY DEF Solitary
<1>2. CASE \E r \in Reviewer : Review(r) \/ NoVerdict(r) \/ CutShort(r)
  BY <1>1, <1>2, TakeApart, JudgeApart, WriteApart, EndApart DEF Review
<1>3. CASE Resume \/ Push \/ MarkReady \/ RunFails
  BY <1>3, WorkApart
<1>4. CASE \/ Conclude \/ EventLost \/ RunDies \/ Silence \/ BundleLands \/ Janitor
           \/ BlockerMoves \/ Drift \/ UNCHANGED vars
  BY <1>4, AsideApart
<1>5. CASE Merge \/ HandBack \/ Decide
  BY <1>5, HumanApart DEF Solitary
<1> QED BY <1>2, <1>3, <1>4, <1>5 DEF Next, Implement

\* One Reviewer, one PR: its pool, the Run's and the human's stay apart.
THEOREM ApartInvariance ==
  ASSUME Solitary
  PROVE  Spec => [](AnyInv /\ Apart)
<1>1. Init => AnyInv /\ Apart
  BY AnyInit, ApartInit, ReviewAssumption
<1>2. AnyInv /\ Apart /\ [Next]_vars => (AnyInv /\ Apart)'
  BY AnyStep, ApartStep, ReviewAssumption, Solitary
<1> QED BY <1>1, <1>2, PTL DEF Spec

\* The labels dependents and Implementers go by are backed by what is on the
\* PR: an approval of its head, the plan of the next Run (reviewer.py _publish,
\* deps.py).
THEOREM EarnedLabels ==
  ASSUME Solitary
  PROVE  Spec => []LabelsAreEarned
<1>1. AnyInv => TypeOK
  BY FormIsType DEF AnyInv, Types, TypeOK
<1>2. Apart => GoAheadIsApproved /\ PlanOnPR
  BY DEF Apart, WorkingApart, GoAheadIsApproved
<1>3. AnyInv /\ Apart => LabelsAreEarned
  BY <1>1, <1>2 DEF LabelsAreEarned
<1> QED BY <1>3, ApartInvariance, Solitary, PTL

\* The Reviewer and the Runs take turns, and the Reviewer sends an issue back
\* less often than its budget of rounds (reviewer.py _publish, ROUND_BUDGET).
THEOREM TurnsAreBounded ==
  ASSUME Solitary
  PROVE  Spec => []BoundedTurns
<1>1. Apart => OneActor
  BY DEF Apart, WorkingApart, RoundKnows, OneActor, Reviewable, Works, Published
<1>2. AnyInv /\ Apart => ReworkBounded
  BY ReviewAssumption, Numbers DEF Apart, WorkingApart, PullNumbers, ReworkBounded
<1>3. AnyInv /\ Apart => BoundedTurns
  BY <1>1, <1>2 DEF BoundedTurns
<1> QED BY <1>3, ApartInvariance, Solitary, PTL
=============================================================================
