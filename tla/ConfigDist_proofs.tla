--------------------------- MODULE ConfigDist_proofs ---------------------------
(***************************************************************************)
(* Proofs about the config distribution, for all distributions, desired    *)
(* states and bounds: the types, what a pass knows at each of its steps,   *)
(* and from it that drivers start verified, that what runs is spared, and  *)
(* that a whole tree only gives way to a whole one.                        *)
(***************************************************************************)
EXTENDS ConfigDist, SequenceTheorems, TLAPS

StepName == {"answer", "converge", "fetch", "stop", "aside", "in", "publish", "gc",
             "drop", "unpoint", "clear", "export", "empty", "fill", "reconcile"}

\* Which step may come after which.
Follows ==
    {<<"fetch", "stop">>, <<"stop", "aside">>, <<"aside", "in">>, <<"in", "publish">>,
     <<"publish", "gc">>, <<"gc", "export">>, <<"drop", "unpoint">>,
     <<"unpoint", "clear">>, <<"clear", "export">>, <<"export", "reconcile">>,
     <<"empty", "fill">>, <<"empty", "reconcile">>, <<"fill", "reconcile">>}

Orderly(s) == s \in Seq(StepName) /\ \A k \in 1..(Len(s) - 1) : <<s[k], s[k + 1]>> \in Follows

\* The pass goes on with one of the given steps, or is over.
GoesTo(steps) == Orderly(todo)' /\ \A step \in StepName : At(step)' => step \in steps

AtOneOf(steps) == \E step \in steps : At(step)

\* What a pass knows at each step.  A memo is what verifies, unless something
\* was damaged; an exchange has no memo between the stop and the publication,
\* holds a whole staged tree until it is in place, replaces a tree other than
\* the verified one, and has stopped the drivers it names.
PassKnows ==
    /\ Orderly(todo)
    /\ ~stale /\ memo # Unknown => memo = Verified
    /\ AtOneOf({"answer", "converge"}) => memo # Unknown
    /\ AtOneOf({"aside", "in", "publish", "unpoint", "clear"}) => memo = Unknown
    /\ At("gc") => memo = desired.hash
    /\ AtOneOf({"fetch", "stop", "aside", "in", "publish", "gc"}) => desired.hash # Nothing
    /\ AtOneOf({"drop", "unpoint", "clear"}) => desired.hash = Nothing
    /\ AtOneOf({"fetch", "stop", "aside"}) /\ ~stale => Verified # desired.hash
    /\ AtOneOf({"stop", "aside", "in"}) => staged = "good"
    /\ At("publish") /\ ~stale => tree[desired.hash] = "good"
    /\ AtOneOf({"aside", "in", "publish", "gc"}) /\ desired.named => child = Nothing
    /\ AtOneOf({"fetch", "stop"}) /\ desired.named /\ claim = "run" => late

-----------------------------------------------------------------------------
\* Plans.

\* What is left of an orderly plan is orderly, and begins where the order
\* says.
LEMMA DoneGoesOn ==
  ASSUME Orderly(todo), Done, NEW step \in StepName, At(step)
  PROVE  GoesTo({next \in StepName : <<step, next>> \in Follows})
<1>1. Len(todo) \in Nat \ {0} /\ todo[1] = step
  BY DEF At, Orderly
<1>2. /\ todo' \in Seq(StepName) /\ Len(todo') = Len(todo) - 1
      /\ \A k \in 1..Len(todo') : todo'[k] = todo[k + 1]
  <2>1. todo \in Seq(StepName) /\ todo' = SubSeq(todo, 2, Len(todo))
    BY DEF Done, Orderly
  <2>2. /\ todo' \in Seq(StepName) /\ Len(todo') = Len(todo) - 1
        /\ \A k \in 1..(Len(todo) - 1) : todo'[k] = todo[2 + k - 1]
    <3>1. Len(todo) \in Int /\ 2 \in Int /\ \A k \in 2..Len(todo) : todo[k] \in StepName
      BY <1>1, <2>1
    <3>2. /\ SubSeq(todo, 2, Len(todo)) \in Seq(StepName)
          /\ Len(SubSeq(todo, 2, Len(todo))) = IF 2 <= Len(todo) THEN Len(todo) - 2 + 1 ELSE 0
          /\ \A k \in 1..(Len(todo) - 2 + 1) : SubSeq(todo, 2, Len(todo))[k] = todo[2 + k - 1]
      BY <3>1, SubSeqProperties
    <3>3. /\ Len(todo) - 2 + 1 = Len(todo) - 1
          /\ (IF 2 <= Len(todo) THEN Len(todo) - 2 + 1 ELSE 0) = Len(todo) - 1
      <4>1. \A n \in Nat \ {0} :
              n - 2 + 1 = n - 1 /\ (IF 2 <= n THEN n - 2 + 1 ELSE 0) = n - 1
        OBVIOUS
      <4> QED BY <1>1, <4>1
    <3>4. \A k \in 1..(Len(todo) - 1) : SubSeq(todo, 2, Len(todo))[k] = todo[2 + k - 1]
      BY <3>2, <3>3
    <3>5. Len(SubSeq(todo, 2, Len(todo))) = Len(todo) - 1
      BY <3>2, <3>3
    <3> HIDE <1>1
    <3> QED BY <2>1, <3>2, <3>4, <3>5
  <2>3. \A k \in Nat : 2 + k - 1 = k + 1
    OBVIOUS
  <2> QED BY <1>1, <2>2, <2>3
<1>3. Orderly(todo)'
  <2>1. ASSUME NEW k \in 1..(Len(todo') - 1)
        PROVE  <<todo'[k], todo'[k + 1]>> = <<todo[k + 1], todo[k + 1 + 1]>>
               /\ k + 1 \in 1..(Len(todo) - 1)
    BY <1>1, <1>2
  <2> QED BY <1>2, <2>1 DEF Orderly
<1>4. ASSUME NEW next \in StepName, At(next)' PROVE <<step, next>> \in Follows
  BY <1>1, <1>2, <1>4 DEF At, Orderly
<1> QED BY <1>3, <1>4 DEF GoesTo

\* Two orderly plans make one, if the first ends where the second may begin.
LEMMA JoinedPlans ==
  ASSUME NEW s, NEW t, Orderly(s), Orderly(t), s # << >>, t # << >>,
         <<s[Len(s)], t[1]>> \in Follows
  PROVE  Orderly(s \o t) /\ s \o t # << >> /\ Head(s \o t) = s[1]
<1>1. /\ s \in Seq(StepName) /\ t \in Seq(StepName)
      /\ Len(s) \in Nat \ {0} /\ Len(t) \in Nat \ {0}
  BY DEF Orderly
<1>2. /\ s \o t \in Seq(StepName) /\ Len(s \o t) = Len(s) + Len(t)
      /\ \A k \in 1..(Len(s) + Len(t)) :
           (s \o t)[k] = IF k <= Len(s) THEN s[k] ELSE t[k - Len(s)]
  BY <1>1, ConcatProperties
<1>3. ASSUME NEW k \in 1..(Len(s \o t) - 1)
      PROVE  <<(s \o t)[k], (s \o t)[k + 1]>> \in Follows
  <2>1. CASE k < Len(s)
    BY <1>1, <1>2, <2>1 DEF Orderly
  <2>2. CASE k = Len(s)
    BY <1>1, <1>2, <2>2, SMTT(60)
  <2>3. CASE k > Len(s)
    <3>1. /\ (s \o t)[k] = t[k - Len(s)] /\ (s \o t)[k + 1] = t[k - Len(s) + 1]
          /\ k - Len(s) \in 1..(Len(t) - 1)
      BY <1>1, <1>2, <2>3
    <3> QED BY <3>1 DEF Orderly
  <2>4. k \in Int /\ Len(s) \in Int
    BY <1>1, <1>2
  <2>5. k < Len(s) \/ k = Len(s) \/ k > Len(s)
    BY <2>4
  <2> QED BY <2>1, <2>2, <2>3, <2>5
<1> QED BY <1>1, <1>2, <1>3 DEF Orderly

LEMMA GivenPlans ==
  /\ Orderly(<< >>) /\ Orderly(Closing) /\ Orderly(Swap \o Closing) /\ Orderly(Retire \o Closing)
  /\ Swap \o Closing # << >> /\ Head(Swap \o Closing) = "fetch"
  /\ Retire \o Closing # << >> /\ Head(Retire \o Closing) = "drop"
  /\ Closing # << >> /\ Head(Closing) = "export" /\ << >> \o Closing = Closing
<1>1. Orderly(<< >>) /\ Orderly(Closing) /\ Orderly(Swap) /\ Orderly(Retire)
  BY DEF Orderly, Closing, Swap, Retire, StepName, Follows
<1>2. /\ Swap # << >> /\ Swap[1] = "fetch" /\ Swap[Len(Swap)] = "gc"
      /\ Retire # << >> /\ Retire[1] = "drop" /\ Retire[Len(Retire)] = "clear"
      /\ Closing # << >> /\ Closing[1] = "export" /\ Head(Closing) = "export"
      /\ << >> \o Closing = Closing
  BY DEF Closing, Swap, Retire
<1>3. <<"gc", "export">> \in Follows /\ <<"clear", "export">> \in Follows
  BY DEF Follows
<1> QED BY <1>1, <1>2, <1>3, JoinedPlans

LEMMA ShortPlans ==
  /\ \A s \in {<< >>, <<"fill">>, <<"empty">>, <<"empty", "fill">>} :
       /\ Orderly(s \o <<"reconcile">>)
       /\ s \o <<"reconcile">> # << >>
       /\ Head(s \o <<"reconcile">>) \in {"fill", "empty", "reconcile"}
  /\ \A step \in StepName : Orderly(<<step>>)
<1>1. \A step \in StepName : Orderly(<<step>>)
  BY DEF Orderly
<1>2. << >> \o <<"reconcile">> = <<"reconcile">> /\ Orderly(<<"reconcile">>)
  BY <1>1 DEF StepName
<1>3. \A s \in {<<"fill">>, <<"empty">>, <<"empty", "fill">>} :
        /\ Orderly(s) /\ s # << >> /\ s[1] \in {"fill", "empty"}
        /\ <<s[Len(s)], "reconcile">> \in Follows
  BY DEF Orderly, StepName, Follows
<1>4. \A s \in {<<"fill">>, <<"empty">>, <<"empty", "fill">>} :
        /\ Orderly(s \o <<"reconcile">>) /\ s \o <<"reconcile">> # << >>
        /\ Head(s \o <<"reconcile">>) = s[1]
  BY <1>2, <1>3, JoinedPlans
<1> QED BY <1>1, <1>2, <1>3, <1>4

\* A failed exchange leaves the closing steps.
LEMMA FailGoesOn == ASSUME Fail PROVE GoesTo({"export"})
BY GivenPlans DEF Fail, GoesTo, At
-----------------------------------------------------------------------------
\* Where each action leads.

LEMMA StepsGoOn ==
  ASSUME PassKnows
  PROVE  /\ Report => GoesTo({"answer"})
         /\ Answer => GoesTo({"converge"})
         /\ Fetch => GoesTo({"stop", "export"})
         /\ StopForSwap => GoesTo({"aside", "export"})
         /\ MoveAside => GoesTo({"in", "export"})
         /\ MoveIn => GoesTo({"publish", "export"})
         /\ Publish => GoesTo({"gc", "export"})
         /\ Collect => GoesTo({"export"})
         /\ Drop => GoesTo({"unpoint"})
         /\ Unpoint => GoesTo({"clear"})
         /\ Clear => GoesTo({"export"})
         /\ StartExport => GoesTo({"fill", "empty", "reconcile"})
         /\ EmptyExport => GoesTo({"fill", "reconcile"})
         /\ FillExport => GoesTo({"reconcile"})
         /\ Reconcile => GoesTo({})
         /\ Crash => GoesTo({})
<1>1. Orderly(todo)
  BY DEF PassKnows
<1>2. \A step \in StepName : At(step) /\ Done =>
         GoesTo({next \in StepName : <<step, next>> \in Follows})
  BY <1>1, DoneGoesOn
<1>3. ASSUME NEW step \in StepName, todo' = <<step>> PROVE GoesTo({step})
  BY <1>3, ShortPlans DEF GoesTo, At
<1>4. todo' = << >> => GoesTo({})
  BY GivenPlans DEF GoesTo, At
<1>5. Report => GoesTo({"answer"})
  BY <1>3 DEF Report, StepName
<1>6. Answer => GoesTo({"converge"})
  BY <1>3 DEF Answer, StepName
<1>7. Fetch => GoesTo({"stop", "export"})
  BY <1>2, FailGoesOn DEF Fetch, GoesTo, StepName, Follows
<1>8. StopForSwap => GoesTo({"aside", "export"})
  BY <1>2, FailGoesOn DEF StopForSwap, GoesTo, StepName, Follows
<1>9. MoveAside => GoesTo({"in", "export"})
  BY <1>2, FailGoesOn DEF MoveAside, GoesTo, StepName, Follows
<1>10. MoveIn => GoesTo({"publish", "export"})
  BY <1>2, FailGoesOn DEF MoveIn, GoesTo, StepName, Follows
<1>11. Publish => GoesTo({"gc", "export"})
  BY <1>2, FailGoesOn DEF Publish, GoesTo, StepName, Follows
<1>12. Collect => GoesTo({"export"})
  BY <1>2 DEF Collect, GoesTo, StepName, Follows
<1>13. Drop => GoesTo({"unpoint"})
  BY <1>2 DEF Drop, GoesTo, StepName, Follows
<1>14. Unpoint => GoesTo({"clear"})
  BY <1>2 DEF Unpoint, GoesTo, StepName, Follows
<1>15. Clear => GoesTo({"export"})
  BY <1>2 DEF Clear, GoesTo, StepName, Follows
<1>16. StartExport => GoesTo({"fill", "empty", "reconcile"})
  BY ShortPlans DEF StartExport, GoesTo, At
<1>17. EmptyExport => GoesTo({"fill", "reconcile"})
  BY <1>2, <1>3 DEF EmptyExport, GoesTo, StepName, Follows
<1>18. FillExport => GoesTo({"reconcile"})
  BY <1>2 DEF FillExport, GoesTo, StepName, Follows
<1>19. (Reconcile => GoesTo({})) /\ (Crash => GoesTo({}))
  BY <1>4 DEF Reconcile, Crash
<1> QED BY <1>5, <1>6, <1>7, <1>8, <1>9, <1>10, <1>11, <1>12, <1>13, <1>14, <1>15, <1>16,
           <1>17, <1>18, <1>19

LEMMA ConvergeGoesOn ==
  ASSUME Converge
  PROVE  /\ GoesTo({"fetch", "drop", "export"})
         /\ At("fetch")' => ~Converged /\ ~RunBlocks /\ desired.hash # Nothing
         /\ At("drop")' => desired.hash = Nothing
<1>1. \/ todo' = Closing
      \/ todo' = Retire \o Closing /\ desired.hash = Nothing
      \/ todo' = Swap \o Closing /\ ~Converged /\ ~RunBlocks /\ desired.hash # Nothing
  BY GivenPlans DEF Converge
<1> QED BY <1>1, GivenPlans DEF GoesTo, At
-----------------------------------------------------------------------------
\* Types.

\* TypeOK but for the plan, whose type is part of its order.
Types ==
  /\ desired \in Desires /\ reported \in Hash \cup {Nothing}
  /\ pointer \in Hash \cup {Nothing, Damaged}
  /\ tree \in [Hash -> {"good", "bad", "missing"}]
  /\ staged \in {"good", "missing"}
  /\ export \in Hash \cup {Nothing, Damaged}
  /\ memo \in Hash \cup {Nothing, Unknown}
  /\ previous \in Hash \cup {Nothing}
  /\ child \in Hash \cup {Nothing}
  /\ claim \in {"none", "held", "run"} /\ claim # "none" => child # Nothing
  /\ stale \in BOOLEAN /\ late \in BOOLEAN
  /\ left \in [Budget -> Nat]

LEMMA TypesSplit == TypeOK <=> Types /\ todo \in Seq(StepName)
BY DEF TypeOK, Types, StepName

LEMMA BudgetTypes ==
  ASSUME NEW b \in Budget, left \in [Budget -> Nat]
  PROVE  Spend(b) => left' \in [Budget -> Nat]
BY DEF Spend

LEMMA DesiredTypes ==
  ASSUME Types
  PROVE  /\ desired.hash \in Hash \cup {Nothing} /\ desired.named \in BOOLEAN
         /\ desired.named => desired.hash # Nothing
BY DistAssumption DEF Types

LEMMA VerifiedTypes ==
  ASSUME Types
  PROVE  Verified \in Hash \cup {Nothing} /\ Applied \in Hash \cup {Nothing}
BY DistAssumption DEF Types, Verified, Applied

LEMMA InitTypes == Init => Types /\ PassKnows
<1> SUFFICES ASSUME Init PROVE Types /\ PassKnows
  OBVIOUS
<1>1. Types
  BY DistAssumption DEF Init, Types, Budget
<1>2. PassKnows
  BY GivenPlans DEF Init, PassKnows, AtOneOf, At
<1> QED BY <1>1, <1>2

LEMMA ReclaimTypes ==
  ASSUME Types, NEW keep, Reclaim(keep)
  PROVE  tree' \in [Hash -> {"good", "bad", "missing"}] /\ left' \in [Budget -> Nat]
BY BudgetTypes DEF Reclaim, Types, Budget

LEMMA StepTypes == Types /\ PassKnows /\ [Next]_vars => Types'
<1> SUFFICES ASSUME Types, PassKnows, [Next]_vars PROVE Types'
  OBVIOUS
<1>0. \A b \in Budget : Spend(b) => left' \in [Budget -> Nat]
  BY BudgetTypes DEF Types
<1>1. CASE TakeClaim
  BY <1>1, <1>0 DEF TakeClaim, Types, disk, seen, Budget
<1>2. CASE StartRun \/ EndRun
  BY <1>2 DEF StartRun, EndRun, Types, disk, seen
<1>3. CASE Damage
  <2>1. pointer' \in Hash \cup {Nothing, Damaged} /\ export' \in Hash \cup {Nothing, Damaged}
    BY <1>3 DEF Damage, Types
  <2>2. tree' \in [Hash -> {"good", "bad", "missing"}]
    BY <1>3 DEF Damage, Types
  <2> QED BY <1>3, <1>0, <2>1, <2>2 DEF Damage, Types, seen, driver, Budget
<1>4. CASE Crash
  BY <1>4, <1>0 DEF Crash, Types, seen, Budget
<1>5. CASE Report
  BY <1>5, VerifiedTypes DEF Report, Types, disk, driver
<1>6. CASE Answer
  BY <1>6, <1>0 DEF Answer, Types, disk, driver, Budget
<1>7. CASE Converge
  <2>1. memo # Unknown
    BY <1>7 DEF Converge, PassKnows, AtOneOf
  <2> QED BY <1>7, <2>1 DEF Converge, Types, disk, driver, seen
<1>8. CASE Fetch
  BY <1>8, <1>0 DEF Fetch, Fail, Types, driver, seen, Budget
<1>9. CASE StopForSwap
  BY <1>9, <1>0 DEF StopForSwap, StopDrivers, Fail, Types, driver, seen, Budget
<1>10. CASE MoveAside
  <2>1. tree' \in [Hash -> {"good", "bad", "missing"}]
    BY <1>10 DEF MoveAside, Types
  <2> QED BY <1>10, <1>0, <2>1 DEF MoveAside, Fail, Types, driver, seen, Budget
<1>11. CASE MoveIn
  <2>1. tree' \in [Hash -> {"good", "bad", "missing"}]
    BY <1>11 DEF MoveIn, Types
  <2> QED BY <1>11, <1>0, <2>1 DEF MoveIn, Fail, Types, driver, seen, Budget
<1>12. CASE Publish
  <2>1. desired.hash \in Hash
    BY <1>12, DesiredTypes DEF Publish, PassKnows, AtOneOf
  <2> QED BY <1>12, <1>0, <2>1 DEF Publish, Fail, Types, driver, seen, Budget
<1>13. CASE Collect
  BY <1>13, ReclaimTypes DEF Collect, Types, driver, seen
<1>14. CASE Drop
  BY <1>14 DEF Drop, Types, driver, seen, disk
<1>15. CASE Unpoint
  BY <1>15, <1>0 DEF Unpoint, Types, driver, seen, Budget
<1>16. CASE Clear
  BY <1>16, ReclaimTypes DEF Clear, Types, driver, seen
<1>17. CASE StartExport
  BY <1>17, VerifiedTypes DEF StartExport, Remember, Types, driver, seen, disk
<1>18. CASE EmptyExport
  BY <1>18, <1>0 DEF EmptyExport, Types, driver, seen, Budget
<1>19. CASE FillExport
  <2>1. Source \in Hash \cup {Nothing, Damaged}
    BY VerifiedTypes, DistAssumption DEF Source
  <2> QED BY <1>19, <1>0, <2>1 DEF FillExport, Types, driver, seen, Budget
<1>20. CASE Reconcile
  <2>1. /\ child' \in Hash \cup {Nothing}
        /\ claim' \in {"none", "held", "run"} /\ claim' # "none" => child' # Nothing
    BY <1>20, VerifiedTypes DEF Reconcile, Types, driver
  <2>2. memo' \in Hash \cup {Nothing, Unknown} /\ stale' \in BOOLEAN
    BY <1>20, VerifiedTypes DEF Reconcile, Remember, Types
  <2> QED BY <1>20, <2>1, <2>2 DEF Reconcile, Types, seen, disk
<1>21. CASE UNCHANGED vars
  BY <1>21 DEF vars, seen, disk, driver, Types
<1> QED BY <1>1, <1>2, <1>3, <1>4, <1>5, <1>6, <1>7, <1>8, <1>9, <1>10, <1>11, <1>12, <1>13,
           <1>14, <1>15, <1>16, <1>17, <1>18, <1>19, <1>20, <1>21 DEF Next, Daemon, Exchange
-----------------------------------------------------------------------------
\* What the pass knows.

\* Between two steps of the pass only what it does not rely on moves.
LEMMA OthersKeep ==
  ASSUME Types, PassKnows, TakeClaim \/ StartRun \/ EndRun \/ Damage \/ UNCHANGED vars
  PROVE  PassKnows'
<1>1. \A step : At(step)' <=> At(step)
  BY DEF TakeClaim, StartRun, EndRun, Damage, vars, At
<1>2. \A steps : AtOneOf(steps)' <=> AtOneOf(steps)
  BY <1>1 DEF AtOneOf
<1>3. UNCHANGED <<desired, memo, staged, child, todo>>
  BY DEF TakeClaim, StartRun, EndRun, Damage, vars, seen, disk, driver
<1>4. CASE Damage
  BY <1>1, <1>2, <1>3, <1>4 DEF PassKnows, Damage, driver
<1>5. CASE TakeClaim \/ StartRun \/ EndRun \/ UNCHANGED vars
  <2>1. UNCHANGED <<pointer, tree, stale>> /\ Verified' = Verified
    BY <1>5 DEF TakeClaim, StartRun, EndRun, vars, disk, Verified
  <2>2. claim' = "run" /\ AtOneOf({"fetch", "stop"}) =>
          late' \/ (claim = "run" /\ late' = late)
    <3>1. CASE StartRun
      <4>1. AtOneOf({"fetch", "stop"}) => todo # << >>
        BY DEF AtOneOf, At
      <4>2. late' = (todo # << >>)
        BY <3>1 DEF StartRun
      <4> QED BY <4>1, <4>2
    <3>2. CASE TakeClaim \/ EndRun
      BY <3>2 DEF TakeClaim, EndRun
    <3>3. CASE UNCHANGED vars
      BY <3>3 DEF vars, driver
    <3> QED BY <1>5, <3>1, <3>2, <3>3
  <2> QED BY <1>1, <1>2, <1>3, <2>1, <2>2 DEF PassKnows
<1> QED BY <1>4, <1>5

LEMMA BeginKnows ==
  ASSUME Types, PassKnows, Report \/ Answer \/ Converge
  PROVE  PassKnows'
<1>1. CASE Report
  <2>1. memo' = Verified' /\ memo' # Unknown
    BY <1>1, VerifiedTypes, DistAssumption DEF Report, Verified, disk
  <2> QED BY <1>1, <2>1, StepsGoOn DEF PassKnows, AtOneOf, GoesTo, StepName
<1>2. CASE Answer
  <2>1. memo # Unknown /\ UNCHANGED <<memo, stale>> /\ Verified' = Verified
    BY <1>2 DEF PassKnows, AtOneOf, Answer, Verified, disk
  <2> QED BY <1>2, <2>1, StepsGoOn DEF PassKnows, AtOneOf, GoesTo, StepName
<1>3. CASE Converge
  <2>1. /\ memo # Unknown /\ UNCHANGED <<desired, memo, stale, child, claim, late>>
        /\ Verified' = Verified
    BY <1>3 DEF PassKnows, AtOneOf, Converge, Verified, disk, seen, driver
  <2>2. Orderly(todo)' /\ \A step \in StepName : At(step)' => step \in {"fetch", "drop", "export"}
    BY <1>3, ConvergeGoesOn DEF GoesTo
  <2>3. At("fetch")' => /\ desired.hash # memo /\ desired.hash # Nothing
                        /\ ~(desired.named /\ claim = "run")
    BY <1>3, ConvergeGoesOn DEF Converged, RunBlocks, Types
  <2>4. At("drop")' => desired.hash = Nothing
    BY <1>3, ConvergeGoesOn
  <2>5. ~stale => memo = Verified
    BY <2>1 DEF PassKnows
  <2> QED BY <2>1, <2>2, <2>3, <2>4, <2>5 DEF PassKnows, AtOneOf, StepName
<1> QED BY <1>1, <1>2, <1>3

LEMMA SwapKnows ==
  ASSUME Types, PassKnows,
         Fetch \/ StopForSwap \/ MoveAside \/ MoveIn \/ Publish \/ Collect
  PROVE  PassKnows'
<1>0. desired.hash \in Hash /\ UNCHANGED <<desired, stale, late>>
  BY DesiredTypes DEF PassKnows, AtOneOf, Fetch, StopForSwap, StopDrivers, MoveAside, MoveIn,
                      Publish, Collect, seen
<1>1. CASE Fetch
  <2>1. UNCHANGED <<memo, child, claim>> /\ Verified' = Verified
    BY <1>1 DEF Fetch, Verified, driver
  <2>2. At("stop")' => staged' = "good"
    BY <1>1, GivenPlans DEF Fetch, Fail, At
  <2>3. At("fetch")
    BY <1>1 DEF Fetch
  <2> QED BY <1>0, <1>1, <2>1, <2>2, <2>3, StepsGoOn DEF PassKnows, AtOneOf, GoesTo, StepName
<1>2. CASE StopForSwap
  <2>1. memo' = Unknown /\ Verified' = Verified
    BY <1>2 DEF StopForSwap, StopDrivers, Verified
  <2>2. At("aside")' => staged' = staged
    BY <1>2, GivenPlans DEF StopForSwap, Fail, At
  <2>3. desired.named => child' = Nothing
    BY <1>2 DEF StopForSwap, StopDrivers
  <2>4. At("stop")
    BY <1>2 DEF StopForSwap
  <2> QED BY <1>0, <1>2, <2>1, <2>2, <2>3, <2>4, StepsGoOn
          DEF PassKnows, AtOneOf, GoesTo, StepName
<1>3. CASE MoveAside
  <2>1. memo' = Unknown /\ child' = child /\ At("aside")
    BY <1>3 DEF MoveAside, PassKnows, AtOneOf, driver
  <2>2. At("in")' => staged' = staged
    BY <1>3, GivenPlans DEF MoveAside, Fail, At
  <2> QED BY <1>0, <1>3, <2>1, <2>2, StepsGoOn DEF PassKnows, AtOneOf, GoesTo, StepName
<1>4. CASE MoveIn
  <2>1. memo' = Unknown /\ child' = child /\ At("in")
    BY <1>4 DEF MoveIn, PassKnows, AtOneOf, driver
  <2>2. At("publish")' => tree'[desired.hash] = "good"
    BY <1>0, <1>4, GivenPlans, <2>1 DEF MoveIn, Fail, At, Types, PassKnows, AtOneOf
  <2> QED BY <1>0, <1>4, <2>1, <2>2, StepsGoOn DEF PassKnows, AtOneOf, GoesTo, StepName
<1>5. CASE Publish
  <2>1. child' = child /\ tree' = tree /\ At("publish") /\ memo = Unknown
    BY <1>5 DEF Publish, PassKnows, AtOneOf, driver
  <2>2. \/ memo' = Unknown /\ ~At("gc")'
        \/ memo' = desired.hash /\ pointer' = desired.hash
    BY <1>5, GivenPlans, <2>1 DEF Publish, Fail, At
  <2>3. ~stale' /\ memo' # Unknown => memo' = Verified'
    BY <1>0, <2>1, <2>2 DEF Verified, PassKnows
  <2>4. At("gc")' => memo' = desired.hash
    BY <2>2
  <2> QED BY <1>0, <1>5, <2>1, <2>3, <2>4, StepsGoOn DEF PassKnows, AtOneOf, GoesTo, StepName
<1>6. CASE Collect
  <2>1. memo' = memo /\ pointer' = pointer /\ At("gc") /\ memo = desired.hash
    BY <1>6 DEF Collect, PassKnows
  <2>2. tree'[desired.hash] = tree[desired.hash]
    BY <1>0, <1>6 DEF Collect, Reclaim
  <2>3. ~stale => pointer = desired.hash
    BY <1>0, <2>1, DistAssumption DEF PassKnows, Verified
  <2>4. ~stale' /\ memo' # Unknown => memo' = Verified'
    BY <1>0, <2>1, <2>2, <2>3 DEF PassKnows, Verified
  <2> QED BY <1>0, <1>6, <2>4, StepsGoOn DEF PassKnows, AtOneOf, GoesTo, StepName
<1> QED BY <1>1, <1>2, <1>3, <1>4, <1>5, <1>6

LEMMA RetireKnows ==
  ASSUME Types, PassKnows, Drop \/ Unpoint \/ Clear
  PROVE  PassKnows'
<1>0. desired.hash = Nothing /\ UNCHANGED <<desired, stale>>
  BY DEF PassKnows, AtOneOf, Drop, Unpoint, Clear, seen
<1>1. CASE Drop
  BY <1>0, <1>1, StepsGoOn DEF Drop, PassKnows, AtOneOf, GoesTo, StepName
<1>2. CASE Unpoint
  <2>1. memo' = Unknown
    BY <1>2 DEF Unpoint, PassKnows, AtOneOf
  <2> QED BY <1>0, <1>2, <2>1, StepsGoOn DEF PassKnows, AtOneOf, GoesTo, StepName
<1>3. CASE Clear
  <2>1. memo' = Nothing
    BY <1>3 DEF Clear
  <2>2. \A h \in Hash : tree'[h] # "good"
    BY <1>3 DEF Clear, Reclaim
  <2>3. Verified' = Nothing
    BY <2>2 DEF Verified
  <2> QED BY <1>0, <1>3, <2>1, <2>3, StepsGoOn DEF PassKnows, AtOneOf, GoesTo, StepName
<1> QED BY <1>1, <1>2, <1>3

LEMMA RestKnows ==
  ASSUME Types, PassKnows, StartExport \/ EmptyExport \/ FillExport \/ Reconcile \/ Crash
  PROVE  PassKnows'
<1>1. UNCHANGED <<pointer, tree>> /\ Verified' = Verified
  BY DEF StartExport, EmptyExport, FillExport, Reconcile, Crash, Verified, disk
<1>2. ~stale' /\ memo' # Unknown => memo' = Verified'
  <2>1. CASE StartExport \/ Reconcile
    BY <1>1, <2>1 DEF StartExport, Reconcile, Remember, Applied, PassKnows
  <2>2. CASE EmptyExport \/ FillExport \/ Crash
    BY <1>1, <2>2 DEF EmptyExport, FillExport, Crash, PassKnows
  <2> QED BY <2>1, <2>2
<1>3. Orderly(todo)' /\ \A step \in StepName : At(step)' => step \in {"fill", "empty", "reconcile"}
  BY StepsGoOn DEF GoesTo
<1> QED BY <1>2, <1>3 DEF PassKnows, AtOneOf, StepName

LEMMA StepKnows == Types /\ PassKnows /\ [Next]_vars => PassKnows'
BY OthersKeep, BeginKnows, SwapKnows, RetireKnows, RestKnows DEF Next, Daemon, Exchange
-----------------------------------------------------------------------------
\* Theorems.

IInv == Types /\ PassKnows

LEMMA Invariance == Spec => []IInv
<1>1. Init => IInv
  BY InitTypes DEF IInv
<1>2. IInv /\ [Next]_vars => IInv'
  BY StepTypes, StepKnows DEF IInv
<1> QED BY <1>1, <1>2, PTL DEF Spec

\* Every variable keeps its type, and no claim outlives its driver, for all
\* distributions and bounds (the daemon's converge pass).
THEOREM TypeCorrect == Spec => []TypeOK
<1>1. IInv => TypeOK
  BY TypesSplit DEF IInv, PassKnows, Orderly
<1> QED BY <1>1, Invariance, PTL

\* What a pass knows at each of its steps: its memo is what verifies, a staged
\* tree is whole until it is in place, and named drivers are stopped before a
\* tree is touched (_converge_process, _apply_config_dist).
THEOREM PassIsInformed == Spec => []PassKnows
BY Invariance, PTL DEF IInv

\* A driver starts only from the desired distribution, verified
\* (_converge_process's start gate).
THEOREM DriversStartVerified == Spec => StartsVerified
<1>1. ASSUME IInv, [Next]_vars, child' \notin {child, Nothing}, ~stale'
      PROVE  child' = desired.hash /\ child' = pointer /\ tree[child'] = "good"
  <2>1. Reconcile /\ MayStart /\ child' = Applied
    BY <1>1 DEF Next, Daemon, Exchange, TakeClaim, StartRun, EndRun, Damage, Crash, Report, Answer,
                Converge, Fetch, StopForSwap, StopDrivers, MoveAside, MoveIn, Publish, Collect, Drop,
                Unpoint, Clear, StartExport, EmptyExport, FillExport, Reconcile, vars, driver
  <2>2. Applied = Verified
    BY <1>1, <2>1 DEF Reconcile, Remember, Applied, IInv, PassKnows
  <2> QED BY <2>1, <2>2 DEF MayStart, Verified
<1>2. IInv /\ [Next]_vars =>
        [child' \notin {child, Nothing} /\ ~stale' =>
           child' = desired.hash /\ child' = pointer /\ tree[child'] = "good"]_vars
  BY <1>1
<1> QED BY <1>2, Invariance, PTL DEF Spec, StartsVerified

LEMMA TreesStand ==
  ASSUME [Next]_vars, tree' # tree, Undamaged, IInv
  PROVE  MoveAside \/ MoveIn \/ Collect \/ Clear
<1>1. ~Damage
  BY DEF Damage, Spend, Undamaged, IInv, Types, Budget
<1> QED BY <1>1 DEF Next, Daemon, Exchange, TakeClaim, StartRun, EndRun, Crash, Report, Answer,
            Converge, Fetch, StopForSwap, StopDrivers, Publish, Drop, Unpoint, StartExport,
            EmptyExport, FillExport, Reconcile, vars, disk

\* The daemon spares the tree of a live driver and the Run of a live claim
\* (_apply_config_dist, _gc_config_dist, _converge_drivers).
THEOREM RunningIsSpared == Spec => RunningSpared
<1>1. ASSUME IInv, [Next]_vars, Undamaged, desired.named, child # Nothing, child' = child
      PROVE  tree'[child] = tree[child]
  <2>1. ~MoveAside /\ ~MoveIn /\ ~Collect
    BY <1>1 DEF MoveAside, MoveIn, Collect, IInv, PassKnows, AtOneOf
  <2>2. ~Clear
    BY <1>1, DesiredTypes DEF Clear, IInv, PassKnows, AtOneOf
  <2> QED BY <1>1, <2>1, <2>2, TreesStand
<1>2. ASSUME IInv, [Next]_vars, claim = "run", child' = Nothing, desired.named, todo' # << >>
      PROVE  late
  <2>1. child # Nothing
    BY <1>2 DEF IInv, Types
  <2>2. StopForSwap
    BY <1>2, <2>1 DEF Next, Daemon, Exchange, TakeClaim, StartRun, EndRun, Damage, Crash, Report,
                Answer, Converge, Fetch, MoveAside, MoveIn, Publish, Collect, Drop, Unpoint, Clear,
                StartExport, EmptyExport, FillExport, Reconcile, vars, driver
  <2> QED BY <1>2, <2>2 DEF StopForSwap, IInv, PassKnows, AtOneOf
<1>3. IInv /\ [Next]_vars =>
        [Undamaged /\ desired.named /\ child # Nothing /\ child' = child =>
           tree'[child] = tree[child]]_vars
  BY <1>1
<1>4. IInv /\ [Next]_vars =>
        [claim = "run" /\ child' = Nothing /\ desired.named /\ todo' # << >> => late]_vars
  BY <1>2
<1> QED BY <1>3, <1>4, Invariance, PTL DEF Spec, RunningSpared, NeverBeneath, SwapWaits

\* A whole applied tree gives way only to a whole one, whatever fails and
\* wherever the daemon dies (_exchange_config_dist_tree).
THEOREM OldGivesWayToNew == Spec => OldOrNew
<1>1. ASSUME IInv, [Next]_vars, Undamaged, ~stale, desired.hash # Nothing, Verified # Nothing
      PROVE  Verified' # Nothing
  <2>0. /\ pointer = Verified /\ Verified \in Hash /\ tree[pointer] = "good"
        /\ desired.hash \in Hash /\ \A h \in Hash : h # Nothing
    BY <1>1, DesiredTypes, DistAssumption DEF Verified, IInv
  <2>1. CASE MoveAside
    BY <1>1, <2>0, <2>1 DEF MoveAside, Verified, IInv, PassKnows, AtOneOf, Types
  <2>2. CASE MoveIn
    BY <1>1, <2>0, <2>2 DEF MoveIn, Verified, IInv, PassKnows, AtOneOf, Types
  <2>3. CASE Collect
    <3>1. desired.hash = Verified /\ pointer' = pointer
      BY <1>1, <2>0, <2>3, DistAssumption DEF Collect, IInv, PassKnows
    <3>2. tree'[desired.hash] = tree[desired.hash]
      BY <2>0, <2>3 DEF Collect, Reclaim
    <3> QED BY <2>0, <3>1, <3>2 DEF Verified
  <2>4. CASE Publish
    BY <1>1, <2>0, <2>4 DEF Publish, Verified, IInv, PassKnows
  <2>5. CASE ~(MoveAside \/ MoveIn \/ Collect \/ Publish)
    <3>1. ~Clear /\ ~Unpoint
      BY <1>1 DEF Clear, Unpoint, IInv, PassKnows, AtOneOf
    <3>2. tree' = tree
      BY <1>1, <2>5, <3>1, TreesStand
    <3>3. ~Damage
      BY <1>1 DEF Damage, Spend, Undamaged, IInv, Types, Budget
    <3>4. pointer' = pointer
      BY <1>1, <2>5, <3>1, <3>3 DEF Next, Daemon, Exchange, TakeClaim, StartRun, EndRun, Crash,
            Report, Answer, Converge, Fetch, StopForSwap, StopDrivers, Drop, StartExport,
            EmptyExport, FillExport, Reconcile, vars, disk
    <3> QED BY <2>0, <3>2, <3>4 DEF Verified
  <2> QED BY <2>1, <2>2, <2>3, <2>4, <2>5
<1>2. IInv /\ [Next]_vars =>
        [Undamaged /\ ~stale /\ desired.hash # Nothing /\ Verified # Nothing =>
           Verified' # Nothing]_vars
  BY <1>1
<1> QED BY <1>2, Invariance, PTL DEF Spec, OldOrNew
=============================================================================
