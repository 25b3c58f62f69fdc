-------------------------- MODULE NodeCommands_proofs --------------------------
(***************************************************************************)
(* Proofs about the command queue of a node, for all Stacks, menus, pins   *)
(* and bounds: the operator's last word on a Stack stands, a Run is killed *)
(* only by what was asked for after its gate was read, and the ladders     *)
(* climb in their order.                                                   *)
(***************************************************************************)
EXTENDS NodeCommands, TLAPS, FiniteSetTheorems

-----------------------------------------------------------------------------
\* The order of the ids.

\* A nonempty set of ids has a first one.
LEMMA FirstIsLeast ==
    ASSUME NEW S \in SUBSET Nat, S # {}
    PROVE  FirstOf(S) \in S /\ \A x \in S : FirstOf(S) <= x
<1> DEFINE upto == {0 .. n : n \in S}
           below == StrictSubsetOrdering(Nat)
<1>1. upto \subseteq FiniteSubsetsOf(Nat)
  <2>1. ASSUME NEW n \in S  PROVE 0 .. n \in FiniteSubsetsOf(Nat)
    BY FS_Interval DEF FiniteSubsetsOf
  <2>2. QED BY <2>1
<1>2. upto # {}
  OBVIOUS
<1>3. PICK A \in upto : \A B \in upto : <<B, A>> \notin below
  BY <1>1, <1>2, FS_StrictSubsetOrderingWellFounded, WFMin
<1>4. PICK m \in S : A = 0 .. m
  OBVIOUS
<1>5. ASSUME NEW x \in S, x < m  PROVE FALSE
  <2>1. 0 .. x \in upto /\ 0 .. x \subseteq 0 .. m /\ 0 .. x # 0 .. m
    <3>1. m \in 0 .. m /\ m \notin 0 .. x
      BY <1>5
    <3>2. \A k \in 0 .. x : k \in 0 .. m
      BY <1>5
    <3>3. 0 .. x \in upto
      OBVIOUS
    <3> QED BY <3>1, <3>2, <3>3
  <2>2. <<0 .. x, A>> \in below
    BY <2>1, <1>4 DEF StrictSubsetOrdering
  <2> QED BY <2>1, <2>2, <1>3
<1>6. \E x \in S : \A y \in S : x <= y
  BY <1>5
<1> QED BY <1>6 DEF FirstOf

\* The command at hand is the first of those left.
LEMMA IdIsFirst ==
    ASSUME TypeOK, todo # {}
    PROVE  /\ Id \in todo /\ Id \in DOMAIN queue /\ Id \in Nat \ {0}
           /\ \A id \in todo : Id <= id
<1>1. todo \subseteq DOMAIN queue /\ DOMAIN queue = 1 .. Len(queue) /\ Len(queue) \in Nat
  BY DEF TypeOK
<1>2. todo \in SUBSET Nat
  BY <1>1
<1> QED BY <1>1, <1>2, FirstIsLeast DEF Id

-----------------------------------------------------------------------------
\* The type invariant.

\* A longer queue keeps the commands it had.
LEMMA AppendKeeps ==
    ASSUME NEW q \in Seq(Command), NEW c \in Command
    PROVE  /\ Append(q, c) \in Seq(Command)
           /\ DOMAIN q = 1 .. Len(q) /\ Len(q) \in Nat
           /\ DOMAIN Append(q, c) = 1 .. (Len(q) + 1)
           /\ Len(Append(q, c)) = Len(q) + 1
           /\ DOMAIN q \subseteq DOMAIN Append(q, c)
           /\ \A id \in DOMAIN q : Append(q, c)[id] = q[id]
           /\ Append(q, c)[Len(q) + 1] = c
  OBVIOUS

\* Children that are stopped, and the Runs they leave, are of their types.
LEMMA KillType ==
    ASSUME TypeOK, NEW names, Kill(names)
    PROVE  alive' \in [Stack -> BOOLEAN]
           /\ run' \in [Stack -> Unseen \cup {"none", "running", "orphan"}]
BY DEF TypeOK, Kill, Stopped, RunsLeft, Unseen

\* So is a new daemon process.
LEMMA RebornType ==
    ASSUME TypeOK, Reborn
    PROVE  /\ alive' \in [Stack -> BOOLEAN]
           /\ run' \in [Stack -> Unseen \cup {"none", "running", "orphan"}]
           /\ drained' \subseteq Stack /\ blocker' \in [Aspect -> BOOLEAN]
           /\ pc' = "beat" /\ todo' = {} /\ nudged' = FALSE /\ attempted' = FALSE
           /\ tried' \in [Aspect -> BOOLEAN] /\ renewed' \in [Aspect -> BOOLEAN]
BY KillType DEF TypeOK, Reborn

\* What is left of a bound is a number, whoever spends it.
LEMMA BoundsType ==
    ASSUME TypeOK
    PROVE  /\ \A b \in Budget : Spend(b) =>
                left' \in [Budget -> Nat] /\ faults' = faults
           /\ \A f \in Fault : Suffer(f) => faults' \subseteq Fault /\ left' = left
BY DEF TypeOK, Spend, Suffer

\* Requests for work, grants and Runs leave all else alone.
LEMMA RunsFrame ==
    ASSUME NEW s \in Stack, Driver(s) \/ Dispatch(s)
    PROVE  UNCHANGED <<store, disk, memory, alive, tried, ladder, faults>>
BY DEF Driver, StartRun, EndRun, BootSweep, Dispatch, AskWork, CheckVersions,
       CheckQueue, Grant, Clear, Spend, history, bounds

\* They leave requests, grants and Runs behind, and what dispatch read of them.
LEMMA RunsType ==
    ASSUME TypeOK, NEW s \in Stack, Driver(s) \/ Dispatch(s)
    PROVE  /\ run' \in [Stack -> Unseen \cup {"none", "running", "orphan"}]
           /\ ticket' \in [Stack -> Grants]
           /\ left' \in [Budget -> Nat]
<1>1. /\ Blank \in Grants /\ Len(queue) \in Nat
      /\ desired \in [Aspect -> Version]
  BY NodeAssumption DEF Blank, Grants, TypeOK
<1>2. ASSUME Clear(s), UNCHANGED bounds
      PROVE  /\ run' \in [Stack -> Unseen \cup {"none", "running", "orphan"}]
             /\ ticket' \in [Stack -> Grants] /\ left' \in [Budget -> Nat]
  BY <1>1, <1>2 DEF TypeOK, Clear, bounds
<1>3. /\ \A stale \in [Aspect -> BOOLEAN] :
           [ticket EXCEPT ![s].stale = stale] \in [Stack -> Grants]
      /\ \A n \in Nat : [ticket EXCEPT ![s].queued = n] \in [Stack -> Grants]
      /\ \A pins \in [Aspect -> Version] :
           [ticket EXCEPT ![s].pins = pins] \in [Stack -> Grants]
  <2>1. PICK g \in Grants : g = ticket[s]
    BY DEF TypeOK
  <2>2. \A stale \in [Aspect -> BOOLEAN] : [g EXCEPT !.stale = stale] \in Grants
    BY DEF Grants
  <2>3. \A n \in Nat : [g EXCEPT !.queued = n] \in Grants
    BY DEF Grants
  <2>4. \A pins \in [Aspect -> Version] : [g EXCEPT !.pins = pins] \in Grants
    BY DEF Grants
  <2> QED BY <2>1, <2>2, <2>3, <2>4 DEF TypeOK
<1>4. \A at \in Unseen \cup {"running"} :
        [run EXCEPT ![s] = at] \in [Stack -> Unseen \cup {"none", "running", "orphan"}]
  BY DEF TypeOK
<1>5. ticket \in [Stack -> Grants] /\ left \in [Budget -> Nat]
  BY DEF TypeOK
<1>6. CASE AskWork(s)
  <2>1. left' \in [Budget -> Nat]
    BY <1>6, BoundsType DEF AskWork, Budget
  <2> QED BY <1>1, <1>3, <1>4, <1>6, <2>1 DEF AskWork, Unseen
<1>7. CASE CheckVersions(s)
  <2>1. CASE reported = ticket[s].pins
    <3>1. /\ run' = [run EXCEPT ![s] = "matched"] /\ left' = left
          /\ ticket' = [ticket EXCEPT ![s].stale =
                          [a \in Aspect |-> reported[a] # applied[a]]]
      BY <1>7, <2>1 DEF CheckVersions, bounds
    <3>2. "matched" \in Unseen
      BY DEF Unseen
    <3>3. [a \in Aspect |-> reported[a] # applied[a]] \in [Aspect -> BOOLEAN]
      OBVIOUS
    <3> QED BY <1>3, <1>4, <1>5, <3>1, <3>2, <3>3
  <2>2. CASE reported # ticket[s].pins
    BY <1>2, <1>7, <2>2 DEF CheckVersions
  <2> QED BY <2>1, <2>2
<1>8. CASE CheckQueue(s)
  <2>1. CASE QueueClear
    BY <1>1, <1>3, <1>4, <1>5, <1>8, <2>1 DEF CheckQueue, Unseen, bounds
  <2>2. CASE ~QueueClear
    BY <1>2, <1>8, <2>2 DEF CheckQueue
  <2> QED BY <2>1, <2>2
<1>9. CASE Grant(s)
  <2>1. CASE Clear(s)
    BY <1>2, <1>9, <2>1 DEF Grant
  <2>2. CASE run' = [run EXCEPT ![s] = "granted"] /\ UNCHANGED ticket
    BY <1>4, <1>5, <1>9, <2>2 DEF Grant, Unseen, bounds
  <2> QED BY <1>9, <2>1, <2>2 DEF Grant
<1>10. CASE Driver(s)
  <2>1. CASE StartRun(s)
    BY <1>4, <1>5, <2>1 DEF StartRun, history, bounds
  <2>2. CASE EndRun(s) \/ BootSweep(s)
    BY <1>2, <2>2 DEF EndRun, BootSweep
  <2> QED BY <1>10, <2>1, <2>2 DEF Driver
<1> QED BY <1>6, <1>7, <1>8, <1>9, <1>10 DEF Dispatch

\* The handler of a heartbeat, whoever hears its answer.
LEMMA HandleType ==
    ASSUME TypeOK, Handle
    PROVE  /\ queue' \in Seq(Command) /\ DOMAIN queue \subseteq DOMAIN queue'
           /\ done' \subseteq DOMAIN queue'
           /\ desired' \in [Aspect -> Version]
           /\ reported' \in [Aspect -> Version \cup {None}]
           /\ health' \in [Aspect -> Health]
           /\ renewed' \in [Aspect -> BOOLEAN]
<1>1. Restart \in Command
  BY DEF Restart, Command, Verb
<1>2. queue' \in Seq(Command) /\ DOMAIN queue \subseteq DOMAIN queue'
  BY <1>1, AppendKeeps DEF TypeOK, Handle
<1>3. ASSUME NEW a \in Aspect  PROVE Climbed(a) \in Health
  <2>1. OffpinBeats \in Nat \ {0} /\ health[a] \in Health
    BY NodeAssumption DEF TypeOK
  <2>2. Counted(a) \in Health
    BY <2>1 DEF Counted, Fresh, Health
  <2>3. RestartDue(a) \in BOOLEAN /\ EscalationDue(a) \in BOOLEAN
    BY DEF RestartDue, EscalationDue
  <2>4. PICK h \in Health : h = Counted(a)
    BY <2>2
  <2>5. Climbed(a) = [h EXCEPT !.restarted = @ \/ RestartDue(a),
                               !.escalated = @ \/ EscalationDue(a)]
    BY <2>4 DEF Climbed
  <2> QED BY <2>3, <2>5 DEF Health
<1> QED BY <1>2, <1>3 DEF TypeOK, Handle

\* The nudge lasts from its command to the end of its attempt.
NudgeIsShort == nudged => pc \in {"product", "install"}

TypeInvariant == TypeOK /\ NudgeIsShort

\* Every step keeps the types, action by action.
LEMMA TypeStep == TypeInvariant /\ [Next]_vars => TypeInvariant'
<1> SUFFICES ASSUME TypeOK, NudgeIsShort, [Next]_vars
             PROVE  TypeOK' /\ NudgeIsShort'
  BY DEF TypeInvariant
<1> USE NodeAssumption
<1> USE DEF store, disk, memory, children, history, ladder, bounds
<1>1. ASSUME NEW c \in Menu, QueueCommand(c)  PROVE TypeOK' /\ NudgeIsShort'
  <2>1. c \in Command /\ "command" \in Budget
    BY DEF Budget
  <2>2. left' \in [Budget -> Nat] /\ faults' = faults
    BY <1>1, <2>1, BoundsType DEF QueueCommand
  <2>3. queue' \in Seq(Command) /\ DOMAIN queue \subseteq DOMAIN queue'
    BY <1>1, <2>1, AppendKeeps DEF TypeOK, NudgeIsShort, QueueCommand
  <2> QED BY <1>1, <2>2, <2>3 DEF TypeOK, NudgeIsShort, QueueCommand
<1>2. ASSUME NEW a \in Aspect, NEW v \in Version, Repin(a, v)  PROVE TypeOK' /\ NudgeIsShort'
  <2>1. left' \in [Budget -> Nat] /\ faults' = faults
    BY <1>2, BoundsType DEF Repin, Budget
  <2> QED BY <1>2, <2>1 DEF TypeOK, NudgeIsShort, Repin
<1>3. ASSUME NEW v \in Version, ProductUpdate(v)  PROVE TypeOK' /\ NudgeIsShort'
  <2>1. [verb |-> "update", names |-> Stack, force |-> FALSE] \in Command
    BY DEF Command, Verb
  <2>2. queue' \in Seq(Command) /\ DOMAIN queue \subseteq DOMAIN queue'
    BY <1>3, <2>1, AppendKeeps DEF TypeOK, NudgeIsShort, ProductUpdate
  <2>3. left' \in [Budget -> Nat]
    BY <1>3 DEF TypeOK, NudgeIsShort, ProductUpdate, Budget
  <2>4. desired' \in [Aspect -> Version]
    BY <1>3 DEF TypeOK, NudgeIsShort, ProductUpdate
  <2> QED BY <1>3, <2>2, <2>3, <2>4 DEF TypeOK, NudgeIsShort, ProductUpdate
<1>4. ASSUME NEW s \in Stack, Driver(s) \/ Dispatch(s)  PROVE TypeOK' /\ NudgeIsShort'
  BY <1>4, RunsFrame, RunsType DEF TypeOK, NudgeIsShort
<1>5. CASE BeatAnswered
  <2>1. done' \subseteq DOMAIN queue' /\ todo' \subseteq DOMAIN queue'
    BY <1>5, HandleType DEF BeatAnswered
  <2>2. tried' \in [Aspect -> BOOLEAN] /\ cache' \in [Aspect -> Version]
    BY <1>5 DEF TypeOK, NudgeIsShort, BeatAnswered, Handle
  <2> QED BY <1>5, <2>1, <2>2, HandleType DEF TypeOK, NudgeIsShort, BeatAnswered, NewPass
<1>6. CASE AnswerLost
  <2>1. faults' \subseteq Fault /\ left' = left
    BY <1>6, BoundsType DEF AnswerLost, Fault
  <2> QED BY <1>6, <2>1, HandleType DEF TypeOK, NudgeIsShort, AnswerLost, NewPass
<1>7. CASE BeatUnreached
  <2>1. faults' \subseteq Fault /\ left' = left
    BY <1>7, BoundsType DEF BeatUnreached, Fault
  <2> QED BY <1>7, <2>1 DEF TypeOK, NudgeIsShort, BeatUnreached, NewPass
<1>8. CASE Defer \/ Accept \/ CommandsOver
  <2>1. CASE Defer
    BY <2>1 DEF TypeOK, NudgeIsShort, Defer
  <2>2. CASE Accept
    BY <2>2 DEF TypeOK, NudgeIsShort, Accept
  <2>3. CASE CommandsOver
    BY <2>3 DEF TypeOK, NudgeIsShort, CommandsOver
  <2> QED BY <1>8, <2>1, <2>2, <2>3
<1>9. CASE DrainOrRecycle
  <2>1. Current.names \subseteq Stack
    <3>1. todo # {}
      BY <1>9 DEF TypeOK, DrainOrRecycle
    <3>2. queue[Id] \in Command
      BY <3>1, IdIsFirst, AppendKeeps DEF TypeOK
    <3> QED BY <3>2 DEF Current, Command
  <2>2. drained' \subseteq Stack
    BY <1>9, <2>1 DEF TypeOK, NudgeIsShort, DrainOrRecycle, After
  <2>3. /\ alive' \in [Stack -> BOOLEAN]
        /\ run' \in [Stack -> Unseen \cup {"none", "running", "orphan"}]
    BY <1>9, KillType DEF DrainOrRecycle
  <2> QED BY <1>9, <2>2, <2>3 DEF TypeOK, NudgeIsShort, DrainOrRecycle
<1>10. CASE SaveDrained
  BY <1>10 DEF TypeOK, NudgeIsShort, SaveDrained
<1>11. CASE AckCommand
  <2>1. acks' \subseteq DOMAIN queue
    BY <1>11, IdIsFirst DEF TypeOK, AckCommand, Ack
  <2> QED BY <1>11, <2>1 DEF TypeOK, NudgeIsShort, AckCommand, NextCommand
<1>12. ASSUME NEW before \in SUBSET Stack, NEW s \in Stack, TeardownFails(before, s)
      PROVE  TypeOK' /\ NudgeIsShort'
  <2>1. faults' \subseteq Fault /\ left' = left
    BY <1>12, BoundsType DEF TeardownFails, Fault
  <2>2. drained' \subseteq Stack
    BY <1>12 DEF TypeOK, NudgeIsShort, TeardownFails, After
  <2>3. /\ alive' \in [Stack -> BOOLEAN]
        /\ run' \in [Stack -> Unseen \cup {"none", "running", "orphan"}]
    BY <1>12, KillType DEF TeardownFails
  <2> QED BY <1>12, <2>1, <2>2, <2>3 DEF TypeOK, NudgeIsShort, TeardownFails, NextCommand
<1>13. CASE Nudge
  BY <1>13, IdIsFirst DEF TypeOK, NudgeIsShort, Nudge, Ack
<1>14. CASE RestartDaemon
  <2>1. acks' \subseteq DOMAIN queue
    BY <1>14, IdIsFirst DEF TypeOK, NudgeIsShort, RestartDaemon, Ack
  <2> QED BY <1>14, <2>1, RebornType DEF TypeOK, NudgeIsShort, RestartDaemon
<1>15. CASE Crash
  <2>1. faults' \subseteq Fault /\ left' = left
    BY <1>15, BoundsType DEF Crash, Fault
  <2> QED BY <1>15, <2>1, RebornType DEF TypeOK, NudgeIsShort, Crash
<1>16. CASE ProductRests \/ ProductDefers
  <2>1. blocker' \in [Aspect -> BOOLEAN] /\ tried' \in [Aspect -> BOOLEAN]
    BY <1>16 DEF TypeOK, NudgeIsShort, ProductRests, ProductDefers
  <2> QED BY <1>16, <2>1 DEF TypeOK, NudgeIsShort, ProductRests, ProductDefers, Onward
<1>17. CASE ProductAttempt
  BY <1>17 DEF TypeOK, NudgeIsShort, ProductAttempt
<1>18. CASE Install
  <2>1. applied' \in [Aspect -> Version \cup {None}]
    BY <1>18 DEF TypeOK, NudgeIsShort, Install
  <2> QED BY <1>18, <2>1, RebornType DEF TypeOK, NudgeIsShort, Install
<1>19. ASSUME NEW stopped \in BOOLEAN, InstallFails(stopped)  PROVE TypeOK' /\ NudgeIsShort'
  <2>1. left' \in [Budget -> Nat] /\ faults' = faults
    BY <1>19, BoundsType DEF InstallFails, Budget
  <2>2. /\ alive' \in [Stack -> BOOLEAN]
        /\ run' \in [Stack -> Unseen \cup {"none", "running", "orphan"}]
    BY <1>19, KillType DEF TypeOK, NudgeIsShort, InstallFails
  <2> QED BY <1>19, <2>1, <2>2 DEF TypeOK, NudgeIsShort, InstallFails, Onward
<1>20. CASE DriversRest \/ DriversDefer \/ DriversAttempt
  <2>1. CASE DriversRest
    BY <2>1 DEF TypeOK, NudgeIsShort, DriversRest
  <2>2. CASE DriversDefer
    BY <2>2 DEF TypeOK, NudgeIsShort, DriversDefer
  <2>3. CASE DriversAttempt
    BY <2>3 DEF TypeOK, NudgeIsShort, DriversAttempt
  <2> QED BY <1>20, <2>1, <2>2, <2>3
<1>21. CASE Swap
  <2>1. applied' \in [Aspect -> Version \cup {None}]
    BY <1>21 DEF TypeOK, NudgeIsShort, Swap
  <2> QED BY <1>21, <2>1, KillType DEF TypeOK, NudgeIsShort, Swap
<1>22. ASSUME NEW stopped \in BOOLEAN, SwapFails(stopped)  PROVE TypeOK' /\ NudgeIsShort'
  <2>1. left' \in [Budget -> Nat] /\ faults' = faults
    BY <1>22, BoundsType DEF SwapFails, Budget
  <2>2. applied' \in [Aspect -> Version \cup {None}]
    BY <1>22 DEF TypeOK, NudgeIsShort, SwapFails
  <2>3. /\ alive' \in [Stack -> BOOLEAN]
        /\ run' \in [Stack -> Unseen \cup {"none", "running", "orphan"}]
    BY <1>22, KillType DEF TypeOK, NudgeIsShort, SwapFails
  <2> QED BY <1>22, <2>1, <2>2, <2>3 DEF TypeOK, NudgeIsShort, SwapFails
<1>23. CASE Reconcile
  BY <1>23 DEF TypeOK, NudgeIsShort, Reconcile, RunsLeft, MayStart, Unseen
<1>24. CASE UNCHANGED vars
  BY <1>24 DEF TypeOK, NudgeIsShort, vars
<1> QED BY <1>1, <1>2, <1>3, <1>4, <1>5, <1>6, <1>7, <1>8, <1>9,
      <1>10, <1>11, <1>12, <1>13, <1>14, <1>15, <1>16, <1>17, <1>18, <1>19,
      <1>20, <1>21, <1>22, <1>23, <1>24 DEF Next, Daemon, Operator

\* It holds at the start: nothing is queued.
LEMMA InitTypes == Init => TypeInvariant
<1> SUFFICES ASSUME Init  PROVE TypeOK
  BY DEF TypeInvariant, NudgeIsShort, Init
<1>1. left \in [Budget -> Nat]
  BY NodeAssumption DEF Init, Budget
<1>2. health \in [Aspect -> Health]
  BY NodeAssumption DEF Init, Health, Fresh
<1>3. ticket \in [Stack -> Grants]
  BY NodeAssumption DEF Init, Blank, Grants
<1>4. /\ queue \in Seq(Command) /\ done \subseteq DOMAIN queue
      /\ acks \subseteq DOMAIN queue /\ todo \subseteq DOMAIN queue
  BY DEF Init
<1> QED BY <1>1, <1>2, <1>3, <1>4, NodeAssumption DEF Init, TypeOK

\* Every reachable state has the declared types: commands, acknowledgements
\* and the pass refer to the same queue.
THEOREM TypeCorrect == Spec => []TypeOK
BY InitTypes, TypeStep, PTL DEF Spec, TypeInvariant

-----------------------------------------------------------------------------
\* The order in which commands are acknowledged.

\* What the node has acknowledged, whether or not Control has heard it.
Told == done \cup acks

\* The walk holds what is not acknowledged, but for a nudge at work; and, when
\* no teardown failed, whatever is acknowledged or left to the walk comes
\* after commands that are.
OrderInvariant ==
    /\ todo \cap done = {}
    /\ todo \cap acks = IF nudged THEN {Id} ELSE {}
    /\ pc \in {"beat", "drivers", "swap", "reconcile"} => todo = {}
    /\ pc \in {"product", "install"} /\ ~nudged => todo = {}
    /\ "teardown" \notin faults =>
         /\ \A i \in Told : \A j \in 1 .. i : j \in Told
         /\ \A i \in todo : \A j \in 1 .. i : j \in Told \cup todo

\* The command at hand is not acknowledged, and those before it are.
LEMMA IdIsNext ==
    ASSUME TypeInvariant, OrderInvariant, todo # {}, ~nudged
    PROVE  /\ Id \notin Told
           /\ "teardown" \notin faults =>
                /\ \A j \in 1 .. Id : j = Id \/ j \in Told
                /\ \A i \in Told : i < Id
<1>1. /\ Id \in todo /\ Id \in Nat \ {0}
      /\ \A id \in todo : Id <= id
      /\ todo \subseteq Nat /\ Told \subseteq Nat
  <2>1. DOMAIN queue \subseteq Nat
    BY AppendKeeps DEF TypeInvariant, TypeOK
  <2> QED BY <2>1, IdIsFirst DEF TypeInvariant, TypeOK, Told
<1>2. Id \notin Told
  BY <1>1 DEF OrderInvariant, Told
<1>3. ASSUME "teardown" \notin faults  PROVE \A j \in 1 .. Id : j = Id \/ j \in Told
  BY <1>1, <1>3 DEF OrderInvariant
<1>4. ASSUME "teardown" \notin faults, NEW i \in Told, ~(i < Id)  PROVE FALSE
  <2>1. Id \in 1 .. i
    BY <1>1, <1>4
  <2> QED BY <1>2, <1>4, <2>1 DEF OrderInvariant
<1> QED BY <1>1, <1>2, <1>3, <1>4

\* A walk that loses nothing but its first command, once acknowledged, keeps
\* the order.
LEMMA AckKeepsOrder ==
    ASSUME TypeInvariant, OrderInvariant, todo # {}, ~nudged,
           done' = done, acks' = acks \cup {Id}, faults' = faults,
           \/ todo' = {} /\ nudged' = FALSE
           \/ todo' = todo \ {Id} /\ nudged' = FALSE
           \/ todo' = todo /\ nudged' = TRUE,
           pc' \in {"beat", "drivers", "swap", "reconcile"} => todo' = {},
           pc' \in {"product", "install"} /\ ~nudged' => todo' = {}
    PROVE  OrderInvariant'
<1>1. Id \in todo /\ Id \in Nat
  BY IdIsFirst DEF TypeInvariant
<1>2. todo \cap acks = {} /\ todo \cap done = {}
  BY DEF OrderInvariant
<1>3. todo' \cap done' = {}
  BY <1>2
<1>4. todo' \cap acks' = IF nudged' THEN {Id'} ELSE {}
  <2>1. CASE todo' = todo /\ nudged' = TRUE
    BY <1>1, <1>2, <2>1 DEF Id
  <2> QED BY <1>2, <2>1
<1>5. ASSUME "teardown" \notin faults'
      PROVE  /\ \A i \in Told' : \A j \in 1 .. i : j \in Told'
             /\ \A i \in todo' : \A j \in 1 .. i : j \in Told' \cup todo'
  <2>1. Told' = Told \cup {Id}
    BY DEF Told
  <2>2. \A j \in 1 .. Id : j = Id \/ j \in Told
    BY <1>5, IdIsNext
  <2>3. \A i \in Told : \A j \in 1 .. i : j \in Told
    BY <1>5 DEF OrderInvariant
  <2>4. \A i \in todo : \A j \in 1 .. i : j \in Told \cup todo
    BY <1>5 DEF OrderInvariant
  <2> QED BY <2>1, <2>2, <2>3, <2>4
<1> QED BY <1>3, <1>4, <1>5 DEF OrderInvariant

\* So does one that is given up, or goes on as it is.
LEMMA WalkKeepsOrder ==
    ASSUME OrderInvariant,
           done' = done, acks' = acks, "teardown" \in faults => "teardown" \in faults',
           \/ todo' = {} /\ nudged' = FALSE
           \/ todo' = todo /\ nudged' = nudged,
           pc' \in {"beat", "drivers", "swap", "reconcile"} => todo' = {},
           pc' \in {"product", "install"} /\ ~nudged' => todo' = {}
    PROVE  OrderInvariant'
<1>1. Told' = Told
  BY DEF Told
<1>2. todo' = todo => Id' = Id
  BY DEF Id
<1>3. CASE todo' = {} /\ nudged' = FALSE
  BY <1>1, <1>3 DEF OrderInvariant
<1>4. CASE todo' = todo /\ nudged' = nudged
  BY <1>1, <1>2, <1>4 DEF OrderInvariant
<1> QED BY <1>3, <1>4

\* A nudge that is over leaves the walk.
LEMMA OnwardKeepsOrder ==
    ASSUME TypeInvariant, OrderInvariant, Onward, pc \in {"product", "install"},
           done' = done, acks' = acks, faults' = faults
    PROVE  OrderInvariant'
<1>1. Told' = Told
  BY DEF Told
<1>2. CASE nudged
  <2>1. todo' = todo \ {Id} /\ nudged' = FALSE /\ pc' = "commands"
    BY <1>2 DEF Onward
  <2>2. Id \in acks /\ Id \in Told
    BY <1>2 DEF OrderInvariant, Told
  <2> QED BY <1>1, <1>2, <2>1, <2>2 DEF OrderInvariant
<1>3. CASE ~nudged
  <2>1. todo' = todo /\ nudged' = nudged /\ pc' = "drivers" /\ todo = {}
    BY <1>3 DEF Onward, OrderInvariant
  <2> QED BY <2>1, WalkKeepsOrder
<1> QED BY <1>2, <1>3

\* Every step keeps the order: commands are acknowledged, and left before the
\* walk, in the order of their ids.
LEMMA OrderStep ==
    TypeInvariant /\ OrderInvariant /\ [Next]_vars => OrderInvariant'
<1> SUFFICES ASSUME TypeInvariant, OrderInvariant, [Next]_vars
             PROVE  OrderInvariant'
  OBVIOUS
<1>a. /\ nudged => pc \in {"product", "install"}
      /\ pc \in {"act", "save", "ack"} => todo # {}
      /\ nudged \in BOOLEAN /\ todo \subseteq DOMAIN queue
  BY DEF TypeInvariant, TypeOK, NudgeIsShort
<1>b. /\ pc \in {"beat", "drivers", "swap", "reconcile"} => todo = {}
      /\ pc \in {"product", "install"} /\ ~nudged => todo = {}
  BY DEF OrderInvariant
<1> USE DEF store, disk, memory, children, history, ladder, bounds
<1>1. CASE Operator
  BY <1>1, <1>a, <1>b, WalkKeepsOrder
     DEF Operator, QueueCommand, Repin, ProductUpdate, Spend
<1>2. ASSUME NEW s \in Stack, Driver(s) \/ Dispatch(s)  PROVE OrderInvariant'
  BY <1>2, <1>a, <1>b, RunsFrame, WalkKeepsOrder
<1>3. CASE BeatAnswered
  <2>1. /\ done' = Told /\ acks' = {} /\ Told' = Told /\ nudged' = FALSE
        /\ todo' = (DOMAIN queue') \ done' /\ faults' = faults
        /\ pc' = "commands"
    BY <1>3 DEF BeatAnswered, Handle, NewPass, Told
  <2>2. queue' \in Seq(Command) /\ DOMAIN queue' = 1 .. Len(queue') /\ Len(queue') \in Nat
    BY <1>3, HandleType, AppendKeeps DEF BeatAnswered, TypeInvariant
  <2>3. \A i \in todo' : \A j \in 1 .. i : j \in Told' \cup todo'
    BY <2>1, <2>2
  <2> QED BY <2>1, <2>3 DEF OrderInvariant
<1>4. CASE AnswerLost
  <2>1. /\ done' = Told /\ acks' = acks /\ Told' = Told /\ nudged' = FALSE
        /\ todo' = {} /\ pc' = "commands" /\ faults' = faults \cup {"lost"}
    BY <1>4 DEF AnswerLost, Handle, NewPass, Told, Suffer
  <2> QED BY <2>1 DEF OrderInvariant
<1>5. CASE BeatUnreached
  BY <1>5, WalkKeepsOrder DEF BeatUnreached, NewPass, Suffer
<1>6. CASE Defer \/ Accept \/ CommandsOver
  BY <1>6, <1>a, <1>b, WalkKeepsOrder DEF Defer, Accept, CommandsOver
<1>7. CASE DrainOrRecycle \/ SaveDrained
  BY <1>7, <1>a, <1>b, WalkKeepsOrder DEF DrainOrRecycle, SaveDrained
<1>8. CASE AckCommand
  BY <1>8, <1>a, <1>b, AckKeepsOrder DEF AckCommand, Ack, NextCommand
<1>9. CASE Nudge
  BY <1>9, <1>a, <1>b, AckKeepsOrder DEF Nudge, Ack
<1>10. CASE RestartDaemon
  BY <1>10, <1>a, <1>b, AckKeepsOrder DEF RestartDaemon, Ack, Reborn
<1>11. ASSUME NEW before \in SUBSET Stack, NEW s \in Stack, TeardownFails(before, s)
       PROVE  OrderInvariant'
  <2>1. /\ done' = done /\ acks' = acks /\ todo' = todo \ {Id}
        /\ pc' = "commands" /\ nudged' = nudged /\ ~nudged
        /\ "teardown" \in faults'
    BY <1>11, <1>a DEF TeardownFails, NextCommand, Suffer
  <2> QED BY <2>1 DEF OrderInvariant
<1>12. CASE Crash \/ Install
  BY <1>12, WalkKeepsOrder DEF Crash, Install, Reborn, Suffer
<1>13. CASE ProductRests \/ ProductDefers
  BY <1>13, OnwardKeepsOrder DEF ProductRests, ProductDefers
<1>14. CASE ProductAttempt
  BY <1>14, <1>b, WalkKeepsOrder DEF ProductAttempt
<1>15. ASSUME NEW stopped \in BOOLEAN, InstallFails(stopped)  PROVE OrderInvariant'
  BY <1>15, OnwardKeepsOrder DEF InstallFails, Spend
<1>16. CASE DriversRest \/ DriversDefer \/ DriversAttempt
  BY <1>16, <1>a, <1>b, WalkKeepsOrder DEF DriversRest, DriversDefer, DriversAttempt
<1>17. CASE Swap \/ Reconcile
  BY <1>17, <1>a, <1>b, WalkKeepsOrder DEF Swap, Reconcile
<1>18. ASSUME NEW stopped \in BOOLEAN, SwapFails(stopped)  PROVE OrderInvariant'
  BY <1>18, <1>a, <1>b, WalkKeepsOrder DEF SwapFails, Spend
<1>19. CASE UNCHANGED vars
  BY <1>19, <1>a, <1>b, WalkKeepsOrder DEF vars
<1> QED BY <1>1, <1>2, <1>3, <1>4, <1>5, <1>6, <1>7, <1>8, <1>9, <1>10, <1>11,
          <1>12, <1>13, <1>14, <1>15, <1>16, <1>17, <1>18, <1>19 DEF Next, Daemon

-----------------------------------------------------------------------------
\* The last word on a Stack.

\* Of a queue q, the drains and recycles of s, and those that are told.
WordsIn(q, s) == {id \in DOMAIN q : /\ s \in q[id].names
                                    /\ q[id].verb \in {"drain", "recycle"}}
ToldOf(q, told, s) == WordsIn(q, s) \cap told

Said(q, id, s, set) == s \in set <=> q[id].verb = "drain"
IsLastOf(ids, id) == id \in ids /\ \A other \in ids : other <= id

\* The set of drained Stacks has s as its last word told has it, or already as
\* one not yet told: a daemon that died before it could acknowledge.
Follows(q, told, s, set) ==
    \/ \E id \in WordsIn(q, s) \ told : Said(q, id, s, set)
    \/ \E id \in DOMAIN q : IsLastOf(ToldOf(q, told, s), id) /\ Said(q, id, s, set)
    \/ ToldOf(q, told, s) = {} /\ s \notin set

HasLast(q, told, s) ==
    ToldOf(q, told, s) # {} => \E id \in DOMAIN q : IsLastOf(ToldOf(q, told, s), id)

\* The Stack s in the tables of the node; a command that is carried out has
\* left its names as it says.
DrainInvariant ==
    /\ \A s \in drained : ~alive[s]
    /\ pc \in {"save", "ack"} =>
         /\ Current.verb \in {"drain", "recycle"}
         /\ \A s \in Current.names : Said(queue, Id, s, drained)
    /\ pc = "ack" => drainedDisk = drained
    /\ "teardown" \notin faults =>
         \A s \in Stack : /\ Follows(queue, Told, s, drained)
                          /\ Follows(queue, Told, s, drainedDisk)
                          /\ HasLast(queue, Told, s)

\* A command queued later changes no word.
LEMMA AppendFollows ==
    ASSUME NEW q \in Seq(Command), NEW c \in Command, NEW told \in SUBSET DOMAIN q,
           NEW s, NEW set
    PROVE  /\ Follows(q, told, s, set) => Follows(Append(q, c), told, s, set)
           /\ HasLast(q, told, s) => HasLast(Append(q, c), told, s)
<1> DEFINE r == Append(q, c)
<1>1. DOMAIN q \subseteq DOMAIN r /\ \A id \in DOMAIN q : r[id] = q[id]
  BY AppendKeeps
<1> HIDE DEF r
<1>2. WordsIn(q, s) \subseteq WordsIn(r, s)
  BY <1>1 DEF WordsIn
<1>3. ToldOf(r, told, s) = ToldOf(q, told, s)
  BY <1>1 DEF ToldOf, WordsIn
<1>4. \A id \in DOMAIN q : Said(q, id, s, set) <=> Said(r, id, s, set)
  BY <1>1 DEF Said
<1>5. WordsIn(q, s) \subseteq DOMAIN q
  BY DEF WordsIn
<1>6. Follows(q, told, s, set) => Follows(r, told, s, set)
  BY <1>1, <1>2, <1>3, <1>4, <1>5 DEF Follows
<1>7. HasLast(q, told, s) => HasLast(r, told, s)
  BY <1>1, <1>3 DEF HasLast
<1> QED BY <1>6, <1>7 DEF r

\* An acknowledgement tells the next word, if the command is one about s.
LEMMA AckFollows ==
    ASSUME NEW q \in Seq(Command), NEW told \in SUBSET DOMAIN q, NEW k \in DOMAIN q,
           \A i \in told : i < k,
           NEW s, NEW set,
           k \in WordsIn(q, s) => Said(q, k, s, set)
    PROVE  /\ Follows(q, told, s, set) => Follows(q, told \cup {k}, s, set)
           /\ HasLast(q, told, s) => HasLast(q, told \cup {k}, s)
<1>1. CASE k \in WordsIn(q, s)
  <2>1. DOMAIN q \subseteq Nat
    BY AppendKeeps
  <2>2. IsLastOf(ToldOf(q, told \cup {k}, s), k)
    BY <1>1, <2>1 DEF IsLastOf, ToldOf
  <2> QED BY <1>1, <2>2 DEF Follows, HasLast
<1>2. CASE k \notin WordsIn(q, s)
  <2>1. ToldOf(q, told \cup {k}, s) = ToldOf(q, told, s)
    BY <1>2 DEF ToldOf
  <2>2. WordsIn(q, s) \ (told \cup {k}) = WordsIn(q, s) \ told
    BY <1>2
  <2> QED BY <2>1, <2>2 DEF Follows, HasLast
<1> QED BY <1>1, <1>2

\* Only the membership of s counts.
LEMMA SameFollows ==
    ASSUME NEW q, NEW told, NEW s, NEW set, NEW other, s \in set <=> s \in other,
           Follows(q, told, s, set)
    PROVE  Follows(q, told, s, other)
BY DEF Follows, Said

\* Commands, words and sets as they are leave the invariant as it is.
LEMMA DrainFrame ==
    ASSUME TypeInvariant, DrainInvariant,
           queue' = queue, Told' = Told,
           drained' = drained \/ drained' = drainedDisk, drainedDisk' = drainedDisk,
           "teardown" \in faults => "teardown" \in faults',
           \A s \in drained' : ~alive'[s],
           pc' \notin {"save", "ack"} \/ (pc' = pc /\ todo' = todo /\ drained' = drained)
    PROVE  DrainInvariant'
<1>1. ASSUME "teardown" \notin faults', NEW s \in Stack
      PROVE  /\ Follows(queue', Told', s, drained')
             /\ Follows(queue', Told', s, drainedDisk')
             /\ HasLast(queue', Told', s)
  BY <1>1 DEF DrainInvariant
<1>2. CASE pc' \notin {"save", "ack"}
  BY <1>1, <1>2 DEF DrainInvariant
<1>3. CASE pc' = pc /\ todo' = todo /\ drained' = drained
  <2>1. Id' = Id
    BY <1>3 DEF Id
  <2>2. Current' = Current
    BY <2>1 DEF Current
  <2> QED BY <1>1, <1>3, <2>1, <2>2 DEF DrainInvariant
<1> QED BY <1>2, <1>3

\* So does a longer queue.
LEMMA DrainAppend ==
    ASSUME TypeInvariant, DrainInvariant,
           NEW c \in Command, queue' = Append(queue, c), Told' = Told,
           drained' = drained, drainedDisk' = drainedDisk,
           "teardown" \in faults => "teardown" \in faults', alive' = alive,
           pc' \notin {"save", "ack"} \/ (pc' = pc /\ todo' = todo)
    PROVE  DrainInvariant'
<1>1. queue \in Seq(Command) /\ Told \in SUBSET DOMAIN queue
  BY DEF TypeInvariant, TypeOK, Told
<1>2. ASSUME "teardown" \notin faults', NEW s \in Stack
      PROVE  /\ Follows(queue', Told', s, drained')
             /\ Follows(queue', Told', s, drainedDisk')
             /\ HasLast(queue', Told', s)
  <2>1. /\ Follows(queue, Told, s, drained)
        /\ Follows(queue, Told, s, drainedDisk)
        /\ HasLast(queue, Told, s)
    BY <1>2 DEF DrainInvariant
  <2> QED BY <1>1, <2>1, AppendFollows
<1>3. CASE pc' \notin {"save", "ack"}
  BY <1>2, <1>3 DEF DrainInvariant
<1>4. CASE pc' \in {"save", "ack"} /\ pc' = pc /\ todo' = todo
  <2>1. Id' = Id
    BY <1>4 DEF Id
  <2>2. todo # {} /\ Id \in DOMAIN queue
    BY <1>4, IdIsFirst DEF TypeInvariant, TypeOK
  <2>3. queue'[Id] = queue[Id]
    BY <1>1, <2>2, AppendKeeps
  <2>4. Current' = Current
    BY <2>1, <2>3 DEF Current
  <2>5. ASSUME NEW s \in Current.names  PROVE Said(queue', Id', s, drained')
    BY <1>4, <2>1, <2>3, <2>5 DEF DrainInvariant, Said
  <2> QED BY <1>2, <1>4, <2>4, <2>5 DEF DrainInvariant
<1> QED BY <1>3, <1>4

\* Stopping children starts none.
LEMMA KillStops ==
    ASSUME TypeOK, NEW names, Kill(names)
    PROVE  \A s \in Stack : alive'[s] => alive[s] /\ s \notin names
BY DEF TypeOK, Kill, Stopped

\* An acknowledgement of the command at hand keeps the invariant, if the
\* command is carried out on both sets or says nothing of any Stack.
LEMMA AckKeepsDrains ==
    ASSUME TypeInvariant, OrderInvariant, DrainInvariant, todo # {}, ~nudged,
           queue' = queue, Told' = Told \cup {Id}, faults' = faults,
           drained' = drained \/ drained' = drainedDisk, drainedDisk' = drainedDisk,
           \A s \in drained' : ~alive'[s],
           pc' \notin {"save", "ack"},
           \A s \in Stack : Id \in WordsIn(queue, s) =>
              Said(queue, Id, s, drained) /\ Said(queue, Id, s, drainedDisk)
    PROVE  DrainInvariant'
<1>1. /\ queue \in Seq(Command) /\ Told \in SUBSET DOMAIN queue
      /\ Id \in DOMAIN queue
  BY IdIsFirst DEF TypeInvariant, TypeOK, Told
<1>2. ASSUME "teardown" \notin faults', NEW s \in Stack
      PROVE  /\ Follows(queue', Told', s, drained')
             /\ Follows(queue', Told', s, drainedDisk')
             /\ HasLast(queue', Told', s)
  <2>1. /\ Follows(queue, Told, s, drained)
        /\ Follows(queue, Told, s, drainedDisk)
        /\ HasLast(queue, Told, s)
    BY <1>2 DEF DrainInvariant
  <2>2. \A i \in Told : i < Id
    BY <1>2, IdIsNext
  <2>3. /\ Follows(queue, Told \cup {Id}, s, drained)
        /\ Follows(queue, Told \cup {Id}, s, drainedDisk)
        /\ HasLast(queue, Told \cup {Id}, s)
    BY <1>1, <2>1, <2>2, AckFollows
  <2> QED BY <2>3
<1> QED BY <1>2 DEF DrainInvariant

\* Every step keeps the words told and the two drained sets in step.
LEMMA DrainStep ==
    TypeInvariant /\ OrderInvariant /\ DrainInvariant /\ [Next]_vars => DrainInvariant'
<1> SUFFICES ASSUME TypeInvariant, OrderInvariant, DrainInvariant, [Next]_vars
             PROVE  DrainInvariant'
  OBVIOUS
<1>a. /\ TypeOK /\ drained \subseteq Stack /\ drainedDisk \subseteq Stack
      /\ pc \in {"act", "save", "ack"} => todo # {} /\ ~nudged
  BY DEF TypeInvariant, TypeOK, NudgeIsShort
<1>b. \A s \in drained : ~alive[s]
  BY DEF DrainInvariant
<1>c. queue' = queue /\ done' = done /\ acks' = acks => queue' = queue /\ Told' = Told
  BY DEF Told
<1> USE DEF store, disk, memory, children, history, ladder, bounds
<1>1. ASSUME NEW c \in Command, queue' = Append(queue, c), Spend("command"),
             UNCHANGED <<done, disk, memory, children>>
      PROVE  DrainInvariant'
  BY <1>1, DrainAppend DEF Told, Spend
<1>2. ASSUME NEW c \in Menu, QueueCommand(c)  PROVE DrainInvariant'
  BY <1>1, <1>2, NodeAssumption DEF QueueCommand
<1>3. ASSUME NEW a \in Aspect, NEW v \in Version, Repin(a, v)  PROVE DrainInvariant'
  BY <1>3, <1>b, <1>c, DrainFrame DEF Repin, Spend
<1>4. ASSUME NEW v \in Version, ProductUpdate(v)  PROVE DrainInvariant'
  <2>1. [verb |-> "update", names |-> Stack, force |-> FALSE] \in Command
    BY DEF Command, Verb
  <2> QED BY <1>4, <2>1, DrainAppend DEF ProductUpdate, Told
<1>5. ASSUME NEW s \in Stack, Driver(s) \/ Dispatch(s)  PROVE DrainInvariant'
  BY <1>5, <1>b, <1>c, RunsFrame, DrainFrame
<1>6. CASE BeatAnswered \/ AnswerLost
  <2>1. /\ Told' = Told /\ drained' = drained /\ drainedDisk' = drainedDisk
        /\ alive' = alive /\ pc' = "commands"
        /\ "teardown" \in faults => "teardown" \in faults'
        /\ queue' = queue \/ queue' = Append(queue, Restart)
    BY <1>6 DEF BeatAnswered, AnswerLost, Handle, NewPass, Told, Suffer
  <2>2. Restart \in Command
    BY DEF Restart, Command, Verb
  <2> QED BY <1>b, <2>1, <2>2, DrainAppend, DrainFrame
<1>7. CASE BeatUnreached
  BY <1>7, <1>b, <1>c, DrainFrame DEF BeatUnreached, NewPass, Suffer
<1>8. CASE Defer \/ Accept \/ CommandsOver
  BY <1>8, <1>b, <1>c, DrainFrame DEF Defer, Accept, CommandsOver
<1>9. CASE DrainOrRecycle
  <2>1. /\ pc = "act" /\ Current.verb \in {"drain", "recycle"} /\ pc' = "save"
        /\ drained' = After(Current.verb, Current.names, drained)
        /\ drainedDisk' = drainedDisk /\ queue' = queue /\ Told' = Told
        /\ todo' = todo /\ faults' = faults /\ Kill(Current.names)
    BY <1>9 DEF DrainOrRecycle, Told
  <2>2. Id' = Id /\ Current' = Current
    BY <2>1 DEF Id, Current
  <2>3. todo # {} /\ Id \in DOMAIN queue /\ Id \notin Told
    BY <1>a, <2>1, IdIsNext, IdIsFirst
  <2>4. drained' \subseteq drained \cup Current.names
    BY <2>1 DEF After
  <2>5. \A s \in Current.names : Said(queue, Id, s, drained')
    BY <2>1 DEF After, Said, Current
  <2>6. drained' \subseteq Stack
    <3>1. queue[Id] \in Command
      BY <1>a, <2>3, AppendKeeps DEF TypeOK
    <3> QED BY <1>a, <2>4, <3>1 DEF Current, Command
  <2>7. \A s \in drained' : ~alive'[s]
    BY <1>a, <1>b, <2>1, <2>4, <2>6, KillStops
  <2>8. ASSUME "teardown" \notin faults, NEW s \in Stack
        PROVE  Follows(queue, Told, s, drained')
    <3>1. CASE s \in Current.names
      <4>1. Id \in WordsIn(queue, s) \ Told
        BY <2>1, <2>3, <3>1 DEF WordsIn, Current
      <4> QED BY <4>1, <2>5, <3>1 DEF Follows
    <3>2. CASE s \notin Current.names
      <4>1. s \in drained <=> s \in drained'
        BY <2>1, <3>2 DEF After
      <4>2. Follows(queue, Told, s, drained)
        BY <2>8 DEF DrainInvariant
      <4> QED BY <4>1, <4>2, SameFollows
    <3> QED BY <3>1, <3>2
  <2> QED BY <2>1, <2>2, <2>5, <2>7, <2>8 DEF DrainInvariant
<1>10. CASE SaveDrained
  <2>1. /\ pc = "save" /\ pc' = "ack" /\ drainedDisk' = drained /\ drained' = drained
        /\ queue' = queue /\ Told' = Told /\ todo' = todo /\ faults' = faults
        /\ alive' = alive
    BY <1>10 DEF SaveDrained, Told
  <2>2. Id' = Id /\ Current' = Current
    BY <2>1 DEF Id, Current
  <2> QED BY <2>1, <2>2 DEF DrainInvariant
<1>11. CASE AckCommand
  <2>1. /\ pc = "ack" /\ pc' = "commands" /\ drained' = drained
        /\ drainedDisk' = drainedDisk /\ queue' = queue /\ Told' = Told \cup {Id}
        /\ faults' = faults /\ alive' = alive
    BY <1>11 DEF AckCommand, Ack, NextCommand, Told
  <2>2. drainedDisk = drained /\ \A s \in Current.names : Said(queue, Id, s, drained)
    BY <2>1 DEF DrainInvariant
  <2>3. \A s \in Stack : Id \in WordsIn(queue, s) => s \in Current.names
    BY DEF WordsIn, Current
  <2> QED BY <1>a, <1>b, <2>1, <2>2, <2>3, AckKeepsDrains
<1>12. CASE Nudge
  <2>1. /\ pc = "act" /\ pc' = "product" /\ drained' = drained
        /\ drainedDisk' = drainedDisk /\ queue' = queue /\ Told' = Told \cup {Id}
        /\ faults' = faults /\ alive' = alive /\ Current.verb = "update"
    BY <1>12 DEF Nudge, Ack, Told
  <2>2. \A s \in Stack : Id \notin WordsIn(queue, s)
    BY <2>1 DEF WordsIn, Current
  <2> QED BY <1>a, <1>b, <2>1, <2>2, AckKeepsDrains
<1>13. CASE RestartDaemon
  <2>1. /\ pc = "act" /\ pc' = "beat" /\ drained' = drainedDisk
        /\ drainedDisk' = drainedDisk /\ queue' = queue /\ Told' = Told \cup {Id}
        /\ faults' = faults /\ Kill(Stack) /\ Current.verb = "restart"
    BY <1>13 DEF RestartDaemon, Ack, Told, Reborn
  <2>2. \A s \in Stack : Id \notin WordsIn(queue, s)
    BY <2>1 DEF WordsIn, Current
  <2>3. \A s \in drained' : ~alive'[s]
    BY <1>a, <2>1, KillStops
  <2> QED BY <1>a, <2>1, <2>2, <2>3, AckKeepsDrains
<1>14. ASSUME NEW before \in SUBSET Stack, NEW s \in Stack, TeardownFails(before, s)
       PROVE  DrainInvariant'
  <2>1. /\ drained' \subseteq drained \cup before /\ Kill(before \cup {s})
        /\ "teardown" \in faults' /\ pc' = "commands"
    BY <1>14 DEF TeardownFails, After, NextCommand, Suffer
  <2>2. \A t \in drained' : ~alive'[t]
    BY <1>a, <1>b, <2>1, KillStops
  <2> QED BY <2>1, <2>2 DEF DrainInvariant
<1>15. CASE Crash \/ Install
  <2>1. /\ drained' = drainedDisk /\ drainedDisk' = drainedDisk /\ Kill(Stack)
        /\ queue' = queue /\ Told' = Told /\ pc' = "beat"
        /\ "teardown" \in faults => "teardown" \in faults'
    BY <1>15 DEF Crash, Install, Reborn, Suffer, Told
  <2>2. \A s \in drained' : ~alive'[s]
    BY <1>a, <2>1, KillStops
  <2> QED BY <2>1, <2>2, DrainFrame
<1>16. CASE ProductRests \/ ProductDefers \/ ProductAttempt
  BY <1>16, <1>b, <1>c, DrainFrame
     DEF ProductRests, ProductDefers, ProductAttempt, Onward
<1>17. ASSUME NEW stopped \in BOOLEAN, InstallFails(stopped)  PROVE DrainInvariant'
  <2>1. alive' = alive \/ Kill(Stack)
    BY <1>17 DEF InstallFails
  <2>2. \A s \in drained : ~alive'[s]
    BY <1>a, <1>b, <2>1, KillStops
  <2> QED BY <1>17, <1>c, <2>2, DrainFrame DEF InstallFails, Onward, Spend
<1>18. CASE DriversRest \/ DriversDefer \/ DriversAttempt
  BY <1>18, <1>b, <1>c, DrainFrame DEF DriversRest, DriversDefer, DriversAttempt
<1>19. CASE Swap
  <2>1. \A s \in drained : ~alive'[s]
    BY <1>19, <1>a, <1>b, KillStops DEF Swap
  <2> QED BY <1>19, <1>c, <2>1, DrainFrame DEF Swap
<1>20. ASSUME NEW stopped \in BOOLEAN, SwapFails(stopped)  PROVE DrainInvariant'
  <2>1. alive' = alive \/ Kill(Custom)
    BY <1>20 DEF SwapFails
  <2>2. \A s \in drained : ~alive'[s]
    BY <1>a, <1>b, <2>1, KillStops
  <2> QED BY <1>20, <1>c, <2>2, DrainFrame DEF SwapFails, Spend
<1>21. CASE Reconcile
  <2>1. \A s \in drained : ~alive'[s]
    BY <1>21, <1>a DEF Reconcile
  <2> QED BY <1>21, <1>c, <2>1, DrainFrame DEF Reconcile
<1>22. CASE UNCHANGED vars
  BY <1>22, <1>b, <1>c, DrainFrame DEF vars
<1> QED BY <1>2, <1>3, <1>4, <1>5, <1>6, <1>7, <1>8, <1>9, <1>10, <1>11, <1>12,
          <1>13, <1>14, <1>15, <1>16, <1>17, <1>18, <1>19, <1>20, <1>21, <1>22
       DEF Next, Daemon, Operator

\* With words and sets in step, the last word is what the node does.
LEMMA LastWordStands ==
    ASSUME TypeInvariant, DrainInvariant
    PROVE  DrainHoldsUnfailed /\ RecycleReleases
<1> SUFFICES ASSUME "teardown" \notin faults, NEW s \in Stack
             PROVE  /\ DrainStands(s) => s \in drainedDisk /\ ~alive[s]
                    /\ (/\ Words(s) # {} /\ Words(s) = Acked(s)
                        /\ queue[Last(Words(s))].verb = "recycle") =>
                           s \notin drained \cup drainedDisk
  BY DEF DrainHoldsUnfailed, DrainHolds, RecycleReleases
<1>1. /\ Words(s) = WordsIn(queue, s)
      /\ Acked(s) = ToldOf(queue, Told, s)
      /\ Acked(s) \subseteq Nat
  <2>1. DOMAIN queue \subseteq Nat
    BY AppendKeeps DEF TypeInvariant, TypeOK
  <2> QED BY <2>1 DEF Words, WordsIn, Acked, ToldOf, Told
<1>2. /\ Follows(queue, Told, s, drained)
      /\ Follows(queue, Told, s, drainedDisk)
      /\ HasLast(queue, Told, s)
  BY DEF DrainInvariant
<1>3. ASSUME Acked(s) # {}
      PROVE  /\ Last(Acked(s)) \in Acked(s)
             /\ \A id : IsLastOf(Acked(s), id) => id = Last(Acked(s))
  <2>1. PICK m : IsLastOf(Acked(s), m)
    BY <1>1, <1>2, <1>3 DEF HasLast
  <2>2. IsLastOf(Acked(s), Last(Acked(s)))
    BY <2>1 DEF IsLastOf, Last
  <2> QED BY <1>1, <2>2 DEF IsLastOf
<1>4. \A set : Follows(queue, Told, s, set) =>
        \/ \E id \in Words(s) \ Acked(s) : Said(queue, id, s, set)
        \/ Acked(s) # {} /\ Said(queue, Last(Acked(s)), s, set)
        \/ Acked(s) = {} /\ s \notin set
  <2>1. Words(s) \ Acked(s) = WordsIn(queue, s) \ Told
    BY <1>1 DEF ToldOf
  <2> QED BY <1>1, <1>3, <2>1 DEF Follows, IsLastOf
<1>5. ASSUME DrainStands(s)  PROVE s \in drainedDisk /\ ~alive[s]
  <2>1. s \in drained /\ s \in drainedDisk
    BY <1>2, <1>4, <1>5 DEF DrainStands, Said
  <2> QED BY <2>1 DEF DrainInvariant
<1>6. ASSUME Words(s) # {}, Words(s) = Acked(s),
             queue[Last(Words(s))].verb = "recycle"
      PROVE  s \notin drained \cup drainedDisk
  BY <1>2, <1>4, <1>6 DEF Said
<1> QED BY <1>5, <1>6

\* For all Stacks and menus and however many commands the operator queues and
\* whatever is lost or dies, the node ends a walk as the last word has it.
THEOREM OperatorsLastWord == Spec => []DrainsAsOrdered
<1>1. Init => TypeInvariant /\ OrderInvariant /\ DrainInvariant
  <2> SUFFICES ASSUME Init  PROVE OrderInvariant /\ DrainInvariant
    BY InitTypes
  <2>1. queue = <<>> /\ DOMAIN queue = {}
    BY DEF Init
  <2> QED BY <2>1 DEF Init, OrderInvariant, Told, DrainInvariant, Follows, HasLast,
                      ToldOf, WordsIn
<1>2. TypeInvariant /\ OrderInvariant /\ DrainInvariant /\ [Next]_vars =>
        (TypeInvariant /\ OrderInvariant /\ DrainInvariant)'
  BY TypeStep, OrderStep, DrainStep
<1>3. TypeInvariant /\ DrainInvariant => DrainsAsOrdered
  BY LastWordStands DEF DrainsAsOrdered, TypeInvariant
<1> QED BY <1>1, <1>2, <1>3, PTL DEF Spec

-----------------------------------------------------------------------------
\* What a command or a convergence may kill.

\* How far the dispatch of a Run is: past the versions, past the queue.
Matched(s) == run[s] \in {"matched", "gated", "granted", "running"}
Gated(s) == run[s] \in {"gated", "granted", "running"}

\* A Run that is past the queue was let through under commands that are done
\* for good, one that is past the versions under those the node still runs, if
\* its report was true; a convergence at work is towards another.
GateInvariant ==
    /\ \A s \in Stack :
         /\ run[s] \in Unseen \cup {"running"} => alive[s]
         /\ Gated(s) =>
              ticket[s].queued <= Len(queue) /\ 1 .. ticket[s].queued \subseteq done
         /\ Matched(s) /\ ~ticket[s].stale["product"] =>
              ticket[s].pins["product"] = applied["product"]
         /\ Matched(s) /\ s \in Custom /\ ~ticket[s].stale["drivers"] =>
              ticket[s].pins["drivers"] = applied["drivers"]
    /\ pc = "install" => cache["product"] # applied["product"]
    /\ pc = "swap" => cache["drivers"] # applied["drivers"]

\* What is under way of a Stack's work goes on as it is, or is over.
GoesOn(s) ==
    \/ run'[s] = run[s] /\ alive'[s] = alive[s] /\ ticket'[s] = ticket[s]
    \/ run'[s] \in {"none", "orphan"}

\* A child that is stopped leaves nothing under way, and one that is not goes on.
LEMMA KillEndsRuns ==
    ASSUME TypeOK, GateInvariant, NEW names, Kill(names), ticket' = ticket
    PROVE  \A s \in Stack : GoesOn(s) /\ (s \in names => run'[s] \in {"none", "orphan"})
BY DEF TypeOK, GateInvariant, Kill, Stopped, RunsLeft, GoesOn, Unseen

\* Work goes on or is over, the queue grows, more of it is done, and nothing is
\* applied.
LEMMA GateFrame ==
    ASSUME TypeInvariant, GateInvariant,
           \A s \in Stack : GoesOn(s),
           done \subseteq done', Len(queue) <= Len(queue'), Len(queue') \in Nat,
           applied' = applied,
           pc' \notin {"install", "swap"} \/ (pc' = pc /\ cache' = cache)
    PROVE  GateInvariant'
<1>1. Len(queue) \in Nat /\ \A s \in Stack : ticket[s].queued \in Nat
  BY DEF TypeInvariant, TypeOK, Grants
<1>2. ASSUME NEW s \in Stack
      PROVE  /\ run'[s] \in Unseen \cup {"running"} => alive'[s]
             /\ Gated(s)' =>
                  ticket'[s].queued <= Len(queue') /\ 1 .. ticket'[s].queued \subseteq done'
             /\ Matched(s)' /\ ~ticket'[s].stale["product"] =>
                  ticket'[s].pins["product"] = applied'["product"]
             /\ Matched(s)' /\ s \in Custom /\ ~ticket'[s].stale["drivers"] =>
                  ticket'[s].pins["drivers"] = applied'["drivers"]
  <2>1. CASE run'[s] \in {"none", "orphan"}
    BY <2>1 DEF Matched, Gated, Unseen
  <2>2. CASE run'[s] = run[s] /\ alive'[s] = alive[s] /\ ticket'[s] = ticket[s]
    BY <1>1, <2>2 DEF GateInvariant, Matched, Gated
  <2> QED BY <2>1, <2>2 DEF GoesOn
<1>3. /\ pc' = "install" => cache'["product"] # applied'["product"]
      /\ pc' = "swap" => cache'["drivers"] # applied'["drivers"]
  BY DEF GateInvariant
<1> QED BY <1>2, <1>3 DEF GateInvariant

\* A request for work gets past the versions, then past the queue, then to a
\* grant and a Run, each on what was read.
LEMMA DispatchKeepsGates ==
    ASSUME TypeInvariant, GateInvariant, NEW s \in Stack, Driver(s) \/ Dispatch(s)
    PROVE  GateInvariant'
<1>a. /\ TypeOK /\ Len(queue) \in Nat /\ DOMAIN queue = 1 .. Len(queue)
      /\ UNCHANGED <<store, disk, memory, alive>>
  BY RunsFrame, AppendKeeps DEF TypeInvariant, TypeOK
<1> USE DEF store, disk, memory, history, bounds
<1>b. \A t \in Stack \ {s} : GoesOn(t)
  BY <1>a DEF GoesOn, TypeOK, Driver, StartRun, EndRun, BootSweep, Dispatch, AskWork,
              CheckVersions, CheckQueue, Grant, Clear
<1>c. ASSUME run'[s] \in Unseen \cup {"running"} => alive[s],
             Gated(s)' => Len(queue) >= ticket'[s].queued /\ 1 .. ticket'[s].queued \subseteq done,
             Matched(s)' /\ ~ticket'[s].stale["product"] =>
               ticket'[s].pins["product"] = applied["product"],
             Matched(s)' /\ s \in Custom /\ ~ticket'[s].stale["drivers"] =>
               ticket'[s].pins["drivers"] = applied["drivers"]
      PROVE  GateInvariant'
  <2>1. ASSUME NEW t \in Stack
        PROVE  /\ run'[t] \in Unseen \cup {"running"} => alive'[t]
               /\ Gated(t)' =>
                    ticket'[t].queued <= Len(queue') /\ 1 .. ticket'[t].queued \subseteq done'
               /\ Matched(t)' /\ ~ticket'[t].stale["product"] =>
                    ticket'[t].pins["product"] = applied'["product"]
               /\ Matched(t)' /\ t \in Custom /\ ~ticket'[t].stale["drivers"] =>
                    ticket'[t].pins["drivers"] = applied'["drivers"]
    <3>0. \A u \in Stack : ticket[u].queued \in Nat /\ ticket'[s].queued \in Nat
      BY <1>a, RunsType DEF TypeOK, Grants
    <3>1. CASE t = s
      BY <1>a, <1>c, <3>0, <3>1
    <3>2. CASE run'[t] \in {"none", "orphan"}
      BY <3>2 DEF Matched, Gated, Unseen
    <3>3. CASE run'[t] = run[t] /\ alive'[t] = alive[t] /\ ticket'[t] = ticket[t]
      BY <1>a, <3>3 DEF GateInvariant, Matched, Gated
    <3> QED BY <1>b, <3>1, <3>2, <3>3 DEF GoesOn
  <2>2. /\ pc' = "install" => cache'["product"] # applied'["product"]
        /\ pc' = "swap" => cache'["drivers"] # applied'["drivers"]
    BY <1>a DEF GateInvariant
  <2> QED BY <2>1, <2>2 DEF GateInvariant
<1>d. ASSUME run'[s] \in {"none", "orphan"}  PROVE GateInvariant'
  BY <1>c, <1>d DEF Matched, Gated, Unseen
<1>e. ASSUME Clear(s)  PROVE GateInvariant'
  BY <1>a, <1>d, <1>e DEF Clear, TypeOK
<1>1. CASE AskWork(s)
  <2>1. run'[s] = "asking" /\ alive[s]
    BY <1>1, <1>a DEF AskWork, TypeOK
  <2> QED BY <1>c, <2>1 DEF Matched, Gated
<1>2. CASE CheckVersions(s)
  <2>1. CASE reported = ticket[s].pins
    <3>1. /\ run[s] = "asking" /\ run'[s] = "matched"
          /\ ticket'[s].pins = ticket[s].pins
          /\ ticket'[s].stale = [a \in Aspect |-> reported[a] # applied[a]]
      BY <1>2, <2>1, <1>a DEF CheckVersions, TypeOK, Grants
    <3>2. \A a \in Aspect : ~ticket'[s].stale[a] => ticket'[s].pins[a] = applied[a]
      <4>1. \A a \in Aspect : ticket'[s].stale[a] <=> reported[a] # applied[a]
        BY <3>1
      <4> QED BY <2>1, <3>1, <4>1
    <3>3. alive[s]
      BY <3>1 DEF GateInvariant, Unseen
    <3>4. ~Gated(s)'
      BY <3>1 DEF Gated
    <3> QED BY <1>c, <3>2, <3>3, <3>4 DEF Aspect
  <2>2. CASE reported # ticket[s].pins
    BY <1>2, <1>e, <2>2 DEF CheckVersions
  <2> QED BY <2>1, <2>2
<1>3. CASE CheckQueue(s)
  <2>1. CASE QueueClear
    <3>1. /\ run[s] = "matched" /\ run'[s] = "gated"
          /\ ticket'[s].queued = Len(queue)
          /\ ticket'[s].pins = ticket[s].pins /\ ticket'[s].stale = ticket[s].stale
      BY <1>3, <2>1, <1>a DEF CheckQueue, TypeOK, Grants
    <3>2. 1 .. Len(queue) \subseteq done
      BY <2>1, <1>a DEF QueueClear, Pending
    <3>3. alive[s] /\ Matched(s)
      BY <3>1 DEF GateInvariant, Unseen, Matched
    <3>4. /\ ~ticket[s].stale["product"] => ticket[s].pins["product"] = applied["product"]
          /\ s \in Custom /\ ~ticket[s].stale["drivers"] =>
               ticket[s].pins["drivers"] = applied["drivers"]
      BY <3>3 DEF GateInvariant
    <3> QED BY <1>a, <1>c, <3>1, <3>2, <3>3, <3>4
  <2>2. CASE ~QueueClear
    BY <1>3, <1>e, <2>2 DEF CheckQueue
  <2> QED BY <2>1, <2>2
<1>4. ASSUME Gated(s), ticket' = ticket  PROVE GateInvariant'
  <2>1. alive[s] /\ Matched(s)
    BY <1>4 DEF GateInvariant, Gated, Matched, Unseen
  <2>2. ticket[s].queued \in Nat
    BY <1>a DEF TypeOK, Grants
  <2>3. /\ Len(queue) >= ticket[s].queued /\ 1 .. ticket[s].queued \subseteq done
        /\ ~ticket[s].stale["product"] => ticket[s].pins["product"] = applied["product"]
        /\ s \in Custom /\ ~ticket[s].stale["drivers"] =>
             ticket[s].pins["drivers"] = applied["drivers"]
    BY <1>4, <1>a, <2>1, <2>2 DEF GateInvariant
  <2> QED BY <1>4, <1>c, <2>1, <2>3
<1>5. CASE Grant(s)
  BY <1>4, <1>5, <1>e DEF Grant, Gated
<1>6. CASE Driver(s)
  BY <1>4, <1>6, <1>e DEF Driver, StartRun, EndRun, BootSweep, Gated
<1> QED BY <1>1, <1>2, <1>3, <1>5, <1>6 DEF Dispatch

\* Every step keeps what holds between a Run and what was asked of its node.
LEMMA GateStep ==
    TypeInvariant /\ GateInvariant /\ [Next]_vars => GateInvariant'
<1> SUFFICES ASSUME TypeInvariant, GateInvariant, [Next]_vars
             PROVE  GateInvariant'
  OBVIOUS
<1>a. /\ TypeOK /\ Len(queue) \in Nat
      /\ DOMAIN queue = 1 .. Len(queue)
  BY AppendKeeps DEF TypeInvariant, TypeOK
<1>c. ASSUME run' = run, alive' = alive, ticket' = ticket
      PROVE  \A s \in Stack : GoesOn(s)
  BY <1>c DEF GoesOn
<1>d. ASSUME NEW names, Kill(names), ticket' = ticket
      PROVE  \A s \in Stack : GoesOn(s) /\ (s \in names => run'[s] \in {"none", "orphan"})
  BY <1>a, <1>d, KillEndsRuns
<1>e. queue' = queue /\ done' = done =>
        done \subseteq done' /\ Len(queue) <= Len(queue') /\ Len(queue') \in Nat
  BY <1>a
<1> USE DEF store, disk, memory, children, history, ladder, bounds
<1>1. ASSUME NEW c \in Command, queue' = Append(queue, c)
      PROVE  Len(queue) <= Len(queue') /\ Len(queue') \in Nat
  BY <1>1, <1>a, AppendKeeps DEF TypeOK
<1>2. ASSUME NEW c \in Menu, QueueCommand(c)  PROVE GateInvariant'
  BY <1>1, <1>2, <1>c, NodeAssumption, GateFrame DEF QueueCommand
<1>3. ASSUME NEW a \in Aspect, NEW v \in Version, Repin(a, v)  PROVE GateInvariant'
  BY <1>3, <1>c, <1>e, GateFrame DEF Repin
<1>4. ASSUME NEW v \in Version, ProductUpdate(v)  PROVE GateInvariant'
  <2>1. [verb |-> "update", names |-> Stack, force |-> FALSE] \in Command
    BY DEF Command, Verb
  <2>2. Len(queue) <= Len(queue') /\ Len(queue') \in Nat
    BY <1>1, <1>4, <2>1 DEF ProductUpdate
  <2> QED BY <1>4, <1>c, <2>2, GateFrame DEF ProductUpdate
<1>5. ASSUME NEW s \in Stack, Driver(s) \/ Dispatch(s)  PROVE GateInvariant'
  BY <1>5, DispatchKeepsGates
<1>6. CASE BeatAnswered \/ AnswerLost
  <2>1. /\ done \subseteq done' /\ ticket' = ticket /\ applied' = applied
        /\ run' = run /\ alive' = alive /\ pc' = "commands"
        /\ queue' = queue \/ queue' = Append(queue, Restart)
    BY <1>6 DEF BeatAnswered, AnswerLost, Handle, NewPass
  <2>2. Restart \in Command
    BY DEF Restart, Command, Verb
  <2>3. Len(queue) <= Len(queue') /\ Len(queue') \in Nat
    BY <1>1, <1>a, <2>1, <2>2
  <2> QED BY <1>c, <2>1, <2>3, GateFrame
<1>7. CASE BeatUnreached
  BY <1>7, <1>c, <1>e, GateFrame DEF BeatUnreached, NewPass
<1>8. CASE Defer \/ Accept \/ CommandsOver \/ SaveDrained \/ AckCommand \/ Nudge
  BY <1>8, <1>c, <1>e, GateFrame
     DEF Defer, Accept, CommandsOver, SaveDrained, AckCommand, NextCommand, Nudge
<1>9. CASE DrainOrRecycle
  BY <1>9, <1>d, <1>e, GateFrame DEF DrainOrRecycle
<1>10. ASSUME NEW before \in SUBSET Stack, NEW s \in Stack, TeardownFails(before, s)
       PROVE  GateInvariant'
  BY <1>10, <1>d, <1>e, GateFrame DEF TeardownFails, NextCommand
<1>11. CASE RestartDaemon \/ Crash
  BY <1>11, <1>d, <1>e, GateFrame DEF RestartDaemon, Crash, Reborn
<1>12. CASE ProductRests \/ ProductDefers
  <2>1. pc' \notin {"install", "swap"}
    BY <1>12 DEF ProductRests, ProductDefers, Onward
  <2> QED BY <1>12, <1>c, <1>e, <2>1, GateFrame DEF ProductRests, ProductDefers
<1>13. CASE ProductAttempt
  <2>1. /\ UNCHANGED <<store, disk, children, ticket>> /\ pc' = "install"
        /\ cache["product"] # applied["product"]
    BY <1>13 DEF ProductAttempt, OffPin
  <2> QED BY <2>1 DEF GateInvariant, Matched, Gated
<1>14. CASE Install
  <2>1. Kill(Stack) /\ pc' = "beat"
    BY <1>14 DEF Install, Reborn
  <2>2. \A s \in Stack : run'[s] \in {"none", "orphan"}
    BY <1>14, <1>d, <2>1 DEF Install
  <2> QED BY <2>1, <2>2 DEF GateInvariant, Matched, Gated, Unseen
<1>15. ASSUME NEW stopped \in BOOLEAN, InstallFails(stopped)  PROVE GateInvariant'
  <2>1. /\ ticket' = ticket
        /\ Kill(Stack) \/ (run' = run /\ alive' = alive)
    BY <1>15 DEF InstallFails
  <2>2. pc' \notin {"install", "swap"}
    BY <1>15 DEF InstallFails, Onward
  <2>3. \A s \in Stack : GoesOn(s)
    BY <1>c, <1>d, <2>1
  <2> QED BY <1>15, <1>e, <2>2, <2>3, GateFrame DEF InstallFails
<1>16. CASE DriversRest \/ DriversDefer
  BY <1>16, <1>c, <1>e, GateFrame DEF DriversRest, DriversDefer
<1>17. CASE DriversAttempt
  <2>1. /\ UNCHANGED <<store, disk, children, ticket>> /\ pc' = "swap"
        /\ cache["drivers"] # applied["drivers"]
    BY <1>17 DEF DriversAttempt, OffHash
  <2> QED BY <2>1 DEF GateInvariant, Matched, Gated
<1>18. ASSUME Kill(Custom), UNCHANGED <<store, ticket>>, pc' = "reconcile",
              applied'["product"] = applied["product"]
       PROVE  GateInvariant'
  <2>1. \A s \in Stack : GoesOn(s) /\ (s \in Custom => run'[s] \in {"none", "orphan"})
    BY <1>18, <1>d
  <2>2. ASSUME NEW s \in Stack
        PROVE  /\ run'[s] \in Unseen \cup {"running"} => alive'[s]
               /\ Gated(s)' =>
                    ticket'[s].queued <= Len(queue') /\ 1 .. ticket'[s].queued \subseteq done'
               /\ Matched(s)' /\ ~ticket'[s].stale["product"] =>
                    ticket'[s].pins["product"] = applied'["product"]
               /\ Matched(s)' /\ s \in Custom /\ ~ticket'[s].stale["drivers"] =>
                    ticket'[s].pins["drivers"] = applied'["drivers"]
    <3>1. CASE run'[s] \in {"none", "orphan"}
      BY <3>1 DEF Matched, Gated, Unseen
    <3>2. CASE run'[s] = run[s] /\ alive'[s] = alive[s] /\ run'[s] \notin {"none", "orphan"}
      BY <1>18, <2>1, <3>2 DEF GateInvariant, Matched, Gated
    <3> QED BY <2>1, <3>1, <3>2 DEF GoesOn
  <2> QED BY <1>18, <2>2 DEF GateInvariant
<1>19. CASE Swap
  <2>1. applied'["product"] = applied["product"]
    BY <1>19, <1>a DEF Swap, TypeOK, Aspect
  <2> QED BY <1>18, <1>19, <2>1 DEF Swap
<1>20. ASSUME NEW stopped \in BOOLEAN, SwapFails(stopped)  PROVE GateInvariant'
  <2>1. CASE stopped
    <3>1. applied'["product"] = applied["product"] /\ Kill(Custom)
      BY <1>20, <2>1, <1>a DEF SwapFails, TypeOK, Aspect
    <3> QED BY <1>18, <1>20, <3>1 DEF SwapFails
  <2>2. CASE ~stopped
    BY <1>20, <2>2, <1>c, <1>e, GateFrame DEF SwapFails
  <2> QED BY <2>1, <2>2
<1>21. CASE Reconcile
  <2>1. \A s \in Stack : GoesOn(s)
    BY <1>21, <1>a DEF Reconcile, RunsLeft, GateInvariant, GoesOn, Unseen, TypeOK
  <2> QED BY <1>21, <1>e, <2>1, GateFrame DEF Reconcile
<1>22. CASE UNCHANGED vars
  BY <1>22, <1>c, <1>e, GateFrame DEF vars
<1> QED BY <1>2, <1>3, <1>4, <1>5, <1>6, <1>7, <1>8, <1>9, <1>10, <1>11,
          <1>12, <1>13, <1>14, <1>15, <1>16, <1>17, <1>19, <1>20, <1>21, <1>22
       DEF Next, Daemon, Operator

\* What a step kills got past its gate before what the step carries out.
LEMMA KillsAreOfEarlierGates ==
    ASSUME TypeInvariant, OrderInvariant, GateInvariant, [Next]_vars,
           NEW s \in Stack, Killed(s)
    PROVE  /\ pc = "act" => ticket[s].queued < Id
           /\ (pc = "install" /\ faults' = faults
                /\ ~ticket[s].stale["product"]) =>
                  ticket[s].pins["product"] # cache["product"]
           /\ (pc = "swap" /\ faults' = faults
                /\ ~ticket[s].stale["drivers"]) =>
                  ticket[s].pins["drivers"] # cache["drivers"]
<1>a. TypeOK /\ Gated(s) /\ Matched(s)
  BY DEF TypeInvariant, Killed, Gated, Matched
<1>b. /\ 1 .. ticket[s].queued \subseteq done
      /\ ~ticket[s].stale["product"] =>
           ticket[s].pins["product"] = applied["product"]
      /\ s \in Custom /\ ~ticket[s].stale["drivers"] =>
           ticket[s].pins["drivers"] = applied["drivers"]
  BY <1>a DEF GateInvariant
<1>1. ASSUME pc = "act"  PROVE ticket[s].queued < Id
  <2>1. Id \in todo /\ Id \in Nat \ {0} /\ Id \notin done
    BY <1>1, <1>a, IdIsFirst DEF TypeOK, OrderInvariant
  <2>2. ticket[s].queued \in Nat
    BY DEF TypeInvariant, TypeOK, Grants
  <2>3. Id \notin 1 .. ticket[s].queued
    BY <1>b, <2>1
  <2> QED BY <2>1, <2>2, <2>3
<1>2. ASSUME pc = "install", ~ticket[s].stale["product"]
      PROVE  ticket[s].pins["product"] # cache["product"]
  BY <1>2, <1>b DEF GateInvariant
<1>3. ASSUME pc = "swap", faults' = faults, ~ticket[s].stale["drivers"]
      PROVE  ticket[s].pins["drivers"] # cache["drivers"]
  <2>1. s \in Custom
    <3>1. CASE UNCHANGED children
      BY <3>1 DEF children, Killed
    <3>2. CASE Kill(Custom)
      BY <3>2, <1>a DEF Killed, Kill, RunsLeft, TypeOK
    <3>3. CASE \E t \in Stack : Driver(t) \/ Dispatch(t)
      BY <3>3, <1>a DEF Driver, StartRun, EndRun, BootSweep, Dispatch, AskWork,
                        CheckVersions, CheckQueue, Grant, Clear, Killed, TypeOK
    <3>4. CASE Swap \/ \E stopped \in BOOLEAN : SwapFails(stopped)
      BY <3>1, <3>2, <3>4 DEF Swap, SwapFails, children
    <3>5. ~Crash
      BY <1>3 DEF Crash, Suffer
    <3>6. CASE Operator \/ UNCHANGED vars
      BY <3>1, <3>6 DEF Operator, QueueCommand, Repin, ProductUpdate, vars, children
    <3> QED BY <1>3, <3>3, <3>4, <3>5, <3>6
         DEF Next, Daemon, BeatAnswered, AnswerLost, BeatUnreached, Defer, Accept,
             CommandsOver, DrainOrRecycle, SaveDrained, AckCommand, Nudge,
             RestartDaemon, TeardownFails, ProductRests, ProductDefers,
             ProductAttempt, Install, InstallFails, DriversRest, DriversDefer,
             DriversAttempt, Reconcile
  <2> QED BY <1>3, <1>b, <2>1 DEF GateInvariant
<1> QED BY <1>1, <1>2, <1>3

\* However many Runs, re-pins and commands: a Run dies only of a command that
\* was queued after its gate was read, and of a convergence to another version
\* than it was let through under, unless Control read a report that was out of
\* date.
THEOREM GatesAreRespected == Spec => GateProtectsRuns
<1>1. Init => TypeInvariant /\ OrderInvariant /\ GateInvariant
  <2> SUFFICES ASSUME Init  PROVE OrderInvariant /\ GateInvariant
    BY InitTypes
  <2> QED BY DEF Init, OrderInvariant, Told, GateInvariant, Matched, Gated, Unseen
<1>2. TypeInvariant /\ OrderInvariant /\ GateInvariant /\ [Next]_vars =>
        (TypeInvariant /\ OrderInvariant /\ GateInvariant)'
  BY TypeStep, OrderStep, GateStep
<1>3. TypeInvariant /\ OrderInvariant /\ GateInvariant /\ [Next]_vars =>
        [\A s \in Stack : Killed(s) =>
           /\ pc = "act" => ticket[s].queued < Id
           /\ (pc = "install" /\ faults' = faults
                /\ ~ticket[s].stale["product"]) =>
                  ticket[s].pins["product"] # cache["product"]
           /\ (pc = "swap" /\ faults' = faults
                /\ ~ticket[s].stale["drivers"]) =>
                  ticket[s].pins["drivers"] # cache["drivers"]]_vars
  BY KillsAreOfEarlierGates
<1> QED BY <1>1, <1>2, <1>3, PTL DEF Spec, GateProtectsRuns

-----------------------------------------------------------------------------
\* The order of the ladders' rungs.

\* A node that is off a version it knows has tried, or waits for a Run.
Chance(a) == tried[a] \/ blocker[a] \/ cache[a] = applied[a]

\* The pass has given each aspect its chance once it is past it.
TryInvariant ==
    /\ pc \in {"beat", "drivers", "swap", "reconcile"} => Chance("product")
    /\ pc \in {"beat", "reconcile"} => Chance("drivers")
    /\ pc = "swap" => tried["drivers"]
    /\ attempted => tried["product"]
    /\ pc = "install" => attempted

\* The restarts the node has still to carry out.
Waiting == {id \in (DOMAIN queue) \ Told : queue[id].verb = "restart"}

\* A restart a ladder asked for is still to be carried out, and the pass has
\* it before it, or the daemon has been replaced.
AskInvariant ==
    \A a \in Aspect : health[a].restarted /\ ~renewed[a] =>
       Waiting # {} /\ (cut \/ Waiting \cap todo # {})

\* What a beat makes of a ladder.
LEMMA Rungs ==
    ASSUME TypeOK, NEW a \in Aspect
    PROVE  /\ Climbed(a).restarted => Counted(a).restarted \/ RestartDue(a)
           /\ Climbed(a).escalated => Counted(a).escalated \/ EscalationDue(a)
           /\ Counted(a).restarted => health[a].restarted
           /\ Counted(a).escalated => health[a].escalated
           /\ RestartDue(a) => ~OnTarget(a)
           /\ EscalationDue(a) => health[a].restarted
<1>1. health[a] \in Health /\ OffpinBeats \in Nat \ {0}
  BY NodeAssumption DEF TypeOK
<1>2. /\ Counted(a) \in Health
      /\ Counted(a).restarted => health[a].restarted
      /\ Counted(a).escalated => health[a].escalated
      /\ OnTarget(a) => Counted(a).beats = 0
  BY <1>1 DEF Counted, Fresh, Health
<1>3. PICK h \in Health : h = Counted(a)
  BY <1>2
<1>4. Climbed(a) = [h EXCEPT !.restarted = @ \/ RestartDue(a),
                             !.escalated = @ \/ EscalationDue(a)]
  BY <1>3 DEF Climbed
<1>5. /\ Climbed(a).restarted = (h.restarted \/ RestartDue(a))
      /\ Climbed(a).escalated = (h.escalated \/ EscalationDue(a))
  BY <1>4 DEF Health
<1>6. /\ RestartDue(a) => ~OnTarget(a)
      /\ EscalationDue(a) => health[a].restarted
  BY <1>1, <1>2 DEF RestartDue, EscalationDue
<1> QED BY <1>2, <1>3, <1>5, <1>6

\* The handler asks for a restart, or there is one to wait for.
LEMMA AskedFor ==
    ASSUME TypeOK, AskInvariant, Handle, Told' = Told
    PROVE  \A a \in Aspect : health'[a].restarted /\ ~renewed'[a] => Waiting' # {}
<1> SUFFICES ASSUME NEW a \in Aspect, health'[a].restarted, ~renewed'[a]
             PROVE  Waiting' # {}
  OBVIOUS
<1>1. Restart \in Command /\ Restart.verb = "restart"
  BY DEF Restart, Command, Verb
<1>2. queue \in Seq(Command) /\ Told \subseteq DOMAIN queue
  BY DEF TypeOK, Told
<1>3. queue' = IF LadderQueues THEN Append(queue, Restart) ELSE queue
  BY DEF Handle
<1>4. health'[a] = Climbed(a) /\ renewed'[a] = (renewed[a] /\ ~RestartDue(a))
  BY DEF Handle
<1>5. Waiting \subseteq Waiting'
  BY <1>1, <1>2, <1>3, AppendKeeps DEF Waiting
<1>6. CASE RestartDue(a)
  <2>1. CASE LadderQueues
    <3>1. Len(queue) + 1 \in Waiting'
      BY <1>1, <1>2, <1>3, <2>1, AppendKeeps DEF Waiting
    <3> QED BY <3>1
  <2>2. CASE ~LadderQueues
    <3>1. PICK id \in Pending \ acks : queue[id].verb = "restart"
      BY <1>6, <2>2 DEF LadderQueues
    <3>2. id \in Waiting
      BY <3>1 DEF Waiting, Pending, Told
    <3> QED BY <1>5, <3>2
  <2> QED BY <2>1, <2>2
<1>7. CASE ~RestartDue(a)
  <2>1. health[a].restarted /\ ~renewed[a]
    BY <1>4, <1>7, Rungs
  <2> QED BY <1>5, <2>1 DEF AskInvariant
<1> QED BY <1>6, <1>7

\* Every step of a pass gives the aspect it is past its chance.
LEMMA TryStep ==
    TypeInvariant /\ TryInvariant /\ [Next]_vars => TryInvariant'
<1> SUFFICES ASSUME TypeInvariant, TryInvariant, [Next]_vars
             PROVE  TryInvariant'
  OBVIOUS
<1>a. /\ tried \in [Aspect -> BOOLEAN] /\ blocker \in [Aspect -> BOOLEAN]
      /\ applied \in [Aspect -> Version \cup {None}]
      /\ "product" \in Aspect /\ "drivers" \in Aspect
  BY DEF TypeInvariant, TypeOK, Aspect
<1>b. nudged => pc \in {"product", "install"}
  BY DEF TypeInvariant, NudgeIsShort
<1> USE DEF store, disk, memory, children, history, ladder, bounds
<1>c. ASSUME UNCHANGED <<tried, blocker, cache, applied, attempted>>,
             \/ pc' = pc \/ pc' \in {"commands", "act", "save", "ack", "product"}
             \/ pc = "reconcile" /\ pc' = "beat"
      PROVE  TryInvariant'
  BY <1>c DEF TryInvariant, Chance
<1>d. ASSUME Reborn  PROVE TryInvariant'
  BY <1>d DEF Reborn, TryInvariant, Chance, Aspect
<1>1. CASE Operator
  BY <1>1, <1>c DEF Operator, QueueCommand, Repin, ProductUpdate
<1>2. ASSUME NEW s \in Stack, Driver(s) \/ Dispatch(s)  PROVE TryInvariant'
  BY <1>2, <1>c, RunsFrame
<1>3. CASE BeatAnswered \/ AnswerLost \/ BeatUnreached
  BY <1>3 DEF BeatAnswered, AnswerLost, BeatUnreached, NewPass, TryInvariant
<1>4. CASE Defer \/ Accept \/ CommandsOver \/ DrainOrRecycle \/ SaveDrained \/ AckCommand \/ Nudge
  BY <1>4, <1>c
     DEF Defer, Accept, CommandsOver, DrainOrRecycle, SaveDrained, AckCommand,
         NextCommand, Nudge
<1>5. ASSUME NEW before \in SUBSET Stack, NEW s \in Stack, TeardownFails(before, s)
      PROVE  TryInvariant'
  BY <1>5, <1>c DEF TeardownFails, NextCommand
<1>6. CASE RestartDaemon \/ Crash \/ Install
  BY <1>6, <1>d DEF RestartDaemon, Crash, Install
<1>7. CASE ProductRests
  <2>1. pc' \in {"commands", "drivers"} /\ UNCHANGED <<tried, cache, applied, attempted>>
    BY <1>7 DEF ProductRests, Onward
  <2>2. attempted \/ cache["product"] = applied["product"]
    BY <1>7 DEF ProductRests
  <2> QED BY <2>1, <2>2 DEF TryInvariant, Chance
<1>8. CASE ProductDefers
  <2>1. /\ pc' \in {"commands", "drivers"} /\ attempted' = attempted /\ ~attempted
        /\ blocker'["product"]
    BY <1>8, <1>a DEF ProductDefers, Onward, OffPin
  <2> QED BY <2>1 DEF TryInvariant, Chance
<1>9. CASE ProductAttempt
  <2>1. pc' = "install" /\ attempted' /\ tried'["product"]
    BY <1>9, <1>a DEF ProductAttempt
  <2> QED BY <2>1 DEF TryInvariant
<1>10. ASSUME NEW stopped \in BOOLEAN, InstallFails(stopped)  PROVE TryInvariant'
  <2>1. /\ pc' \in {"commands", "drivers"} /\ attempted' = attempted /\ tried' = tried
        /\ tried["product"]
    BY <1>10 DEF InstallFails, Onward, TryInvariant
  <2> QED BY <2>1 DEF TryInvariant, Chance
<1>11. CASE DriversRest
  <2>1. /\ pc = "drivers" /\ pc' = "reconcile"
        /\ UNCHANGED <<tried, cache, applied, attempted>>
        /\ blocker'["product"] = blocker["product"]
        /\ cache["drivers"] = applied["drivers"]
    BY <1>11, <1>a DEF DriversRest
  <2> QED BY <2>1 DEF TryInvariant, Chance
<1>12. CASE DriversDefer
  <2>1. /\ pc = "drivers" /\ pc' = "reconcile"
        /\ UNCHANGED <<cache, applied, attempted>>
        /\ tried'["product"] = tried["product"]
        /\ blocker'["product"] = blocker["product"] /\ blocker'["drivers"]
    BY <1>12, <1>a DEF DriversDefer
  <2> QED BY <2>1 DEF TryInvariant, Chance
<1>13. CASE DriversAttempt
  <2>1. /\ pc = "drivers" /\ pc' = "swap"
        /\ UNCHANGED <<cache, applied, attempted>>
        /\ tried'["product"] = tried["product"] /\ tried'["drivers"]
        /\ blocker'["product"] = blocker["product"]
    BY <1>13, <1>a DEF DriversAttempt
  <2> QED BY <2>1 DEF TryInvariant, Chance
<1>14. ASSUME Swap \/ \E stopped \in BOOLEAN : SwapFails(stopped)
       PROVE  TryInvariant'
  <2>1. /\ pc = "swap" /\ pc' = "reconcile"
        /\ UNCHANGED <<tried, blocker, cache, attempted>>
        /\ applied'["product"] = applied["product"]
    BY <1>14, <1>a DEF Swap, SwapFails
  <2> QED BY <2>1 DEF TryInvariant, Chance
<1>15. CASE Reconcile
  BY <1>15, <1>c DEF Reconcile
<1>16. CASE UNCHANGED vars
  BY <1>16, <1>c DEF vars
<1> QED BY <1>1, <1>2, <1>3, <1>4, <1>5, <1>6, <1>7, <1>8, <1>9, <1>10, <1>11, <1>12,
          <1>13, <1>14, <1>15, <1>16 DEF Next, Daemon

\* Every step keeps the restart that a ladder waits for.
LEMMA AskStep ==
    TypeInvariant /\ OrderInvariant /\ DrainInvariant /\ AskInvariant /\ [Next]_vars
      => AskInvariant'
<1> SUFFICES ASSUME TypeInvariant, OrderInvariant, DrainInvariant, AskInvariant,
                    [Next]_vars
             PROVE  AskInvariant'
  OBVIOUS
<1>a. /\ TypeOK /\ queue \in Seq(Command) /\ Told \subseteq DOMAIN queue
      /\ pc \in {"act", "save", "ack"} => todo # {} /\ ~nudged
      /\ pc = "beat" => todo = {}
  BY DEF TypeInvariant, TypeOK, NudgeIsShort, OrderInvariant, Told
<1> USE DEF store, disk, memory, children, history, ladder, bounds
<1>b. ASSUME UNCHANGED <<health, renewed>>, Waiting \subseteq Waiting',
             \/ cut'
             \/ cut' = cut /\ Waiting \cap todo \subseteq Waiting' \cap todo'
      PROVE  AskInvariant'
  BY <1>b DEF AskInvariant
<1>c. ASSUME queue' = queue, Told' = Told  PROVE Waiting' = Waiting
  BY <1>c DEF Waiting
<1>d. done' = done /\ acks' = acks => Told' = Told
  BY DEF Told
<1>e. ASSUME Reborn  PROVE AskInvariant'
  BY <1>e DEF AskInvariant, Reborn
<1>f. ASSUME NEW c \in Command, queue' = Append(queue, c), Told' = Told
      PROVE  Waiting \subseteq Waiting'
  BY <1>a, <1>f, AppendKeeps DEF Waiting
<1>g. ASSUME Current.verb # "restart"  PROVE Id \notin Waiting
  BY <1>g DEF Waiting, Current
<1>h. ASSUME queue' = queue, Told' = Told \cup {Id}, Id \notin Waiting
      PROVE  Waiting' = Waiting
  BY <1>h DEF Waiting
<1>1. ASSUME NEW c \in Menu, QueueCommand(c)  PROVE AskInvariant'
  BY <1>1, <1>b, <1>d, <1>f, NodeAssumption DEF QueueCommand
<1>2. ASSUME NEW a \in Aspect, NEW v \in Version, Repin(a, v)  PROVE AskInvariant'
  BY <1>2, <1>b, <1>c, <1>d DEF Repin
<1>3. ASSUME NEW v \in Version, ProductUpdate(v)  PROVE AskInvariant'
  <2>1. [verb |-> "update", names |-> Stack, force |-> FALSE] \in Command
    BY DEF Command, Verb
  <2> QED BY <1>3, <1>b, <1>d, <1>f, <2>1 DEF ProductUpdate
<1>4. ASSUME NEW s \in Stack, Driver(s) \/ Dispatch(s)  PROVE AskInvariant'
  BY <1>4, <1>b, <1>c, <1>d, RunsFrame
<1>5. CASE BeatAnswered
  <2>1. /\ Handle /\ Told' = Told /\ done' = Told
        /\ todo' = (DOMAIN queue') \ done'
    BY <1>5 DEF BeatAnswered, Handle, Told
  <2>2. Waiting' \subseteq todo'
    BY <2>1 DEF Waiting
  <2> QED BY <1>a, <2>1, <2>2, AskedFor DEF AskInvariant
<1>6. CASE AnswerLost
  <2>1. Handle /\ Told' = Told /\ cut' = TRUE
    BY <1>6 DEF AnswerLost, Handle, Told
  <2> QED BY <1>a, <2>1, AskedFor DEF AskInvariant
<1>7. CASE BeatUnreached
  BY <1>7, <1>a, <1>b, <1>c, <1>d DEF BeatUnreached
<1>8. CASE Defer \/ Accept \/ CommandsOver
  BY <1>8, <1>b, <1>c, <1>d DEF Defer, Accept, CommandsOver
<1>9. CASE DrainOrRecycle \/ SaveDrained
  BY <1>9, <1>b, <1>c, <1>d DEF DrainOrRecycle, SaveDrained
<1>10. CASE AckCommand
  <2>1. /\ pc = "ack" /\ queue' = queue /\ Told' = Told \cup {Id}
        /\ todo' = todo \ {Id} /\ UNCHANGED <<health, renewed, cut>>
    BY <1>10 DEF AckCommand, Ack, NextCommand, Told
  <2>2. Id \notin Waiting
    BY <1>g, <2>1 DEF DrainInvariant
  <2>3. Waiting' = Waiting
    BY <1>h, <2>1, <2>2
  <2> QED BY <1>b, <2>1, <2>2, <2>3
<1>11. ASSUME NEW before \in SUBSET Stack, NEW s \in Stack, TeardownFails(before, s)
       PROVE  AskInvariant'
  <2>1. /\ queue' = queue /\ Told' = Told /\ todo' = todo \ {Id}
        /\ UNCHANGED <<health, renewed, cut>>
    BY <1>11 DEF TeardownFails, NextCommand, Told
  <2>2. Id \notin Waiting
    BY <1>11, <1>g DEF TeardownFails
  <2> QED BY <1>b, <1>c, <2>1, <2>2
<1>12. CASE Nudge
  <2>1. /\ queue' = queue /\ Told' = Told \cup {Id} /\ todo' = todo
        /\ UNCHANGED <<health, renewed, cut>>
    BY <1>12 DEF Nudge, Ack, Told
  <2>2. Id \notin Waiting
    BY <1>12, <1>g DEF Nudge
  <2> QED BY <1>b, <1>h, <2>1, <2>2
<1>13. CASE RestartDaemon \/ Crash \/ Install
  BY <1>13, <1>e DEF RestartDaemon, Crash, Install
<1>14. ASSUME Onward, UNCHANGED <<store, acks, ladder>>
       PROVE  AskInvariant'
  <2>1. nudged => Id \notin Waiting
    BY DEF OrderInvariant, Waiting, Told
  <2>2. todo' = todo \/ (todo' = todo \ {Id} /\ nudged)
    BY <1>14 DEF Onward
  <2> QED BY <1>14, <1>b, <1>c, <1>d, <2>1, <2>2
<1>15. CASE ProductRests \/ ProductDefers
  BY <1>14, <1>15 DEF ProductRests, ProductDefers
<1>16. CASE ProductAttempt
  BY <1>16, <1>b, <1>c, <1>d DEF ProductAttempt
<1>17. ASSUME NEW stopped \in BOOLEAN, InstallFails(stopped)  PROVE AskInvariant'
  BY <1>14, <1>17 DEF InstallFails
<1>18. CASE DriversRest \/ DriversDefer \/ DriversAttempt
  BY <1>18, <1>b, <1>c, <1>d DEF DriversRest, DriversDefer, DriversAttempt
<1>19. ASSUME Swap \/ \E stopped \in BOOLEAN : SwapFails(stopped)
       PROVE  AskInvariant'
  BY <1>19, <1>b, <1>c, <1>d DEF Swap, SwapFails
<1>20. CASE Reconcile
  BY <1>20, <1>b, <1>c, <1>d DEF Reconcile
<1>21. CASE UNCHANGED vars
  BY <1>21, <1>b, <1>c, <1>d DEF vars
<1> QED BY <1>1, <1>2, <1>3, <1>4, <1>5, <1>6, <1>7, <1>8, <1>9, <1>10, <1>11, <1>12,
          <1>13, <1>15, <1>16, <1>17, <1>18, <1>19, <1>20, <1>21
       DEF Next, Daemon, Operator

\* Only the handler of a heartbeat moves a ladder.
LEMMA OnlyBeatsMoveLadders ==
    ASSUME [Next]_vars
    PROVE  health' = health \/ (pc = "beat" /\ Handle)
<1> USE DEF store, disk, memory, children, history, ladder, bounds
<1>1. CASE Operator \/ \E s \in Stack : Driver(s) \/ Dispatch(s)
  BY <1>1, RunsFrame DEF Operator, QueueCommand, Repin, ProductUpdate
<1>2. CASE BeatAnswered \/ AnswerLost
  BY <1>2 DEF BeatAnswered, AnswerLost
<1>3. CASE BeatUnreached \/ Defer \/ Accept \/ CommandsOver \/ DrainOrRecycle
           \/ SaveDrained \/ AckCommand \/ Nudge \/ RestartDaemon \/ Crash
  BY <1>3 DEF BeatUnreached, Defer, Accept, CommandsOver, DrainOrRecycle, SaveDrained,
              AckCommand, Nudge, RestartDaemon, Crash
<1>4. CASE \/ \E before \in SUBSET Stack, s \in Stack : TeardownFails(before, s)
           \/ ProductRests \/ ProductDefers \/ ProductAttempt \/ Install
           \/ \E stopped \in BOOLEAN : InstallFails(stopped) \/ SwapFails(stopped)
           \/ DriversRest \/ DriversDefer \/ DriversAttempt \/ Swap \/ Reconcile
  BY <1>4 DEF TeardownFails, ProductRests, ProductDefers, ProductAttempt, Install,
              InstallFails, SwapFails, DriversRest, DriversDefer, DriversAttempt, Swap,
              Reconcile
<1>5. CASE UNCHANGED vars
  BY <1>5 DEF vars
<1> QED BY <1>1, <1>2, <1>3, <1>4, <1>5 DEF Next, Daemon

\* For every patience, any number of Runs and failures and whatever is lost or
\* dies: a node is restarted only after a try, and escalated only over a
\* restart that was asked for and that replaced the daemon, unless the last
\* pass left commands unseen.
THEOREM LaddersClimbInOrder == Spec => LadderInOrder
<1> DEFINE Inv == /\ TypeInvariant /\ OrderInvariant /\ DrainInvariant
                  /\ TryInvariant /\ AskInvariant
<1>1. Init => Inv
  <2> SUFFICES ASSUME Init
               PROVE  OrderInvariant /\ DrainInvariant /\ TryInvariant /\ AskInvariant
    BY InitTypes
  <2>1. queue = <<>> /\ DOMAIN queue = {}
    BY DEF Init
  <2> QED BY <2>1 DEF Init, OrderInvariant, Told, DrainInvariant, Follows, HasLast,
                      ToldOf, WordsIn, TryInvariant, Chance, AskInvariant, Fresh, Aspect
<1>2. Inv /\ [Next]_vars => Inv'
  BY TypeStep, OrderStep, DrainStep, TryStep, AskStep
<1>3. ASSUME Inv, [Next]_vars, NEW a \in Aspect, health' # health
      PROVE  /\ ~health[a].restarted /\ health'[a].restarted =>
                  tried[a] \/ cache[a] # desired[a]
             /\ ~health[a].escalated /\ health'[a].escalated =>
                  health[a].restarted /\ (renewed[a] \/ cut)
  <2>1. pc = "beat" /\ health'[a] = Climbed(a) /\ TypeOK
    BY <1>3, OnlyBeatsMoveLadders DEF Handle, TypeInvariant
  <2>2. ASSUME ~health[a].restarted, health'[a].restarted
        PROVE  tried[a] \/ cache[a] # desired[a]
    <3>1. ~OnTarget(a)
      BY <2>1, <2>2, Rungs
    <3>2. Chance(a)
      BY <1>3, <2>1 DEF TryInvariant, Aspect
    <3> QED BY <3>1, <3>2 DEF OnTarget, Deferred, Chance
  <2>3. ASSUME ~health[a].escalated, health'[a].escalated
        PROVE  health[a].restarted /\ (renewed[a] \/ cut)
    <3>1. health[a].restarted
      BY <2>1, <2>3, Rungs
    <3>2. todo = {}
      BY <1>3, <2>1 DEF OrderInvariant
    <3> QED BY <1>3, <3>1, <3>2 DEF AskInvariant
  <2> QED BY <2>2, <2>3
<1>4. Inv /\ [Next]_vars =>
        /\ [\A a \in Aspect : (pc = "beat" /\ pc' = "commands"
                                 /\ ~health[a].restarted /\ health'[a].restarted)
               => tried[a] \/ cache[a] # desired[a]]_vars
        /\ [\A a \in Aspect : (~health[a].escalated /\ health'[a].escalated) =>
               health[a].restarted /\ (renewed[a] \/ cut)]_vars
  BY <1>3
<1>5. Spec => [][\A a \in Aspect : (pc = "beat" /\ pc' = "commands"
                                 /\ ~health[a].restarted /\ health'[a].restarted)
                    => tried[a] \/ cache[a] # desired[a]]_vars
  BY <1>1, <1>2, <1>4, PTL DEF Spec
<1>6. Spec => [][\A a \in Aspect : (~health[a].escalated /\ health'[a].escalated) =>
                    health[a].restarted /\ (renewed[a] \/ cut)]_vars
  BY <1>1, <1>2, <1>4, PTL DEF Spec
<1> QED BY <1>5, <1>6, PTL DEF LadderInOrder, RestartOnlyAfterTry, EscalatesAfterRestart
=============================================================================
