--------------------------- MODULE StackForms_proofs ---------------------------
(***************************************************************************)
(* Proofs about the forms of one Stack on a Container-Host, for all        *)
(* specifications, all desired states and all bounds: one form runs, what  *)
(* runs can be taken down again, and no Run in flight is ended by a pass   *)
(* that saw it.                                                            *)
(***************************************************************************)
EXTENDS StackForms, TLAPS, SequenceTheorems

-----------------------------------------------------------------------------
\* What a pass has left to do, by what it is for.

ProcessRest ==
    {<<"stop", "unimage", "down", "start", "reap", "sweep">>,
     <<"unimage", "down", "start", "reap", "sweep">>,
     <<"down", "start", "reap", "sweep">>,
     <<"start", "reap", "sweep">>}
ImageRest ==
    {<<"stop", "down", "run", "reap", "sweep">>,
     <<"down", "run", "reap", "sweep">>,
     <<"run", "reap", "sweep">>}

\* Of a project's, those that still stop the child, remove the image.
ProjectStops ==
    {<<"record", "stop", "unimage", "up", "confirm", "reap", "sweep">>,
     <<"record", "stop", "up", "confirm", "reap", "sweep">>,
     <<"stop", "unimage", "up", "confirm", "reap", "sweep">>,
     <<"stop", "up", "confirm", "reap", "sweep">>}
ProjectUnimages ==
    {<<"record", "stop", "unimage", "up", "confirm", "reap", "sweep">>,
     <<"record", "unimage", "up", "confirm", "reap", "sweep">>,
     <<"stop", "unimage", "up", "confirm", "reap", "sweep">>,
     <<"unimage", "up", "confirm", "reap", "sweep">>}
ProjectRest ==
    ProjectStops \cup ProjectUnimages
      \cup {<<"record", "up", "confirm", "reap", "sweep">>,
            <<"up", "confirm", "reap", "sweep">>, <<"confirm", "reap", "sweep">>}
DownRest ==
    {<<"stop", "unimage", "down", "untracked", "reap", "sweep">>,
     <<"unimage", "down", "untracked", "reap", "sweep">>,
     <<"down", "untracked", "reap", "sweep">>,
     <<"untracked", "reap", "sweep">>}
RefusedRest == {<<"stop", "reap", "sweep">>}

\* Of a pass that has nothing to start, and between two passes.
OtherRest ==
    {<<"unimage", "down", "reap", "sweep">>, <<"down", "reap", "sweep">>,
     <<"reap", "sweep">>, <<"sweep">>, <<"look">>, << >>}

Remaining ==
    ProcessRest \cup ImageRest \cup ProjectRest \cup DownRest \cup RefusedRest \cup OtherRest

-----------------------------------------------------------------------------
\* The inductive invariant.

Types ==
    /\ desired \in Desires
    /\ child \in Child \cup {None} /\ busy \in BOOLEAN /\ corpse \in BOOLEAN
    /\ image \in Container \cup {None} /\ project \in Container \cup {None}
    /\ record \in Record \cup {None} /\ recordDisk \in Record \cup {None}
    /\ generations \subseteq Fingerprint
    /\ late \in BOOLEAN
    /\ left \in [Budget -> Nat] /\ left["loss"] <= MaxLosses

\* The record in memory is the one on disk, or a confirmation ahead of it; a
\* project is in both, with the files to take it down.
RecordsAgree ==
    /\ record # None => recordDisk # None /\ recordDisk.spec = record.spec
    /\ record # None /\ record.state = "pending" => recordDisk = record
    /\ project # None /\ recordDisk # None => record # None
    /\ Undamaged /\ project # None =>
         record # None /\ record.spec \in generations /\ project.spec \in generations
    /\ project # None /\ record # None /\ record.state = "applied" =>
         project.spec = record.spec

\* What the steps a pass has taken have established for those it has left.
ForProcess ==
    /\ todo \in ProcessRest /\ Wants("process") /\ ~Refused
    /\ Head(todo) = "stop" /\ busy => late
    /\ Head(todo) \in {"down", "start"} => image = None
    /\ Head(todo) = "start" /\ Undamaged => project = None
ForImage ==
    /\ todo \in ImageRest /\ Wants("image")
    /\ Head(todo) = "stop" /\ busy => late
    /\ Head(todo) # "stop" => child = None
    /\ Head(todo) = "run" /\ Undamaged => project = None
ForProject ==
    /\ todo \in ProjectRest /\ Wants("compose")
    /\ todo \in ProjectStops /\ busy => late
    /\ todo \notin ProjectStops => child = None
    /\ todo \notin ProjectUnimages => image = None
    /\ Head(todo) # "record" =>
         record = [spec |-> desired.spec, state |-> "pending"] /\ desired.spec \in generations
    /\ Head(todo) = "confirm" => project # None /\ project.spec = desired.spec
ForDown == todo \in DownRest /\ ~Up
ForRefused == todo \in RefusedRest /\ Refused
ForOther == todo \in OtherRest

PassKnows == ForProcess \/ ForImage \/ ForProject \/ ForDown \/ ForRefused \/ ForOther

IInv == Types /\ RecordsAgree /\ PassKnows /\ OneForm /\ (busy => Alive)

-----------------------------------------------------------------------------
\* Plans: tuples that are joined.

LEMMA Joined ==
  ASSUME NEW Step, NEW s \in Seq(Step), NEW t \in Seq(Step), NEW u \in Seq(Step),
         Len(u) = Len(s) + Len(t), \A i \in 1 .. Len(s) : u[i] = s[i],
         \A i \in 1 .. Len(t) : u[Len(s) + i] = t[i]
  PROVE  s \o t = u
<1>1. s \o t \in Seq(Step) /\ Len(s \o t) = Len(u)
  BY ConcatProperties
<1>2. ASSUME NEW i \in 1 .. Len(u)
      PROVE  (s \o t)[i] = u[i]
  <2>1. Len(s) \in Nat /\ Len(t) \in Nat
    OBVIOUS
  <2>2. CASE i <= Len(s)
    BY <2>1, <2>2, ConcatProperties
  <2>3. CASE i > Len(s)
    <3>1. i - Len(s) \in 1 .. Len(t) /\ i = Len(s) + (i - Len(s))
      BY <2>1, <2>3
    <3>2. u[i] = t[i - Len(s)]
      BY <3>1
    <3> QED BY <2>1, <2>3, <3>2, ConcatProperties
  <2> QED BY <2>1, <2>2, <2>3
<1> QED BY <1>1, <1>2, SeqEqual



LEMMA Concat11 ==
  ASSUME NEW a, NEW b
  PROVE  <<a>> \o <<b>> = <<a, b>>
<1> DEFINE S == {a, b}
<1> DEFINE s == <<a>>
<1> DEFINE t == <<b>>
<1> DEFINE u == <<a, b>>
<1>1. s \in Seq(S) /\ t \in Seq(S) /\ u \in Seq(S) /\ Len(u) = Len(s) + Len(t)
  OBVIOUS
<1>2. \A i \in 1 .. Len(s) : u[i] = s[i]
  OBVIOUS
<1>3. \A i \in 1 .. Len(t) : u[Len(s) + i] = t[i]
  OBVIOUS
<1> HIDE DEF S, s, t, u
<1>4. s \o t = u
  BY <1>1, <1>2, <1>3, Joined
<1> QED BY <1>4 DEF s, t, u

LEMMA Concat21 ==
  ASSUME NEW a, NEW b, NEW c
  PROVE  <<a, b>> \o <<c>> = <<a, b, c>>
<1> DEFINE S == {a, b, c}
<1> DEFINE s == <<a, b>>
<1> DEFINE t == <<c>>
<1> DEFINE u == <<a, b, c>>
<1>1. s \in Seq(S) /\ t \in Seq(S) /\ u \in Seq(S) /\ Len(u) = Len(s) + Len(t)
  OBVIOUS
<1>2. \A i \in 1 .. Len(s) : u[i] = s[i]
  OBVIOUS
<1>3. \A i \in 1 .. Len(t) : u[Len(s) + i] = t[i]
  OBVIOUS
<1> HIDE DEF S, s, t, u
<1>4. s \o t = u
  BY <1>1, <1>2, <1>3, Joined
<1> QED BY <1>4 DEF s, t, u

LEMMA Concat12 ==
  ASSUME NEW a, NEW b, NEW c
  PROVE  <<a>> \o <<b, c>> = <<a, b, c>>
<1> DEFINE S == {a, b, c}
<1> DEFINE s == <<a>>
<1> DEFINE t == <<b, c>>
<1> DEFINE u == <<a, b, c>>
<1>1. s \in Seq(S) /\ t \in Seq(S) /\ u \in Seq(S) /\ Len(u) = Len(s) + Len(t)
  OBVIOUS
<1>2. \A i \in 1 .. Len(s) : u[i] = s[i]
  OBVIOUS
<1>3. \A i \in 1 .. Len(t) : u[Len(s) + i] = t[i]
  OBVIOUS
<1> HIDE DEF S, s, t, u
<1>4. s \o t = u
  BY <1>1, <1>2, <1>3, Joined
<1> QED BY <1>4 DEF s, t, u

LEMMA Concat13 ==
  ASSUME NEW a, NEW b, NEW c, NEW d
  PROVE  <<a>> \o <<b, c, d>> = <<a, b, c, d>>
<1> DEFINE S == {a, b, c, d}
<1> DEFINE s == <<a>>
<1> DEFINE t == <<b, c, d>>
<1> DEFINE u == <<a, b, c, d>>
<1>1. s \in Seq(S) /\ t \in Seq(S) /\ u \in Seq(S) /\ Len(u) = Len(s) + Len(t)
  OBVIOUS
<1>2. \A i \in 1 .. Len(s) : u[i] = s[i]
  OBVIOUS
<1>3. \A i \in 1 .. Len(t) : u[Len(s) + i] = t[i]
  OBVIOUS
<1> HIDE DEF S, s, t, u
<1>4. s \o t = u
  BY <1>1, <1>2, <1>3, Joined
<1> QED BY <1>4 DEF s, t, u

LEMMA Concat22 ==
  ASSUME NEW a, NEW b, NEW c, NEW d
  PROVE  <<a, b>> \o <<c, d>> = <<a, b, c, d>>
<1> DEFINE S == {a, b, c, d}
<1> DEFINE s == <<a, b>>
<1> DEFINE t == <<c, d>>
<1> DEFINE u == <<a, b, c, d>>
<1>1. s \in Seq(S) /\ t \in Seq(S) /\ u \in Seq(S) /\ Len(u) = Len(s) + Len(t)
  OBVIOUS
<1>2. \A i \in 1 .. Len(s) : u[i] = s[i]
  OBVIOUS
<1>3. \A i \in 1 .. Len(t) : u[Len(s) + i] = t[i]
  OBVIOUS
<1> HIDE DEF S, s, t, u
<1>4. s \o t = u
  BY <1>1, <1>2, <1>3, Joined
<1> QED BY <1>4 DEF s, t, u

LEMMA Concat32 ==
  ASSUME NEW a, NEW b, NEW c, NEW d, NEW e
  PROVE  <<a, b, c>> \o <<d, e>> = <<a, b, c, d, e>>
<1> DEFINE S == {a, b, c, d, e}
<1> DEFINE s == <<a, b, c>>
<1> DEFINE t == <<d, e>>
<1> DEFINE u == <<a, b, c, d, e>>
<1>1. s \in Seq(S) /\ t \in Seq(S) /\ u \in Seq(S) /\ Len(u) = Len(s) + Len(t)
  OBVIOUS
<1>2. \A i \in 1 .. Len(s) : u[i] = s[i]
  OBVIOUS
<1>3. \A i \in 1 .. Len(t) : u[Len(s) + i] = t[i]
  OBVIOUS
<1> HIDE DEF S, s, t, u
<1>4. s \o t = u
  BY <1>1, <1>2, <1>3, Joined
<1> QED BY <1>4 DEF s, t, u

LEMMA Concat42 ==
  ASSUME NEW a, NEW b, NEW c, NEW d, NEW e, NEW f
  PROVE  <<a, b, c, d>> \o <<e, f>> = <<a, b, c, d, e, f>>
<1> DEFINE S == {a, b, c, d, e, f}
<1> DEFINE s == <<a, b, c, d>>
<1> DEFINE t == <<e, f>>
<1> DEFINE u == <<a, b, c, d, e, f>>
<1>1. s \in Seq(S) /\ t \in Seq(S) /\ u \in Seq(S) /\ Len(u) = Len(s) + Len(t)
  OBVIOUS
<1>2. \A i \in 1 .. Len(s) : u[i] = s[i]
  OBVIOUS
<1>3. \A i \in 1 .. Len(t) : u[Len(s) + i] = t[i]
  OBVIOUS
<1> HIDE DEF S, s, t, u
<1>4. s \o t = u
  BY <1>1, <1>2, <1>3, Joined
<1> QED BY <1>4 DEF s, t, u

LEMMA Concat52 ==
  ASSUME NEW a, NEW b, NEW c, NEW d, NEW e, NEW f, NEW g
  PROVE  <<a, b, c, d, e>> \o <<f, g>> = <<a, b, c, d, e, f, g>>
<1> DEFINE S == {a, b, c, d, e, f, g}
<1> DEFINE s == <<a, b, c, d, e>>
<1> DEFINE t == <<f, g>>
<1> DEFINE u == <<a, b, c, d, e, f, g>>
<1>1. s \in Seq(S) /\ t \in Seq(S) /\ u \in Seq(S) /\ Len(u) = Len(s) + Len(t)
  OBVIOUS
<1>2. \A i \in 1 .. Len(s) : u[i] = s[i]
  OBVIOUS
<1>3. \A i \in 1 .. Len(t) : u[Len(s) + i] = t[i]
  OBVIOUS
<1> HIDE DEF S, s, t, u
<1>4. s \o t = u
  BY <1>1, <1>2, <1>3, Joined
<1> QED BY <1>4 DEF s, t, u

\* Every plan ends with the same two steps.
LEMMA Closes ==
  /\ << >> \o Closing = <<"reap", "sweep">>
  /\ <<"stop">> \o Closing = <<"stop", "reap", "sweep">>
  /\ <<"unimage", "down">> \o Closing = <<"unimage", "down", "reap", "sweep">>
  /\ <<"unimage", "down", "untracked">> \o Closing =
       <<"unimage", "down", "untracked", "reap", "sweep">>
  /\ <<"stop", "unimage", "down", "untracked">> \o Closing =
       <<"stop", "unimage", "down", "untracked", "reap", "sweep">>
  /\ <<"unimage", "down", "start">> \o Closing = <<"unimage", "down", "start", "reap", "sweep">>
  /\ <<"stop", "unimage", "down", "start">> \o Closing =
       <<"stop", "unimage", "down", "start", "reap", "sweep">>
  /\ <<"down", "run">> \o Closing = <<"down", "run", "reap", "sweep">>
  /\ <<"stop", "down", "run">> \o Closing = <<"stop", "down", "run", "reap", "sweep">>
<1>1. << >> \o <<"reap", "sweep">> = <<"reap", "sweep">>
  OBVIOUS
<1>2. <<"stop">> \o <<"reap", "sweep">> = <<"stop", "reap", "sweep">>
  BY Concat12
<1>3. /\ <<"unimage", "down">> \o <<"reap", "sweep">> = <<"unimage", "down", "reap", "sweep">>
      /\ <<"down", "run">> \o <<"reap", "sweep">> = <<"down", "run", "reap", "sweep">>
  BY Concat22
<1>4. /\ <<"unimage", "down", "untracked">> \o <<"reap", "sweep">> =
           <<"unimage", "down", "untracked", "reap", "sweep">>
      /\ <<"unimage", "down", "start">> \o <<"reap", "sweep">> =
           <<"unimage", "down", "start", "reap", "sweep">>
      /\ <<"stop", "down", "run">> \o <<"reap", "sweep">> =
           <<"stop", "down", "run", "reap", "sweep">>
  BY Concat32
<1>5. /\ <<"stop", "unimage", "down", "untracked">> \o <<"reap", "sweep">> =
           <<"stop", "unimage", "down", "untracked", "reap", "sweep">>
      /\ <<"stop", "unimage", "down", "start">> \o <<"reap", "sweep">> =
           <<"stop", "unimage", "down", "start", "reap", "sweep">>
  BY Concat42
<1> QED BY <1>1, <1>2, <1>3, <1>4, <1>5 DEF Closing

LEMMA DownPlan ==
  ASSUME NEW p, NEW s, s = (If(p, "stop") \o <<"unimage", "down", "untracked">>) \o Closing
  PROVE  s \in DownRest
<1>1. CASE p
  <2>1. If(p, "stop") = <<"stop">>
    BY <1>1 DEF If
  <2>2. <<"stop">> \o <<"unimage", "down", "untracked">> = <<"stop", "unimage", "down", "untracked">>
    BY Concat13
  <2> QED BY <2>1, <2>2, Closes DEF DownRest
<1>2. CASE ~p
  <2>1. If(p, "stop") = << >>
    BY <1>2 DEF If
  <2>2. << >> \o <<"unimage", "down", "untracked">> = <<"unimage", "down", "untracked">>
    OBVIOUS
  <2> QED BY <2>1, <2>2, Closes DEF DownRest
<1> QED BY <1>1, <1>2

LEMMA ProcessPlan ==
  ASSUME NEW p, NEW s, s = (If(p, "stop") \o <<"unimage", "down", "start">>) \o Closing
  PROVE  s \in ProcessRest /\ (p => Head(s) = "stop") /\ (~p => Head(s) = "unimage")
<1>1. CASE p
  <2>1. If(p, "stop") = <<"stop">>
    BY <1>1 DEF If
  <2>2. <<"stop">> \o <<"unimage", "down", "start">> = <<"stop", "unimage", "down", "start">>
    BY Concat13
  <2>3. s = <<"stop", "unimage", "down", "start", "reap", "sweep">>
    BY <2>1, <2>2, Closes
  <2>4. \A x : x = <<"stop", "unimage", "down", "start", "reap", "sweep">> =>
          x \in ProcessRest /\ Head(x) = "stop"
    BY DEF ProcessRest
  <2> QED BY <1>1, <2>3, <2>4
<1>2. CASE ~p
  <2>1. If(p, "stop") = << >>
    BY <1>2 DEF If
  <2>2. << >> \o <<"unimage", "down", "start">> = <<"unimage", "down", "start">>
    OBVIOUS
  <2>3. s = <<"unimage", "down", "start", "reap", "sweep">>
    BY <2>1, <2>2, Closes
  <2>4. \A x : x = <<"unimage", "down", "start", "reap", "sweep">> =>
          x \in ProcessRest /\ Head(x) = "unimage"
    BY DEF ProcessRest
  <2> QED BY <1>2, <2>3, <2>4
<1> QED BY <1>1, <1>2

LEMMA ImagePlan ==
  ASSUME NEW p, NEW s, s = (If(p, "stop") \o <<"down", "run">>) \o Closing
  PROVE  s \in ImageRest /\ (p => Head(s) = "stop") /\ (~p => Head(s) = "down")
<1>1. CASE p
  <2>1. If(p, "stop") = <<"stop">>
    BY <1>1 DEF If
  <2>2. <<"stop">> \o <<"down", "run">> = <<"stop", "down", "run">>
    BY Concat12
  <2>3. s = <<"stop", "down", "run", "reap", "sweep">>
    BY <2>1, <2>2, Closes
  <2>4. \A x : x = <<"stop", "down", "run", "reap", "sweep">> =>
          x \in ImageRest /\ Head(x) = "stop"
    BY DEF ImageRest
  <2> QED BY <1>1, <2>3, <2>4
<1>2. CASE ~p
  <2>1. If(p, "stop") = << >>
    BY <1>2 DEF If
  <2>2. << >> \o <<"down", "run">> = <<"down", "run">>
    OBVIOUS
  <2>3. s = <<"down", "run", "reap", "sweep">>
    BY <2>1, <2>2, Closes
  <2>4. \A x : x = <<"down", "run", "reap", "sweep">> =>
          x \in ImageRest /\ Head(x) = "down"
    BY DEF ImageRest
  <2> QED BY <1>2, <2>3, <2>4
<1> QED BY <1>1, <1>2

LEMMA ProjectPlan ==
  ASSUME NEW p, NEW q, NEW s,
         s = (<<"record">> \o If(p, "stop") \o If(q, "unimage") \o <<"up", "confirm">>) \o Closing
  PROVE  /\ s \in ProjectRest /\ Head(s) = "record"
         /\ p => s \in ProjectStops
         /\ q => s \in ProjectUnimages
<1>1. CASE p /\ q
  <2>1. If(p, "stop") = <<"stop">> /\ If(q, "unimage") = <<"unimage">>
    BY <1>1 DEF If
  <2>2. /\ <<"record">> \o <<"stop">> = <<"record", "stop">>
        /\ <<"record", "stop">> \o <<"unimage">> = <<"record", "stop", "unimage">>
    BY Concat11, Concat21
  <2>3. <<"record", "stop", "unimage">> \o <<"up", "confirm">> =
          <<"record", "stop", "unimage", "up", "confirm">>
    BY Concat32
  <2>4. <<"record", "stop", "unimage", "up", "confirm">> \o <<"reap", "sweep">> =
          <<"record", "stop", "unimage", "up", "confirm", "reap", "sweep">>
    BY Concat52
  <2>5. s = <<"record", "stop", "unimage", "up", "confirm", "reap", "sweep">>
    BY <2>1, <2>2, <2>3, <2>4 DEF Closing
  <2>6. \A x : x = <<"record", "stop", "unimage", "up", "confirm", "reap", "sweep">> =>
          x \in ProjectRest /\ Head(x) = "record" /\ x \in ProjectStops /\ x \in ProjectUnimages
    BY DEF ProjectRest, ProjectStops, ProjectUnimages
  <2> QED BY <1>1, <2>5, <2>6
<1>2. CASE p /\ ~q
  <2>1. If(p, "stop") = <<"stop">> /\ If(q, "unimage") = << >>
    BY <1>2 DEF If
  <2>2. /\ <<"record">> \o <<"stop">> = <<"record", "stop">>
        /\ <<"record", "stop">> \o << >> = <<"record", "stop">>
    BY Concat11
  <2>3. <<"record", "stop">> \o <<"up", "confirm">> = <<"record", "stop", "up", "confirm">>
    BY Concat22
  <2>4. <<"record", "stop", "up", "confirm">> \o <<"reap", "sweep">> =
          <<"record", "stop", "up", "confirm", "reap", "sweep">>
    BY Concat42
  <2>5. s = <<"record", "stop", "up", "confirm", "reap", "sweep">>
    BY <2>1, <2>2, <2>3, <2>4 DEF Closing
  <2>6. \A x : x = <<"record", "stop", "up", "confirm", "reap", "sweep">> =>
          x \in ProjectRest /\ Head(x) = "record" /\ x \in ProjectStops
    BY DEF ProjectRest, ProjectStops, ProjectUnimages
  <2> QED BY <1>2, <2>5, <2>6
<1>3. CASE ~p /\ q
  <2>1. If(p, "stop") = << >> /\ If(q, "unimage") = <<"unimage">>
    BY <1>3 DEF If
  <2>2. /\ <<"record">> \o << >> = <<"record">>
        /\ <<"record">> \o <<"unimage">> = <<"record", "unimage">>
    BY Concat11
  <2>3. <<"record", "unimage">> \o <<"up", "confirm">> = <<"record", "unimage", "up", "confirm">>
    BY Concat22
  <2>4. <<"record", "unimage", "up", "confirm">> \o <<"reap", "sweep">> =
          <<"record", "unimage", "up", "confirm", "reap", "sweep">>
    BY Concat42
  <2>5. s = <<"record", "unimage", "up", "confirm", "reap", "sweep">>
    BY <2>1, <2>2, <2>3, <2>4 DEF Closing
  <2>6. \A x : x = <<"record", "unimage", "up", "confirm", "reap", "sweep">> =>
          x \in ProjectRest /\ Head(x) = "record" /\ x \in ProjectUnimages
    BY DEF ProjectRest, ProjectStops, ProjectUnimages
  <2> QED BY <1>3, <2>5, <2>6
<1>4. CASE ~p /\ ~q
  <2>1. If(p, "stop") = << >> /\ If(q, "unimage") = << >>
    BY <1>4 DEF If
  <2>2. <<"record">> \o << >> = <<"record">>
    OBVIOUS
  <2>3. <<"record">> \o <<"up", "confirm">> = <<"record", "up", "confirm">>
    BY Concat12
  <2>4. <<"record", "up", "confirm">> \o <<"reap", "sweep">> =
          <<"record", "up", "confirm", "reap", "sweep">>
    BY Concat32
  <2>5. s = <<"record", "up", "confirm", "reap", "sweep">>
    BY <2>1, <2>2, <2>3, <2>4 DEF Closing
  <2>6. \A x : x = <<"record", "up", "confirm", "reap", "sweep">> =>
          x \in ProjectRest /\ Head(x) = "record"
    BY DEF ProjectRest, ProjectStops, ProjectUnimages
  <2> QED BY <1>4, <2>5, <2>6
<1> QED BY <1>1, <1>2, <1>3, <1>4

-----------------------------------------------------------------------------
\* Plans: what comes after a step.

AnyStep == {"look", "stop", "unimage", "down", "untracked", "start",
            "run", "record", "up", "confirm", "reap", "sweep"}

LEMMA ProcessNext ==
  ASSUME NEW s \in ProcessRest
  PROVE  /\ s \in Seq(AnyStep) /\ s # << >> /\ Head(s) \in {"stop", "unimage", "down", "start"}
         /\ Head(s) = "stop" => Tail(s) \in ProcessRest /\ Head(Tail(s)) = "unimage"
         /\ Head(s) = "unimage" => Tail(s) \in ProcessRest /\ Head(Tail(s)) = "down"
         /\ Head(s) = "down" => Tail(s) \in ProcessRest /\ Head(Tail(s)) = "start"
         /\ Head(s) = "start" => Tail(s) \in OtherRest
<1>1. CASE s = <<"stop", "unimage", "down", "start", "reap", "sweep">>
  BY <1>1 DEF ProcessRest, AnyStep
<1>2. CASE s = <<"unimage", "down", "start", "reap", "sweep">>
  BY <1>2 DEF ProcessRest, AnyStep
<1>3. CASE s = <<"down", "start", "reap", "sweep">>
  BY <1>3 DEF ProcessRest, AnyStep
<1>4. CASE s = <<"start", "reap", "sweep">>
  BY <1>4 DEF OtherRest, AnyStep
<1> QED BY <1>1, <1>2, <1>3, <1>4 DEF ProcessRest

LEMMA ImageNext ==
  ASSUME NEW s \in ImageRest
  PROVE  /\ s \in Seq(AnyStep) /\ s # << >> /\ Head(s) \in {"stop", "down", "run"}
         /\ Head(s) = "stop" => Tail(s) \in ImageRest /\ Head(Tail(s)) = "down"
         /\ Head(s) = "down" => Tail(s) \in ImageRest /\ Head(Tail(s)) = "run"
         /\ Head(s) = "run" => Tail(s) \in OtherRest
<1>1. CASE s = <<"stop", "down", "run", "reap", "sweep">>
  BY <1>1 DEF ImageRest, AnyStep
<1>2. CASE s = <<"down", "run", "reap", "sweep">>
  BY <1>2 DEF ImageRest, AnyStep
<1>3. CASE s = <<"run", "reap", "sweep">>
  BY <1>3 DEF OtherRest, AnyStep
<1> QED BY <1>1, <1>2, <1>3 DEF ImageRest

LEMMA ProjectNext ==
  ASSUME NEW s \in ProjectRest
  PROVE  /\ s \in Seq(AnyStep) /\ s # << >> /\ Head(s) \in {"record", "stop", "unimage", "up", "confirm"}
         /\ Head(s) # "confirm" => Tail(s) \in ProjectRest /\ Head(Tail(s)) # "record"
         /\ Head(s) = "confirm" => Tail(s) \in OtherRest
         /\ Head(s) = "up" <=> Head(Tail(s)) = "confirm"
         /\ Head(s) = "record" => (Tail(s) \in ProjectStops <=> s \in ProjectStops)
         /\ Head(s) # "unimage" => (Tail(s) \in ProjectUnimages <=> s \in ProjectUnimages)
         /\ Head(s) = "stop" => s \in ProjectStops /\ Tail(s) \notin ProjectStops
         /\ Head(s) \in {"unimage", "up", "confirm"} =>
              s \notin ProjectStops /\ Tail(s) \notin ProjectStops
         /\ Head(s) \in {"up", "confirm"} => s \notin ProjectUnimages
<1> USE DEF ProjectRest, ProjectStops, ProjectUnimages, OtherRest, AnyStep
<1>1. CASE s = <<"record", "stop", "unimage", "up", "confirm", "reap", "sweep">>
  BY <1>1
<1>2. CASE s = <<"record", "stop", "up", "confirm", "reap", "sweep">>
  BY <1>2
<1>3. CASE s = <<"record", "unimage", "up", "confirm", "reap", "sweep">>
  BY <1>3
<1>4. CASE s = <<"record", "up", "confirm", "reap", "sweep">>
  BY <1>4
<1>5. CASE s = <<"stop", "unimage", "up", "confirm", "reap", "sweep">>
  BY <1>5
<1>6. CASE s = <<"stop", "up", "confirm", "reap", "sweep">>
  BY <1>6
<1>7. CASE s = <<"unimage", "up", "confirm", "reap", "sweep">>
  BY <1>7
<1>8. CASE s = <<"up", "confirm", "reap", "sweep">>
  BY <1>8
<1>9. CASE s = <<"confirm", "reap", "sweep">>
  BY <1>9
<1> QED BY <1>1, <1>2, <1>3, <1>4, <1>5, <1>6, <1>7, <1>8, <1>9

LEMMA DownNext ==
  ASSUME NEW s \in DownRest
  PROVE  /\ s \in Seq(AnyStep) /\ s # << >> /\ Head(s) \in {"stop", "unimage", "down", "untracked"}
         /\ Head(s) # "untracked" => Tail(s) \in DownRest
         /\ Head(s) = "untracked" => Tail(s) \in OtherRest
<1>1. CASE s = <<"stop", "unimage", "down", "untracked", "reap", "sweep">>
  BY <1>1 DEF DownRest, AnyStep
<1>2. CASE s = <<"unimage", "down", "untracked", "reap", "sweep">>
  BY <1>2 DEF DownRest, AnyStep
<1>3. CASE s = <<"down", "untracked", "reap", "sweep">>
  BY <1>3 DEF DownRest, AnyStep
<1>4. CASE s = <<"untracked", "reap", "sweep">>
  BY <1>4 DEF OtherRest, AnyStep
<1> QED BY <1>1, <1>2, <1>3, <1>4 DEF DownRest

LEMMA RefusedNext ==
  ASSUME NEW s \in RefusedRest
  PROVE  s \in Seq(AnyStep) /\ s # << >> /\ Head(s) = "stop" /\ Tail(s) \in OtherRest
<1>1. s = <<"stop", "reap", "sweep">>
  BY DEF RefusedRest
<1> QED BY <1>1 DEF OtherRest, AnyStep

LEMMA OtherNext ==
  ASSUME NEW s \in OtherRest
  PROVE  /\ s \in Seq(AnyStep)
         /\ s # << >> =>
              Head(s) \in {"unimage", "down", "reap", "sweep", "look"} /\ Tail(s) \in OtherRest
<1>1. CASE s = <<"unimage", "down", "reap", "sweep">>
  BY <1>1 DEF OtherRest, AnyStep
<1>2. CASE s = <<"down", "reap", "sweep">>
  BY <1>2 DEF OtherRest, AnyStep
<1>3. CASE s = <<"reap", "sweep">>
  BY <1>3 DEF OtherRest, AnyStep
<1>4. CASE s = <<"sweep">>
  BY <1>4 DEF OtherRest, AnyStep
<1>5. CASE s = <<"look">>
  BY <1>5 DEF OtherRest, AnyStep
<1>6. CASE s = << >>
  BY <1>6 DEF AnyStep
<1> QED BY <1>1, <1>2, <1>3, <1>4, <1>5, <1>6 DEF OtherRest

\* What is left is a sequence of steps; a step that is done is its head.
LEMMA TodoType ==
  ASSUME PassKnows
  PROVE  todo \in Seq(AnyStep)
BY ProcessNext, ImageNext, ProjectNext, DownNext, RefusedNext, OtherNext
   DEF PassKnows, ForProcess, ForImage, ForProject, ForDown, ForRefused, ForOther

LEMMA DoneIsTail ==
  ASSUME PassKnows, todo # << >>, Done
  PROVE  todo' = Tail(todo)
BY TodoType, TailIsSubSeq DEF Done

-----------------------------------------------------------------------------
\* What a step leaves alone, and where a step that fails leaves the pass.

LEMMA SpendKeeps ==
  ASSUME Types, NEW b \in Budget \ {"loss"}, Spend(b)
  PROVE  left' \in [Budget -> Nat] /\ left'["loss"] = left["loss"] /\ left'["loss"] <= MaxLosses
BY DEF Types, Spend, Budget

\* Desired state that names the Stack is a record of its parts.
LEMMA DesireType ==
  ASSUME StackAssumption, Types
  PROVE  desired # Absent => desired \in Desire /\ desired.spec \in Fingerprint
BY DEF StackAssumption, Types, Desire

LEMMA RecordsStay ==
  ASSUME RecordsAgree, UNCHANGED <<project, record, recordDisk, generations>>,
         left'["loss"] = left["loss"]
  PROVE  RecordsAgree'
BY DEF RecordsAgree, Undamaged

\* Nothing starts to run.
LEMMA NothingStarts ==
  ASSUME OneForm, left'["loss"] = left["loss"], Alive' => Alive,
         Running(image') => Running(image), Running(project') => Running(project)
  PROVE  OneForm'
BY DEF OneForm, Undamaged, Running

LEMMA OtherGoesOn ==
  ASSUME PassKnows, ForDown \/ ForRefused \/ ForOther, todo # << >>, Done, UNCHANGED desired
  PROVE  PassKnows'
<1>1. todo' = Tail(todo)
  BY DoneIsTail
<1>2. Tail(todo) \in OtherRest \/ (Tail(todo) \in DownRest /\ ~Up)
  BY DownNext, RefusedNext, OtherNext DEF ForDown, ForRefused, ForOther
<1> QED BY <1>1, <1>2 DEF PassKnows, ForOther, ForDown, Up

LEMMA ClosingIsOther ==
  Closing \in OtherRest
BY DEF Closing, OtherRest

LEMMA RaiseGoesOn ==
  ASSUME PassKnows, todo # << >>, Raise, UNCHANGED desired
  PROVE  PassKnows'
<1>1. CASE desired = Absent
  <2>1. ~Up /\ ~Wants("process") /\ ~Wants("image") /\ ~Wants("compose") /\ ~Refused
    BY <1>1 DEF Up, Wants, Refused
  <2>2. ForDown \/ ForOther
    BY <2>1 DEF PassKnows, ForProcess, ForImage, ForProject, ForRefused
  <2> QED BY <1>1, <2>2, OtherGoesOn DEF Raise
<1>2. CASE desired # Absent
  BY <1>2, ClosingIsOther DEF Raise, PassKnows, ForOther
<1> QED BY <1>1, <1>2

\* What the pass is about does not change under it.
LEMMA DesiredStays ==
  ASSUME UNCHANGED desired
  PROVE  /\ Wants("process")' = Wants("process") /\ Wants("image")' = Wants("image")
         /\ Wants("compose")' = Wants("compose") /\ Refused' = Refused /\ Up' = Up
BY DEF Wants, Refused, Up

\* The pass goes on to start a process, a container or a project.
LEMMA ProcessGoesOn ==
  ASSUME PassKnows, ForProcess, Done, UNCHANGED desired, Head(todo) # "start",
         Head(todo) \in {"unimage", "down"} => image' = None,
         Head(todo) = "down" /\ Undamaged' => project' = None
  PROVE  PassKnows'
<1>1. todo # << >> /\ todo \in ProcessRest
  BY ProcessNext DEF ForProcess
<1>2. todo' = Tail(todo)
  BY <1>1, DoneIsTail
<1>3. /\ todo' \in ProcessRest /\ Head(todo') # "stop"
      /\ Head(todo') \in {"down", "start"} => Head(todo) \in {"unimage", "down"}
      /\ Head(todo') = "start" => Head(todo) = "down"
  BY <1>1, <1>2, ProcessNext
<1>4. ForProcess'
  BY <1>3, DesiredStays DEF ForProcess
<1> QED BY <1>4 DEF PassKnows

LEMMA ImageGoesOn ==
  ASSUME PassKnows, ForImage, Done, UNCHANGED desired, Head(todo) # "run", child' = None,
         Head(todo) = "down" /\ Undamaged' => project' = None
  PROVE  PassKnows'
<1>1. todo # << >> /\ todo \in ImageRest
  BY ImageNext DEF ForImage
<1>2. todo' = Tail(todo)
  BY <1>1, DoneIsTail
<1>3. /\ todo' \in ImageRest /\ Head(todo') # "stop"
      /\ Head(todo') = "run" => Head(todo) = "down"
  BY <1>1, <1>2, ImageNext
<1>4. ForImage'
  BY <1>3, DesiredStays DEF ForImage
<1> QED BY <1>4 DEF PassKnows

LEMMA ProjectGoesOn ==
  ASSUME PassKnows, ForProject, Done, UNCHANGED desired, Head(todo) # "confirm",
         Head(todo) = "record" => UNCHANGED <<child, busy, late>>,
         Head(todo) # "record" => child' = None,
         IF Head(todo) = "unimage" THEN image' = None ELSE UNCHANGED image,
         record' = [spec |-> desired.spec, state |-> "pending"], desired.spec \in generations',
         Head(todo) = "up" => project' # None /\ project'.spec = desired.spec
  PROVE  PassKnows'
<1>1. todo # << >> /\ todo \in ProjectRest
  BY ProjectNext DEF ForProject
<1>2. todo' = Tail(todo)
  BY <1>1, DoneIsTail
<1>3. /\ todo' \in ProjectRest /\ Head(todo') # "record"
      /\ Head(todo') = "confirm" => Head(todo) = "up"
      /\ Head(todo) = "record" => (todo' \in ProjectStops <=> todo \in ProjectStops)
      /\ Head(todo) # "record" => todo' \notin ProjectStops
      /\ Head(todo) # "unimage" => (todo' \in ProjectUnimages <=> todo \in ProjectUnimages)
  BY <1>1, <1>2, ProjectNext
<1>4. /\ todo' \in ProjectStops /\ busy' => late'
      /\ todo' \notin ProjectStops => child' = None
      /\ todo' \notin ProjectUnimages => image' = None
  BY <1>3 DEF ForProject
<1>5. ForProject'
  BY <1>3, <1>4, DesiredStays DEF ForProject
<1> QED BY <1>5 DEF PassKnows

\* The last step of what a pass starts.
LEMMA StartEnds ==
  ASSUME PassKnows, Done,
         \/ ForProcess /\ Head(todo) = "start"
         \/ ForImage /\ Head(todo) = "run"
         \/ ForProject /\ Head(todo) = "confirm"
  PROVE  PassKnows'
<1>1. todo # << >> /\ Tail(todo) \in OtherRest
  BY ProcessNext, ImageNext, ProjectNext DEF ForProcess, ForImage, ForProject
<1> QED BY <1>1, DoneIsTail DEF PassKnows, ForOther

-----------------------------------------------------------------------------
\* The pass: its steps.

LEMMA StopChildKeeps ==
  ASSUME IInv, StopChild
  PROVE  IInv'
<1>1. /\ At("stop") /\ child' = None /\ busy' = FALSE /\ corpse' \in BOOLEAN /\ ~Alive'
      /\ UNCHANGED <<desired, image, project, record, recordDisk, generations, late>>
  BY DEF StopChild, docker, records, Alive, IInv, Types
<1>2. left' \in [Budget -> Nat] /\ left'["loss"] = left["loss"] /\ left'["loss"] <= MaxLosses
  BY SpendKeeps DEF StopChild, IInv, Types, Budget
<1>3. Types'
  BY <1>1, <1>2 DEF IInv, Types
<1>4. RecordsAgree' /\ OneForm'
  BY <1>1, <1>2, RecordsStay, NothingStarts DEF IInv
<1>5. PassKnows'
  <2>1. CASE Raise
    BY <1>1, <2>1, RaiseGoesOn DEF IInv, At
  <2>2. CASE Done /\ ForProcess
    BY <1>1, <2>2, ProcessGoesOn DEF IInv, At
  <2>3. CASE Done /\ ForImage
    BY <1>1, <2>3, ImageGoesOn DEF IInv, At
  <2>4. CASE Done /\ ForProject
    BY <1>1, <2>4, ProjectGoesOn DEF IInv, At, ForProject
  <2>5. CASE Done /\ (ForDown \/ ForRefused \/ ForOther)
    BY <1>1, <2>5, OtherGoesOn DEF IInv, At
  <2> QED BY <2>1, <2>2, <2>3, <2>4, <2>5 DEF StopChild, IInv, PassKnows
<1> QED BY <1>1, <1>3, <1>4, <1>5 DEF IInv

LEMMA RemoveImageKeeps ==
  ASSUME IInv, RemoveImage
  PROVE  IInv'
<1>1. /\ At("unimage") /\ image' \in {image, None}
      /\ UNCHANGED <<desired, child, busy, corpse, project, record, recordDisk, generations, late>>
      /\ Alive' = Alive
  BY DEF RemoveImage, driver, records, Alive
<1>2. left' \in [Budget -> Nat] /\ left'["loss"] = left["loss"] /\ left'["loss"] <= MaxLosses
  BY SpendKeeps DEF RemoveImage, IInv, Types, Budget
<1>3. Types'
  BY <1>1, <1>2 DEF IInv, Types
<1>4. RecordsAgree' /\ OneForm'
  BY <1>1, <1>2, RecordsStay, NothingStarts DEF IInv, Running
<1>5. PassKnows'
  <2>1. CASE Raise
    BY <1>1, <2>1, RaiseGoesOn DEF IInv, At
  <2>2. CASE todo' = Closing
    BY <2>2, ClosingIsOther DEF PassKnows, ForOther
  <2>3. CASE image' = None /\ Done
    <3>1. CASE ForProcess
      BY <1>1, <2>3, <3>1, ProcessGoesOn DEF IInv, At
    <3>2. CASE ForProject
      <4>1. todo \notin ProjectStops
        BY <1>1, <3>2, ProjectNext DEF At, ForProject
      <4> QED BY <1>1, <2>3, <3>2, <4>1, ProjectGoesOn DEF IInv, At, ForProject
    <3>3. CASE ForDown \/ ForRefused \/ ForOther
      BY <1>1, <2>3, <3>3, OtherGoesOn DEF IInv, At
    <3>4. ~ForImage
      BY <1>1, ImageNext DEF ForImage, At
    <3> QED BY <3>1, <3>2, <3>3, <3>4 DEF IInv, PassKnows
  <2> QED BY <2>1, <2>2, <2>3 DEF RemoveImage
<1> QED BY <1>1, <1>3, <1>4, <1>5 DEF IInv

LEMMA ComposeDownKeeps ==
  ASSUME StackAssumption, IInv, ComposeDown
  PROVE  IInv'
<1>1. /\ At("down") /\ Alive' = Alive
      /\ UNCHANGED <<desired, child, busy, corpse, image, generations, late>>
  BY DEF ComposeDown, driver, Alive
<1>2. left' \in [Budget -> Nat] /\ left'["loss"] = left["loss"] /\ left'["loss"] <= MaxLosses
  BY SpendKeeps DEF ComposeDown, DownFails, IInv, Types, Budget
<1>3. /\ project' \in Container \cup {None} /\ (Running(project') => Running(project))
      /\ project' # None => project # None /\ project'.spec = project.spec
  BY DEF ComposeDown, DownFails, Halted, Running, IInv, Types, Container
<1>4. /\ record' \in {record, None} /\ recordDisk' \in {recordDisk, None}
      /\ \/ UNCHANGED <<record, recordDisk>>
         \/ record' = None /\ project' = None
  BY DEF ComposeDown
<1>5. Types'
  BY <1>1, <1>2, <1>3, <1>4 DEF IInv, Types
<1>6. RecordsAgree'
  BY <1>1, <1>2, <1>3, <1>4 DEF IInv, RecordsAgree, Undamaged
<1>7. OneForm'
  BY <1>1, <1>2, <1>3, NothingStarts DEF IInv, Running
<1>8. PassKnows'
  <2>1. CASE Raise
    BY <1>1, <2>1, RaiseGoesOn DEF IInv, At
  <2>2. CASE Done /\ record' = None
    <3>1. Undamaged' => project' = None
      BY <1>6, <2>2 DEF RecordsAgree
    <3>2. CASE ForProcess
      BY <1>1, <2>2, <3>1, <3>2, ProcessGoesOn DEF IInv, At, ForProcess
    <3>3. CASE ForImage
      BY <1>1, <2>2, <3>1, <3>3, ImageGoesOn DEF IInv, At, ForImage
    <3>4. CASE ForDown \/ ForRefused \/ ForOther
      BY <1>1, <2>2, <3>4, OtherGoesOn DEF IInv, At
    <3>5. ~ForProject
      BY <1>1, ProjectNext DEF ForProject, At
    <3> QED BY <3>2, <3>3, <3>4, <3>5 DEF IInv, PassKnows
  <2> QED BY <2>1, <2>2 DEF ComposeDown
<1> QED BY <1>1, <1>5, <1>6, <1>7, <1>8 DEF IInv

LEMMA DownUntrackedKeeps ==
  ASSUME StackAssumption, IInv, DownUntracked
  PROVE  IInv'
<1>1. /\ At("untracked") /\ Done /\ Alive' = Alive
      /\ UNCHANGED <<desired, child, busy, corpse, image, record, recordDisk, late>>
      /\ project' \in {project, None}
  BY DEF DownUntracked, driver, Alive
<1>2. left' \in [Budget -> Nat] /\ left'["loss"] = left["loss"] /\ left'["loss"] <= MaxLosses
  BY SpendKeeps DEF DownUntracked, IInv, Types, Budget
<1>3. generations \subseteq generations' /\ generations' \subseteq Fingerprint
  BY DesireType DEF DownUntracked, IInv, Types
<1>4. Types'
  BY <1>1, <1>2, <1>3 DEF IInv, Types
<1>5. RecordsAgree'
  BY <1>1, <1>2, <1>3 DEF IInv, RecordsAgree, Undamaged
<1>6. OneForm'
  BY <1>1, <1>2, NothingStarts DEF IInv, Running
<1>7. ForDown \/ ForRefused \/ ForOther
  BY <1>1, ProcessNext, ImageNext, ProjectNext
     DEF IInv, PassKnows, ForProcess, ForImage, ForProject, At
<1> QED BY <1>1, <1>4, <1>5, <1>6, <1>7, OtherGoesOn DEF IInv, At

\* Each start is of one phase of the pass, and finds what it needs.
LEMMA StartChildKeeps ==
  ASSUME StackAssumption, IInv, StartChild
  PROVE  IInv'
<1>1. /\ At("start") /\ child' = [spec |-> desired.spec, alive |-> TRUE] /\ Done
      /\ UNCHANGED <<desired, busy, corpse, image, project, record, recordDisk, generations, late, left>>
  BY DEF StartChild, docker, records
<1>2. ForProcess
  BY <1>1, ImageNext, ProjectNext, DownNext, RefusedNext, OtherNext
     DEF IInv, PassKnows, ForImage, ForProject, ForDown, ForRefused, ForOther, At
<1>3. image = None /\ (Undamaged => project = None) /\ desired # Absent
  BY <1>1, <1>2 DEF ForProcess, At, Wants, Up
<1>4. child' \in Child /\ child' # None /\ child'.alive
  <2>1. desired.spec \in Fingerprint
    BY <1>3, DesireType DEF IInv
  <2>2. child' \in Child /\ child'.alive
    BY <1>1, <2>1 DEF Child
  <2> QED BY <2>2 DEF StackAssumption
<1>5. Types' /\ RecordsAgree'
  BY <1>1, <1>4, RecordsStay DEF IInv, Types
<1>6. OneForm' /\ Alive'
  BY <1>1, <1>3, <1>4 DEF OneForm, Alive, Running, Undamaged
<1> QED BY <1>1, <1>2, <1>5, <1>6, StartEnds DEF IInv, At

LEMMA RunImageKeeps ==
  ASSUME StackAssumption, IInv, RunImage
  PROVE  IInv'
<1>1. /\ At("run") /\ Done /\ Alive' = Alive
      /\ UNCHANGED <<desired, child, busy, corpse, project, record, recordDisk, generations, late>>
  BY DEF RunImage, driver, records, Alive
<1>2. left' \in [Budget -> Nat] /\ left'["loss"] = left["loss"] /\ left'["loss"] <= MaxLosses
  BY SpendKeeps DEF RunImage, IInv, Types, Budget
<1>3. ForImage
  BY <1>1, ProcessNext, ProjectNext, DownNext, RefusedNext, OtherNext
     DEF IInv, PassKnows, ForProcess, ForProject, ForDown, ForRefused, ForOther, At
<1>4. child = None /\ (Undamaged => project = None) /\ desired # Absent
  BY <1>1, <1>3 DEF ForImage, At, Wants, Up
<1>5. image' \in Container \cup {None}
  <2>1. desired.spec \in Fingerprint /\ image \in Container \cup {None}
    BY <1>4, DesireType DEF IInv, Types
  <2>2. \A b \in BOOLEAN : [spec |-> desired.spec, running |-> b] \in Container
    BY <2>1 DEF Container
  <2> QED BY <2>1, <2>2 DEF RunImage
<1>6. Types' /\ RecordsAgree'
  BY <1>1, <1>2, <1>5, RecordsStay DEF IInv, Types
<1>7. OneForm'
  BY <1>1, <1>2, <1>4 DEF OneForm, Alive, Running, Undamaged
<1> QED BY <1>1, <1>3, <1>6, <1>7, StartEnds DEF IInv, At

LEMMA WriteAheadKeeps ==
  ASSUME StackAssumption, IInv, WriteAhead
  PROVE  IInv'
<1>1. /\ At("record") /\ generations' = generations \cup {desired.spec} /\ Alive' = Alive
      /\ UNCHANGED <<desired, child, busy, corpse, image, project, late>>
  BY DEF WriteAhead, driver, docker, Alive
<1>2. left' \in [Budget -> Nat] /\ left'["loss"] = left["loss"] /\ left'["loss"] <= MaxLosses
  BY SpendKeeps DEF WriteAhead, IInv, Types, Budget
<1>3. ForProject
  BY <1>1, ProcessNext, ImageNext, DownNext, RefusedNext, OtherNext
     DEF IInv, PassKnows, ForProcess, ForImage, ForDown, ForRefused, ForOther, At
<1>4. desired.spec \in Fingerprint
  BY <1>3, DesireType DEF IInv, ForProject, Wants, Up
<1>5. OneForm'
  BY <1>1, <1>2, NothingStarts DEF IInv, Running
<1>6. CASE /\ record' = [spec |-> desired.spec, state |-> "pending"] /\ recordDisk' = record'
           /\ Done
  <2>1. /\ record' \in Record /\ record' # None /\ record'.spec = desired.spec
        /\ record'.state = "pending"
    BY <1>4, <1>6 DEF Record, StackAssumption
  <2>2. Types'
    BY <1>1, <1>2, <1>4, <1>6, <2>1 DEF IInv, Types
  <2>3. RecordsAgree'
    BY <1>1, <1>2, <1>6, <2>1 DEF IInv, RecordsAgree, Undamaged
  <2>4. PassKnows'
    BY <1>1, <1>3, <1>6, ProjectGoesOn DEF IInv, At
  <2> QED BY <1>1, <1>5, <2>2, <2>3, <2>4 DEF IInv
<1>7. CASE Raise /\ UNCHANGED <<record, recordDisk>>
  <2>1. Types'
    BY <1>1, <1>2, <1>4, <1>7 DEF IInv, Types
  <2>2. RecordsAgree'
    BY <1>1, <1>2, <1>7 DEF IInv, RecordsAgree, Undamaged
  <2>3. PassKnows'
    BY <1>1, <1>7, RaiseGoesOn DEF IInv, At
  <2> QED BY <1>1, <1>5, <2>1, <2>2, <2>3 DEF IInv
<1> QED BY <1>6, <1>7 DEF WriteAhead

LEMMA ComposeUpKeeps ==
  ASSUME StackAssumption, IInv, ComposeUp
  PROVE  IInv'
<1>1. /\ At("up") /\ Alive' = Alive
      /\ UNCHANGED <<desired, child, busy, corpse, image, record, recordDisk, generations, late>>
  BY DEF ComposeUp, driver, records, Alive
<1>2. left' \in [Budget -> Nat] /\ left'["loss"] = left["loss"] /\ left'["loss"] <= MaxLosses
  BY SpendKeeps DEF ComposeUp, IInv, Types, Budget
<1>3. ForProject
  BY <1>1, ProcessNext, ImageNext, DownNext, RefusedNext, OtherNext
     DEF IInv, PassKnows, ForProcess, ForImage, ForDown, ForRefused, ForOther, At
<1>4. /\ child = None /\ image = None /\ desired.spec \in Fingerprint
      /\ record = [spec |-> desired.spec, state |-> "pending"] /\ desired.spec \in generations
  BY <1>1, <1>3, ProjectNext, DesireType DEF IInv, ForProject, At, Wants, Up
<1>5. record \in Record /\ record # None /\ record.state = "pending" /\ record.spec = desired.spec
  BY <1>4 DEF Record, StackAssumption
<1>6. \/ project' = project
      \/ project' \in Container /\ project' # None /\ project'.spec = desired.spec
  <2>1. \A b \in BOOLEAN : [spec |-> desired.spec, running |-> b] \in Container
    BY <1>4 DEF Container
  <2>2. project' = project \/ \E b \in BOOLEAN : project' = [spec |-> desired.spec, running |-> b]
    BY DEF ComposeUp
  <2> QED BY <2>1, <2>2 DEF StackAssumption
<1>7. Types'
  BY <1>1, <1>2, <1>6 DEF IInv, Types
<1>8. RecordsAgree'
  BY <1>1, <1>2, <1>4, <1>5, <1>6 DEF IInv, RecordsAgree, Undamaged
<1>9. OneForm'
  BY <1>1, <1>4 DEF OneForm, Alive, Running
<1>10. PassKnows'
  <2>1. CASE Raise
    BY <1>1, <2>1, RaiseGoesOn DEF IInv, At
  <2>2. CASE project' = [spec |-> desired.spec, running |-> TRUE] /\ Done
    <3>1. project' # None /\ project'.spec = desired.spec
      <4>1. project' \in Container /\ project'.spec = desired.spec
        BY <1>4, <2>2 DEF Container
      <4> QED BY <4>1 DEF StackAssumption
    <3> QED BY <1>1, <1>3, <1>4, <2>2, <3>1, ProjectGoesOn DEF IInv, At
  <2> QED BY <2>1, <2>2 DEF ComposeUp
<1> QED BY <1>1, <1>7, <1>8, <1>9, <1>10 DEF IInv

LEMMA ConfirmKeeps ==
  ASSUME StackAssumption, IInv, Confirm
  PROVE  IInv'
<1>1. /\ At("confirm") /\ Done /\ Alive' = Alive
      /\ record' = [spec |-> desired.spec, state |-> "applied"]
      /\ recordDisk' = record' \/ UNCHANGED recordDisk
      /\ UNCHANGED <<desired, child, busy, corpse, image, project, generations, late>>
  BY DEF Confirm, Applied, driver, docker, Alive
<1>2. left' \in [Budget -> Nat] /\ left'["loss"] = left["loss"] /\ left'["loss"] <= MaxLosses
  BY SpendKeeps DEF Confirm, IInv, Types, Budget
<1>3. ForProject
  BY <1>1, ProcessNext, ImageNext, DownNext, RefusedNext, OtherNext
     DEF IInv, PassKnows, ForProcess, ForImage, ForDown, ForRefused, ForOther, At
<1>4. /\ project # None /\ project.spec = desired.spec /\ desired.spec \in Fingerprint
      /\ record = [spec |-> desired.spec, state |-> "pending"] /\ desired.spec \in generations
  BY <1>1, <1>3, DesireType DEF IInv, ForProject, At, Wants, Up
<1>5. record \in Record /\ record # None /\ record.state = "pending" /\ record.spec = desired.spec
  BY <1>4 DEF Record, StackAssumption
<1>6. /\ record' \in Record /\ record' # None /\ record'.state = "applied"
      /\ record'.spec = desired.spec
  BY <1>1, <1>4 DEF Record, StackAssumption
<1>7. Types'
  BY <1>1, <1>2, <1>6 DEF IInv, Types
<1>8. RecordsAgree'
  BY <1>1, <1>2, <1>4, <1>5, <1>6 DEF IInv, RecordsAgree, Undamaged
<1>9. OneForm'
  BY <1>1, <1>2, NothingStarts DEF IInv, Running
<1> QED BY <1>1, <1>3, <1>7, <1>8, <1>9, StartEnds DEF IInv, At

\* The closing steps are of what no form needs.
LEMMA ReapKeeps ==
  ASSUME IInv, Reap
  PROVE  IInv'
<1>1. /\ At("reap") /\ Done /\ Alive' = Alive /\ corpse' \in BOOLEAN
      /\ UNCHANGED <<desired, child, busy, image, project, record, recordDisk, generations, late>>
  BY DEF Reap, docker, records, Alive, IInv, Types
<1>2. left' \in [Budget -> Nat] /\ left'["loss"] = left["loss"] /\ left'["loss"] <= MaxLosses
  BY SpendKeeps DEF Reap, IInv, Types, Budget
<1>3. Types' /\ RecordsAgree' /\ OneForm'
  BY <1>1, <1>2, RecordsStay, NothingStarts DEF IInv, Types, Running
<1>4. ForDown \/ ForRefused \/ ForOther
  BY <1>1, ProcessNext, ImageNext, ProjectNext
     DEF IInv, PassKnows, ForProcess, ForImage, ForProject, At
<1> QED BY <1>1, <1>3, <1>4, OtherGoesOn DEF IInv, At

LEMMA SweepKeeps ==
  ASSUME IInv, Sweep
  PROVE  IInv'
<1>1. /\ At("sweep") /\ Done /\ Alive' = Alive
      /\ generations' \in {generations, generations \cap Kept}
      /\ UNCHANGED <<desired, child, busy, corpse, image, project, record, recordDisk, late>>
  BY DEF Sweep, driver, docker, Alive
<1>2. left' \in [Budget -> Nat] /\ left'["loss"] = left["loss"] /\ left'["loss"] <= MaxLosses
  BY SpendKeeps DEF Sweep, IInv, Types, Budget
<1>3. Types' /\ OneForm'
  BY <1>1, <1>2, NothingStarts DEF IInv, Types, Running
<1>4. RecordsAgree'
  <2>1. ASSUME record # None
        PROVE  /\ record.state = "pending" => Kept = generations
               /\ record.state = "applied" => Kept = {record.spec}
               /\ record.state \in {"pending", "applied"}
    BY <2>1 DEF Kept, IInv, Types, Record
  <2> QED BY <1>1, <1>2, <2>1 DEF IInv, RecordsAgree, Undamaged
<1>5. ForDown \/ ForRefused \/ ForOther
  BY <1>1, ProcessNext, ImageNext, ProjectNext
     DEF IInv, PassKnows, ForProcess, ForImage, ForProject, At
<1> QED BY <1>1, <1>3, <1>4, <1>5, OtherGoesOn DEF IInv, At

-----------------------------------------------------------------------------
\* The pass: what it is for.

\* A plan changes nothing but what is left to do.
LEMMA PlanKeeps ==
  ASSUME IInv, UNCHANGED <<desired, driver, docker, records, late>>,
         left' \in [Budget -> Nat], left'["loss"] = left["loss"], PassKnows'
  PROVE  IInv'
<1>1. UNCHANGED <<desired, child, busy, corpse, image, project, record, recordDisk,
                  generations, late>> /\ Alive' = Alive
  BY DEF driver, docker, records, Alive
<1>2. Types' /\ RecordsAgree' /\ OneForm'
  BY <1>1, RecordsStay, NothingStarts DEF IInv, Types, Running
<1> QED BY <1>1, <1>2 DEF IInv

\* A pass that is due to start a form has no Run to wait for.
LEMMA DueIsIdle ==
  ASSUME busy => Alive, NEW form, Due(form), form = "process" => ~ChildKept
  PROVE  Wants(form) /\ ~Refused /\ ~busy
BY DEF Due, Deferred, Wants, ChildKept

LEMMA BeginKeeps ==
  ASSUME IInv, Begin
  PROVE  IInv'
<1>1. /\ todo' = <<"look">> /\ late' = FALSE /\ Alive' = Alive
      /\ UNCHANGED <<desired, child, busy, corpse, image, project, record, recordDisk,
                     generations, left>>
  BY DEF Begin, driver, docker, records, Alive
<1>2. Types' /\ RecordsAgree' /\ OneForm'
  BY <1>1, RecordsStay, NothingStarts DEF IInv, Types, Running
<1>3. PassKnows'
  BY <1>1 DEF PassKnows, ForOther, OtherRest
<1> QED BY <1>1, <1>2, <1>3 DEF IInv

LEMMA LookKeeps ==
  ASSUME StackAssumption, IInv, Look
  PROVE  IInv'
<1>1. /\ UNCHANGED <<desired, driver, docker, records, late>>
      /\ left' \in [Budget -> Nat] /\ left'["loss"] = left["loss"]
  <2>1. CASE PrerequisiteMissing
    BY <2>1, SpendKeeps DEF PrerequisiteMissing, Due, Looking, IInv, Budget
  <2>2. CASE TearDown \/ KeepChild \/ KeepContainers \/ Refuse \/ Defer
    BY <2>2 DEF TearDown, KeepChild, KeepContainers, Refuse, Defer, Looking, Plan, IInv, Types
  <2>3. CASE StartProcess \/ StartImage \/ StartProject
    BY <2>3 DEF StartProcess, StartImage, StartProject, Due, Looking, Plan, IInv, Types
  <2> QED BY <2>1, <2>2, <2>3 DEF Look
<1>2. UNCHANGED <<child, busy, image, project, record, late>>
  BY <1>1 DEF driver, docker, records
<1>3. \A s : s \in OtherRest => (todo' = s => PassKnows')
  BY DEF PassKnows, ForOther
<1>4. CASE TearDown
  <2>1. ~Up /\ todo' \in DownRest
    BY <1>4, DownPlan DEF TearDown, Plan
  <2> QED BY <1>1, <2>1, DesiredStays, PlanKeeps DEF PassKnows, ForDown
<1>5. CASE KeepChild
  <2>1. todo' \in {<<"unimage", "down">> \o Closing, << >> \o Closing}
    BY <1>5 DEF KeepChild, Plan
  <2>2. todo' \in OtherRest
    BY <2>1, Closes DEF OtherRest
  <2> QED BY <1>1, <1>3, <2>2, PlanKeeps
<1>6. CASE KeepContainers \/ Defer
  <2>1. todo' = << >> \o Closing
    BY <1>6 DEF KeepContainers, Defer, Plan
  <2>2. todo' \in OtherRest
    BY <2>1, Closes DEF OtherRest
  <2> QED BY <1>1, <1>3, <2>2, PlanKeeps
<1>7. CASE Refuse
  <2>1. Refused /\ todo' \in {<<"stop">> \o Closing, << >> \o Closing}
    BY <1>7 DEF Refuse, Plan, If
  <2>2. todo' \in RefusedRest \cup OtherRest
    BY <2>1, Closes DEF RefusedRest, OtherRest
  <2> QED BY <1>1, <2>1, <2>2, DesiredStays, PlanKeeps DEF PassKnows, ForRefused, ForOther
<1>8. CASE StartProcess
  <2>1. Wants("process") /\ ~Refused /\ ~busy
    BY <1>8, DueIsIdle DEF StartProcess, IInv
  <2>2. /\ todo' \in ProcessRest
        /\ Head(todo') = "stop" \/ Head(todo') = "unimage"
    BY <1>8, ProcessPlan DEF StartProcess, Plan
  <2>3. ForProcess'
    BY <1>1, <1>2, <2>1, <2>2, DesiredStays DEF ForProcess
  <2> QED BY <1>1, <2>3, PlanKeeps DEF PassKnows
<1>9. CASE StartImage
  <2>1. Wants("image") /\ ~busy
    BY <1>9, DueIsIdle DEF StartImage, IInv
  <2>2. /\ todo' \in ImageRest
        /\ child # None => Head(todo') = "stop"
        /\ child = None => Head(todo') = "down"
    BY <1>9, ImagePlan DEF StartImage, Plan
  <2>3. ForImage'
    BY <1>1, <1>2, <2>1, <2>2, DesiredStays DEF ForImage
  <2> QED BY <1>1, <2>3, PlanKeeps DEF PassKnows
<1>10. CASE StartProject
  <2>1. Wants("compose") /\ ~busy
    BY <1>10, DueIsIdle DEF StartProject, IInv
  <2>2. /\ todo' \in ProjectRest /\ Head(todo') = "record"
        /\ child # None => todo' \in ProjectStops
        /\ image # None => todo' \in ProjectUnimages
    BY <1>10, ProjectPlan DEF StartProject, Plan
  <2>3. ForProject'
    BY <1>1, <1>2, <2>1, <2>2, DesiredStays DEF ForProject
  <2> QED BY <1>1, <2>3, PlanKeeps DEF PassKnows
<1>11. CASE PrerequisiteMissing
  <2>1. todo' \in OtherRest
    BY <1>11, ClosingIsOther DEF PrerequisiteMissing
  <2> QED BY <1>1, <1>3, <2>1, PlanKeeps
<1> QED BY <1>4, <1>5, <1>6, <1>7, <1>8, <1>9, <1>10, <1>11 DEF Look

-----------------------------------------------------------------------------
\* The world around the daemon.

\* The pass is where it was, and what it knows of the host has not changed
\* but by an end of a Run, or a Run that is late.
LEMMA PassStays ==
  ASSUME PassKnows, UNCHANGED <<desired, todo, project, record, generations>>,
         left'["loss"] = left["loss"],
         child = None => child' = None, image = None => image' = None,
         busy' => late' \/ (busy /\ late' = late)
  PROVE  PassKnows'
<1>1. /\ (todo \in ProcessRest)' = (todo \in ProcessRest)
      /\ Head(todo)' = Head(todo) /\ Undamaged' = Undamaged
  BY DEF Undamaged
<1>2. ForProcess => ForProcess'
  BY <1>1, DesiredStays DEF ForProcess
<1>3. ForImage => ForImage'
  BY <1>1, DesiredStays DEF ForImage
<1>4. ForProject => ForProject'
  BY <1>1, DesiredStays DEF ForProject
<1>5. (ForDown => ForDown') /\ (ForRefused => ForRefused') /\ (ForOther => ForOther')
  BY DesiredStays DEF ForDown, ForRefused, ForOther
<1> QED BY <1>2, <1>3, <1>4, <1>5 DEF PassKnows

LEMMA ChangeKeeps ==
  ASSUME IInv, NEW d \in Desires, Change(d)
  PROVE  IInv'
<1>1. /\ todo' = << >> /\ desired' \in Desires /\ Alive' = Alive
      /\ UNCHANGED <<child, busy, corpse, image, project, record, recordDisk, generations, late>>
  BY DEF Change, driver, docker, records, Alive
<1>2. left' \in [Budget -> Nat] /\ left'["loss"] = left["loss"] /\ left'["loss"] <= MaxLosses
  BY SpendKeeps DEF Change, IInv, Types, Budget
<1>3. Types' /\ RecordsAgree' /\ OneForm'
  BY <1>1, <1>2, RecordsStay, NothingStarts DEF IInv, Types, Running
<1>4. PassKnows'
  BY <1>1 DEF PassKnows, ForOther, OtherRest
<1> QED BY <1>1, <1>3, <1>4 DEF IInv

LEMMA RunKeeps ==
  ASSUME IInv, RunStarts \/ RunEnds
  PROVE  IInv'
<1>1. /\ busy' \in BOOLEAN /\ late' \in BOOLEAN /\ Alive' = Alive /\ (busy' => Alive)
      /\ UNCHANGED <<desired, child, corpse, image, project, record, recordDisk, generations, todo>>
  BY DEF RunStarts, RunEnds, docker, records, Alive, IInv, Types
<1>2. left' \in [Budget -> Nat] /\ left'["loss"] = left["loss"] /\ left'["loss"] <= MaxLosses
  BY SpendKeeps DEF RunStarts, RunEnds, IInv, Types, Budget
<1>3. Types' /\ RecordsAgree' /\ OneForm'
  BY <1>1, <1>2, RecordsStay, NothingStarts DEF IInv, Types, Running
<1>4. PassKnows'
  <2>1. CASE todo # << >>
    <3>1. busy' => late'
      BY <2>1 DEF RunStarts, RunEnds
    <3> QED BY <1>1, <1>2, <3>1, PassStays DEF IInv
  <2>2. CASE todo = << >>
    BY <1>1, <2>2 DEF PassKnows, ForOther, OtherRest
  <2> QED BY <2>1, <2>2
<1> QED BY <1>1, <1>3, <1>4 DEF IInv

LEMMA ChildDiesKeeps ==
  ASSUME StackAssumption, IInv, ChildDies
  PROVE  IInv'
<1>1. /\ child # None /\ child' = [child EXCEPT !.alive = FALSE]
      /\ busy' = FALSE /\ corpse' \in BOOLEAN
      /\ UNCHANGED <<desired, image, project, record, recordDisk, generations, todo, late>>
  BY DEF ChildDies, Alive, docker, records, IInv, Types
<1>2. left' \in [Budget -> Nat] /\ left'["loss"] = left["loss"] /\ left'["loss"] <= MaxLosses
  BY SpendKeeps DEF ChildDies, IInv, Types, Budget
<1>3. child' \in Child /\ ~Alive'
  BY <1>1 DEF IInv, Types, Child, Alive
<1>4. Types' /\ RecordsAgree' /\ OneForm'
  BY <1>1, <1>2, <1>3, RecordsStay, NothingStarts DEF IInv, Types, Running
<1>5. PassKnows'
  BY <1>1, <1>2, PassStays DEF IInv
<1> QED BY <1>1, <1>4, <1>5 DEF IInv

LEMMA ContainersStopKeeps ==
  ASSUME StackAssumption, IInv, ContainersStop
  PROVE  IInv'
<1>1. /\ Alive' = Alive
      /\ UNCHANGED <<desired, child, busy, corpse, record, recordDisk, generations, todo, late>>
  BY DEF ContainersStop, driver, records, Alive
<1>2. left' \in [Budget -> Nat] /\ left'["loss"] = left["loss"] /\ left'["loss"] <= MaxLosses
  BY SpendKeeps DEF ContainersStop, IInv, Types, Budget
<1>3. ASSUME NEW c \in Container
      PROVE  /\ [c EXCEPT !.running = FALSE] \in Container
             /\ [c EXCEPT !.running = FALSE].spec = c.spec
             /\ ~[c EXCEPT !.running = FALSE].running
  BY DEF Container
<1>4. /\ image' \in Container \cup {None} /\ project' \in Container \cup {None}
      /\ image = None <=> image' = None
      /\ project = None <=> project' = None
      /\ project # None => project'.spec = project.spec
      /\ Running(image') => Running(image)
      /\ Running(project') => Running(project)
  <2>1. CASE /\ image # None /\ image.running
             /\ image' = [image EXCEPT !.running = FALSE] /\ UNCHANGED project
    BY <1>3, <2>1 DEF IInv, Types, Running, StackAssumption
  <2>2. CASE /\ project # None /\ project.running
             /\ project' = [project EXCEPT !.running = FALSE] /\ UNCHANGED image
    BY <1>3, <2>2 DEF IInv, Types, Running, StackAssumption
  <2> QED BY <2>1, <2>2 DEF ContainersStop
<1>5. Types' /\ OneForm'
  BY <1>1, <1>2, <1>4, NothingStarts DEF IInv, Types
<1>6. RecordsAgree'
  BY <1>1, <1>2, <1>4 DEF IInv, RecordsAgree, Undamaged
<1>7. PassKnows'
  <2>1. Undamaged' = Undamaged
    BY <1>2 DEF Undamaged
  <2>2. ForProcess => ForProcess'
    BY <1>1, <1>4, <2>1, DesiredStays DEF ForProcess
  <2>3. ForImage => ForImage'
    BY <1>1, <1>4, <2>1, DesiredStays DEF ForImage
  <2>4. ForProject => ForProject'
    BY <1>1, <1>4, DesiredStays DEF ForProject
  <2>5. (ForDown => ForDown') /\ (ForRefused => ForRefused') /\ (ForOther => ForOther')
    BY <1>1, DesiredStays DEF ForDown, ForRefused, ForOther
  <2> QED BY <2>2, <2>3, <2>4, <2>5 DEF IInv, PassKnows
<1> QED BY <1>1, <1>5, <1>6, <1>7 DEF IInv

LEMMA CrashKeeps ==
  ASSUME IInv, Crash \/ CrashAndLose
  PROVE  IInv'
<1>1. /\ child' = None /\ corpse' \in BOOLEAN /\ busy' = FALSE /\ todo' = << >> /\ late' = FALSE
      /\ UNCHANGED <<desired, image, project, generations>> /\ ~Alive'
  BY DEF Crash, CrashAndLose, Die, docker, Alive, IInv, Types
<1>2. PassKnows'
  BY <1>1 DEF PassKnows, ForOther, OtherRest
<1>3. CASE Crash
  <2>1. record' = recordDisk /\ recordDisk' = recordDisk
    BY <1>3 DEF Crash
  <2>2. left' \in [Budget -> Nat] /\ left'["loss"] = left["loss"] /\ left'["loss"] <= MaxLosses
    BY <1>3, SpendKeeps DEF Crash, IInv, Budget
  <2>3. Types'
    BY <1>1, <2>1, <2>2 DEF IInv, Types
  <2>4. record # None => record.state \in {"pending", "applied"}
    BY DEF IInv, Types, Record
  <2>5. RecordsAgree'
    BY <1>1, <2>1, <2>2, <2>4 DEF IInv, RecordsAgree, Undamaged
  <2>6. OneForm'
    BY <1>1, <2>2, NothingStarts DEF IInv
  <2> QED BY <1>1, <1>2, <2>3, <2>5, <2>6 DEF IInv
<1>4. CASE CrashAndLose
  <2>1. record' = None /\ recordDisk' = None /\ Spend("loss")
    BY <1>4 DEF CrashAndLose
  <2>2. left' \in [Budget -> Nat] /\ left'["loss"] < MaxLosses /\ left'["loss"] <= MaxLosses
    <3>1. left \in [Budget -> Nat] /\ left["loss"] <= MaxLosses /\ MaxLosses \in Nat
      BY StackAssumption DEF IInv, Types, StackAssumption
    <3>2. left' \in [Budget -> Nat] /\ left'["loss"] = left["loss"] - 1 /\ left["loss"] \in Nat
      BY <2>1, <3>1 DEF Spend, Budget
    <3> QED BY <3>1, <3>2
  <2>3. ~Undamaged'
    BY <2>2, StackAssumption DEF Undamaged, StackAssumption, Budget
  <2>4. Types' /\ RecordsAgree' /\ OneForm'
    BY <1>1, <2>1, <2>2, <2>3 DEF IInv, Types, RecordsAgree, OneForm
  <2> QED BY <1>1, <1>2, <2>4 DEF IInv
<1> QED BY <1>3, <1>4

-----------------------------------------------------------------------------
\* The theorems.

LEMMA Initial ==
  ASSUME StackAssumption, Init
  PROVE  IInv
<1>1. /\ child = None /\ busy = FALSE /\ corpse = FALSE /\ image = None /\ project = None
      /\ record = None /\ recordDisk = None /\ generations = {} /\ todo = << >> /\ late = FALSE
      /\ desired \in Desires
  BY DEF Init
<1>2. left \in [Budget -> Nat] /\ left["loss"] = MaxLosses /\ MaxLosses \in Nat
  BY DEF StackAssumption, Init, Budget
<1>3. Types
  <2>1. left["loss"] <= MaxLosses
    BY <1>2
  <2> QED BY <1>1, <1>2, <2>1 DEF Types
<1>4. RecordsAgree /\ OneForm
  BY <1>1 DEF RecordsAgree, OneForm, Running, Alive
<1>5. PassKnows
  BY <1>1 DEF PassKnows, ForOther, OtherRest
<1> QED BY <1>1, <1>3, <1>4, <1>5 DEF IInv

LEMMA StutterKeeps ==
  ASSUME IInv, UNCHANGED vars
  PROVE  IInv'
<1>1. /\ UNCHANGED <<desired, child, busy, corpse, image, project, record, recordDisk,
                     generations, todo, late, left>> /\ Alive' = Alive
  BY DEF vars, driver, docker, records, Alive
<1>2. Types' /\ RecordsAgree' /\ OneForm' /\ PassKnows'
  BY <1>1, RecordsStay, NothingStarts, PassStays DEF IInv, Types, Running
<1> QED BY <1>1, <1>2 DEF IInv

LEMMA Inductive ==
  ASSUME StackAssumption, IInv, [Next]_vars
  PROVE  IInv'
<1>1. CASE Daemon
  BY <1>1, BeginKeeps, LookKeeps, StopChildKeeps, RemoveImageKeeps, ComposeDownKeeps,
     DownUntrackedKeeps, StartChildKeeps, RunImageKeeps, WriteAheadKeeps, ComposeUpKeeps,
     ConfirmKeeps, ReapKeeps, SweepKeeps DEF Daemon, Steps
<1>2. CASE \E d \in Desires : Change(d)
  BY <1>2, ChangeKeeps
<1>3. CASE RunStarts \/ RunEnds \/ ChildDies \/ ContainersStop \/ Crash \/ CrashAndLose
  BY <1>3, RunKeeps, ChildDiesKeeps, ContainersStopKeeps, CrashKeeps
<1>4. CASE UNCHANGED vars
  BY <1>4, StutterKeeps
<1> QED BY <1>1, <1>2, <1>3, <1>4 DEF Next

\* What each step of a pass relies on holds in every reachable state.
THEOREM Invariance == Spec => []IInv
<1>1. Init => IInv
  BY Initial, StackAssumption
<1>2. IInv /\ [Next]_vars => IInv'
  BY Inductive, StackAssumption
<1> QED BY <1>1, <1>2, PTL DEF Spec

\* Every variable keeps its type.
THEOREM TypeCorrect == Spec => []TypeOK
<1>1. IInv => TypeOK
  BY TodoType DEF IInv, Types, TypeOK, AnyStep
<1> QED BY <1>1, Invariance, PTL

\* One form of the Stack runs at a time, what is on the host can be taken down
\* from what is recorded, and a record that says applied is true, wherever a
\* call fails or the daemon dies (_converge_process, _converge_compose,
\* _converge_single_image, _write_ahead_compose, _sweep_compose_generations).
THEOREM HostIsKept == Spec => []HostInvariant
<1>1. ASSUME IInv
      PROVE  ProjectRecorded
  BY <1>1 DEF IInv, RecordsAgree, ProjectRecorded
<1>2. ASSUME IInv
      PROVE  AppliedIsTrue
  <2>1. record # None => record.state \in {"pending", "applied"}
    BY <1>2 DEF IInv, Types, Record
  <2>2. ASSUME recordDisk # None, recordDisk.state = "applied", project # None
        PROVE  project.spec = recordDisk.spec
    BY <1>2, <2>1, <2>2 DEF IInv, RecordsAgree
  <2>3. ASSUME record # None, record.state = "applied", project # None
        PROVE  project.spec = record.spec
    BY <1>2, <2>3 DEF IInv, RecordsAgree
  <2> QED BY <2>2, <2>3 DEF AppliedIsTrue
<1>3. IInv => TypeOK
  BY TodoType DEF IInv, Types, TypeOK, AnyStep
<1>4. IInv => HostInvariant
  BY <1>1, <1>2, <1>3 DEF HostInvariant, IInv
<1> QED BY <1>4, Invariance, PTL

\* A pass of a Stack that may stay up ends no Run that was in flight when it
\* looked (_inflight_blocker, _child_inflight_blocker).
THEOREM RunsAreSpared == Spec => RunsSpared
<1> DEFINE Spared == Up /\ ~Refused /\ busy /\ child' = None /\ todo' # << >> => late
<1>1. ASSUME IInv, StopChild
      PROVE  Spared
  <2>1. /\ At("stop")
    BY <1>1 DEF StopChild
  <2>2. CASE ForProcess \/ ForImage
    BY <2>1, <2>2 DEF ForProcess, ForImage, At
  <2>3. CASE ForProject
    BY <2>1, <2>3, ProjectNext DEF ForProject, At
  <2>4. CASE ForDown \/ ForRefused
    BY <2>4 DEF ForDown, ForRefused
  <2>5. ~ForOther
    BY <2>1, OtherNext DEF ForOther, At
  <2> QED BY <1>1, <2>2, <2>3, <2>4, <2>5 DEF IInv, PassKnows
<1>2. ASSUME IInv, Next, ~StopChild, busy, child' = None
      PROVE  todo' = << >>
  <2>1. child # None
    BY <1>2 DEF IInv, Alive
  <2>2. CASE Crash \/ CrashAndLose
    BY <2>2 DEF Crash, CrashAndLose, Die
  <2>3. CASE ChildDies
    <3>1. child \in Child /\ child' = [child EXCEPT !.alive = FALSE]
      BY <1>2, <2>1, <2>3 DEF IInv, Types, ChildDies
    <3>2. child' \in Child
      BY <3>1 DEF Child
    <3> QED BY <1>2, <3>2, StackAssumption DEF StackAssumption
  <2>4. CASE StartChild
    <3>1. child' = [spec |-> desired.spec, alive |-> TRUE] /\ At("start")
      BY <2>4 DEF StartChild
    <3>2. ForProcess
      BY <1>2, <3>1, ImageNext, ProjectNext, DownNext, RefusedNext, OtherNext
         DEF IInv, PassKnows, ForImage, ForProject, ForDown, ForRefused, ForOther, At
    <3>3. desired.spec \in Fingerprint
      BY <1>2, <3>2, DesireType, StackAssumption DEF IInv, ForProcess, Wants, Up
    <3>4. child' \in Child
      BY <3>1, <3>3 DEF Child
    <3> QED BY <1>2, <3>4, StackAssumption DEF StackAssumption
  <2>5. CASE ~StartChild /\ ~ChildDies /\ ~Crash /\ ~CrashAndLose
    <3>1. child' = child
      BY <1>2, <2>5 DEF Next, Daemon, Begin, Look, TearDown, KeepChild, KeepContainers, Refuse,
         Defer, StartProcess, StartImage, StartProject, PrerequisiteMissing, Plan, Steps,
         RemoveImage, ComposeDown, DownUntracked, RunImage, WriteAhead, ComposeUp, Confirm, Reap,
         Sweep, Change, RunStarts, RunEnds, ContainersStop, driver
    <3> QED BY <1>2, <2>1, <3>1
  <2> QED BY <2>2, <2>3, <2>4, <2>5
<1>3. ASSUME IInv, [Next]_vars
      PROVE  [Spared]_vars
  BY <1>1, <1>2, <1>3
<1>4. IInv /\ [Next]_vars => [Spared]_vars
  BY <1>3
<1> QED BY <1>4, Invariance, PTL DEF Spec, RunsSpared
=============================================================================
