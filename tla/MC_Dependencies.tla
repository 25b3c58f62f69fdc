-------------------------- MODULE MC_Dependencies --------------------------
(* Instances of Dependencies: the relations among the issues 1 to 3, as     *)
(* pairs <<dependent, blocker>>.                                           *)
EXTENDS Dependencies

Relation3(pairs) == [i \in 1 .. 3 |-> {p[2] : p \in {q \in pairs : q[1] = i}}]

(* The plans without cycles over three issues, whichever was created first.*)
Pairs3 == {<<i, j>> \in (1 .. 3) \X (1 .. 3) : i # j}
Acyclic3 ==
  {Relation3(s) : s \in {t \in SUBSET Pairs3 :
     /\ \A p, q \in t : ~(p[1] = q[2] /\ p[2] = q[1])
     /\ ~({<<1, 2>>, <<2, 3>>, <<3, 1>>} \subseteq t)
     /\ ~({<<2, 1>>, <<3, 2>>, <<1, 3>>} \subseteq t)}}

(* A chain, a fan-in, a fan-out, a diamond's half and a relation into      *)
(* another repository, for the run in which a human edits them.            *)
Edited3 ==
  {Relation3({<<3, 2>>, <<2, 1>>}), Relation3({<<3, 1>>, <<3, 2>>}),
   Relation3({<<2, 1>>, <<3, 1>>}), Relation3({<<1, 2>>, <<2, 3>>, <<1, 3>>}),
   Relation3({<<2, 1>>, <<2, Foreign>>})}
=============================================================================
